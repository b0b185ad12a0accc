------------------------------- MODULE Schema -------------------------------
(***************************************************************************)
(* The index schemas of the chunk store (src/chunk/schema.go): which rows  *)
(* of which tables a chunk is written to, and which rows a query reads.    *)
(*                                                                         *)
(* Times are ticks. One user; its id is a part of every hash key. A range  *)
(* key is the sequence of its components: buildRangeKey ends each with a   *)
(* zero byte that no component contains, so a prefix of the bytes that     *)
(* ends with one is a prefix of the sequence. encodeTime keeps the order   *)
(* of times, so a time stands for its encoding. Label values have no zero  *)
(* byte either, which originalEntries refuses to write and to look up.     *)
(***************************************************************************)
EXTENDS Integers, Sequences, FiniteSets

CONSTANTS
  Hour, Day,             \* the sizes of the buckets
  TablePeriod,
  UsePeriodicTables,
  PeriodicTableStartAt,  \* the day the periodic tables start
  SchemaFrom             \* version -> the day it starts, NotSet if it does not

NotSet == -1
Versions == 1..6

(* Days are days: the flags are dates. newCompositeSchema refuses versions *)
(* that do not start in their order.                                       *)
ASSUME SchemaAssumption ==
  /\ Hour \in Nat \ {0} /\ Day \in Nat \ {0} /\ Day % Hour = 0
  /\ TablePeriod \in Nat \ {0} /\ TablePeriod % Day = 0
  /\ UsePeriodicTables \in BOOLEAN
  /\ PeriodicTableStartAt \in Nat /\ PeriodicTableStartAt % Day = 0
  /\ SchemaFrom \in [Versions -> Nat \cup {NotSet}] /\ SchemaFrom[1] = 0
  /\ \A v \in Versions : SchemaFrom[v] # NotSet => SchemaFrom[v] % Day = 0
  /\ \A v, w \in Versions :
       v < w /\ SchemaFrom[v] # NotSet /\ SchemaFrom[w] # NotSet => SchemaFrom[v] <= SchemaFrom[w]

Lower(a, b) == IF a < b THEN a ELSE b
Higher(a, b) == IF a < b THEN b ELSE a

-----------------------------------------------------------------------------
(* Tables and buckets.                                                     *)

LegacyTable == -1   \* OriginalTableName; the others are numbered

tableForBucket(bucketStart) ==
  IF ~UsePeriodicTables \/ bucketStart < PeriodicTableStartAt THEN LegacyTable
  ELSE bucketStart \div TablePeriod

(* The offsets are left out: only v1 has these buckets, and ignores them.  *)
hourlyBuckets(from, through) ==
  {[from |-> 0, through |-> 0, table |-> tableForBucket(i * Hour), bucket |-> <<"hour", i>>] :
     i \in (from \div Hour)..(through \div Hour)}

dailyBuckets(from, through) ==
  {[from |-> Higher(0, from - i * Day), through |-> Lower(Day, through - i * Day),
    table |-> tableForBucket(i * Day), bucket |-> <<"day", i>>] :
     i \in (from \div Day)..(through \div Day)}

(* v1Schema to v6Schema: which buckets a version uses. *)
buckets(v, from, through) ==
  IF v = 1 THEN hourlyBuckets(from, through) ELSE dailyBuckets(from, through)

(* newCompositeSchema: the versions that are set. A version that the next  *)
(* one starts together with is skipped; the last has no end.               *)
Enabled == {v \in Versions : SchemaFrom[v] # NotSet}
Later(v) == {SchemaFrom[w] : w \in {x \in Enabled : x > v}}
nextSchemaStarts(v, through) ==
  IF Later(v) = {} THEN through + 1
  ELSE CHOOSE t \in Later(v) : \A u \in Later(v) : t <= u

(* The part of an interval each version answers for.                       *)
forSchemas(from, through) ==
  {[v |-> v, from |-> Higher(from, SchemaFrom[v]),
    through |-> Lower(through, nextSchemaStarts(v, through) - 1)] :
     v \in {w \in Enabled : /\ SchemaFrom[w] <= through
                            /\ from < nextSchemaStarts(w, through)
                            /\ SchemaFrom[w] < nextSchemaStarts(w, through)}}

(* The buckets of an interval, with their versions.                        *)
Pieces(from, through) ==
  UNION {{<<s.v, b>> : b \in buckets(s.v, s.from, s.through)} : s \in forSchemas(from, through)}

-----------------------------------------------------------------------------
(* Range keys.                                                             *)

Text(x) == [text |-> x]
Base64(x) == [base64 |-> x]
Time(t) == [time |-> t]
ChunkID(id) == [chunk |-> id]
RangeKeyV(n) == [version |-> n]
Empty == Text("")

(* The rows a version writes for a chunk in one bucket: originalEntries,   *)
(* base64Entries, labelNameInHashKeyEntries, v5Entries and v6Entries. The  *)
(* labels of a chunk are those without the metric name.                    *)
Row(b, hash, range, value) ==
  [table |-> b.table, hash |-> hash, range |-> range, value |-> value]

originalEntries(b, hash, c) ==
  {Row(b, hash, <<Text(k), Text(c.labels[k]), ChunkID(c.id)>>, "") : k \in DOMAIN c.labels}

base64Entries(b, hash, c) ==
  {Row(b, hash, <<Text(k), Base64(c.labels[k]), ChunkID(c.id), RangeKeyV(1)>>, "") : k \in DOMAIN c.labels}

labelNameInHashKeyEntries(b, hash, c) ==
  {Row(b, hash, <<Empty, Empty, ChunkID(c.id), RangeKeyV(2)>>, "")} \cup
  {Row(b, Append(hash, k), <<Empty, Base64(c.labels[k]), ChunkID(c.id), RangeKeyV(1)>>, "") :
     k \in DOMAIN c.labels}

v5Entries(b, hash, c) ==
  {Row(b, hash, <<Time(b.through), Empty, ChunkID(c.id), RangeKeyV(3)>>, "")} \cup
  {Row(b, Append(hash, k), <<Time(b.through), Base64(c.labels[k]), ChunkID(c.id), RangeKeyV(4)>>, "") :
     k \in DOMAIN c.labels}

v6Entries(b, hash, c) ==
  {Row(b, hash, <<Time(b.through), Empty, ChunkID(c.id), RangeKeyV(3)>>, "")} \cup
  {Row(b, Append(hash, k), <<Time(b.through), Empty, ChunkID(c.id), RangeKeyV(5)>>, c.labels[k]) :
     k \in DOMAIN c.labels}

GetWriteEntries(c) ==
  UNION {LET v == p[1]
             b == p[2]
             hash == Append(b.bucket, c.metric)
         IN CASE v \in {1, 2} -> originalEntries(b, hash, c)
              [] v = 3 -> base64Entries(b, hash, c)
              [] v = 4 -> labelNameInHashKeyEntries(b, hash, c)
              [] v = 5 -> v5Entries(b, hash, c)
              [] v = 6 -> v6Entries(b, hash, c) :
         p \in Pieces(c.from, c.through)}

-----------------------------------------------------------------------------
(* Reading. A read entry asks for the rows of a hash key that start with a *)
(* prefix, or, in v6, whose time is "start" or later.                      *)

Read(b, hash, prefix, start) ==
  [table |-> b.table, hash |-> hash, prefix |-> prefix, start |-> start]

GetReadEntriesForMetric(from, through, metric) ==
  {LET b == p[2]
   IN Read(b, Append(b.bucket, metric), << >>, IF p[1] = 6 THEN b.from ELSE NotSet) :
     p \in Pieces(from, through)}

(* In the first three versions the label is in the range key.              *)
GetReadEntriesForMetricLabel(from, through, metric, k) ==
  {LET b == p[2]
       hash == Append(b.bucket, metric)
   IN IF p[1] <= 3 THEN Read(b, hash, <<Text(k)>>, NotSet)
      ELSE Read(b, Append(hash, k), << >>, IF p[1] = 6 THEN b.from ELSE NotSet) :
     p \in Pieces(from, through)}

GetReadEntriesForMetricLabelValue(from, through, metric, k, x) ==
  {LET b == p[2]
       hash == Append(b.bucket, metric)
   IN CASE p[1] \in {1, 2} -> Read(b, hash, <<Text(k), Text(x)>>, NotSet)
        [] p[1] = 3 -> Read(b, hash, <<Text(k), Base64(x)>>, NotSet)
        [] p[1] = 4 -> Read(b, Append(hash, k), <<Empty, Base64(x)>>, NotSet)
        [] p[1] = 5 -> Read(b, Append(hash, k), << >>, NotSet)
        [] p[1] = 6 -> Read(b, Append(hash, k), << >>, b.from) :
     p \in Pieces(from, through)}

(* What DynamoDB returns for a read entry.                                 *)
Matches(row, e) ==
  /\ row.table = e.table /\ row.hash = e.hash
  /\ SubSeq(row.range, 1, Len(e.prefix)) = e.prefix
  /\ e.start # NotSet => row.range[1].time >= e.start

(* The chunk and the label value of a row. *)
parseRangeValue(row) ==
  [id |-> row.range[3].chunk,
   value |-> CASE Len(row.range) = 3 -> row.range[2].text
               [] Len(row.range) = 4 /\ row.range[4].version \in {1, 4} -> row.range[2].base64
               [] Len(row.range) = 4 /\ row.range[4].version \in {2, 3} -> ""
               [] Len(row.range) = 4 /\ row.range[4].version = 5 -> row.value]
====
