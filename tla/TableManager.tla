---------------------------- MODULE TableManager ----------------------------
(***************************************************************************)
(* The table manager (src/chunk/table_manager.go): it creates the periodic *)
(* tables of the index ahead of time, and gives write throughput to those  *)
(* that chunks may still be written to.                                    *)
(*                                                                         *)
(* A sync reads the clock once and works through the tables one request at *)
(* a time; meanwhile time passes and DynamoDB finishes what it was asked.  *)
(* Tables are taken in any order (the code sorts them by name, which is    *)
(* not their age). A throughput is "active" or "inactive".                 *)
(***************************************************************************)
EXTENDS Schema

CONSTANTS
  CreationGracePeriod,
  MaxChunkAge,
  MaxTime,        \* bound on the clock
  MaxFailures     \* bound on failed requests and restarts

ASSUME TableAssumption ==
  /\ CreationGracePeriod \in Nat /\ MaxChunkAge \in Nat
  /\ MaxTime \in Nat /\ MaxFailures \in Nat

VARIABLES
  now,
  tables,    \* table -> [status, capacity], for the tables DynamoDB has
  sync,      \* the sync that runs: [pc, age, expected, toCreate, toCheck]
  age,       \* the age of what the last complete sync knew of the time
  ticked,    \* the clock has gone on since the first complete sync
  failures

tableVars == <<now, tables, sync, age, ticked, failures>>

NoSync == [pc |-> "idle", age |-> 0, expected |-> << >>, toCreate |-> {}, toCheck |-> {}]

TableInit ==
  /\ now \in 0..MaxTime
  /\ tables = << >>
  /\ sync = NoSync
  /\ age = CreationGracePeriod   \* too old for the clock to go on
  /\ ticked = FALSE
  /\ failures = 0

Active(b) == IF b THEN "active" ELSE "inactive"

(* Mutant: the tables of the period now.                                   *)
calculateExpectedTablesMutant ==
  [i \in {LegacyTable} \cup ((PeriodicTableStartAt \div TablePeriod)..(now \div TablePeriod)) |-> "active"]

(* table -> the throughput it should have, as of now.                      *)
calculateExpectedTables ==
  LET firstTable == PeriodicTableStartAt \div TablePeriod
      lastTable == (now + CreationGracePeriod) \div TablePeriod
      stillWritten == CreationGracePeriod + MaxChunkAge
  IN IF ~UsePeriodicTables THEN [i \in {LegacyTable} |-> "active"]
     ELSE [i \in {LegacyTable} \cup (firstTable..lastTable) |->
             IF i = LegacyTable THEN Active(now < firstTable * TablePeriod + stillWritten)
             ELSE Active(/\ i * TablePeriod - CreationGracePeriod <= now
                         /\ now < i * TablePeriod + TablePeriod + stillWritten)]

Fails == failures < MaxFailures /\ failures' = failures + 1

(* What is expected against what DynamoDB lists.                           *)
partitionTables(expected) ==
  [pc |-> "busy", age |-> 0, expected |-> expected,
   toCreate |-> DOMAIN expected \ DOMAIN tables, toCheck |-> DOMAIN expected \cap DOMAIN tables]

(* The beginning of syncTables. Listing may fail.                          *)
syncTables ==
  /\ sync.pc = "idle"
  /\ \/ sync' = partitionTables(calculateExpectedTables) /\ UNCHANGED failures
     \/ Fails /\ UNCHANGED sync
  /\ UNCHANGED <<now, tables, age, ticked>>

(* A request of createTables; an error ends the sync. *)
createTables(i) ==
  /\ sync.pc = "busy" /\ i \in sync.toCreate
  /\ \/ /\ tables' = [j \in DOMAIN tables \cup {i} |->
                        IF j = i THEN [status |-> "CREATING", capacity |-> sync.expected[i]] ELSE tables[j]]
        /\ sync' = [sync EXCEPT !.toCreate = @ \ {i}]
        /\ UNCHANGED failures
     \/ Fails /\ sync' = NoSync /\ UNCHANGED tables
  /\ UNCHANGED <<now, age, ticked>>

(* Mutant: tables that exist are left as they are.                         *)
updateTablesMutant(i) ==
  /\ sync.pc = "busy" /\ sync.toCreate = {} /\ i \in sync.toCheck
  /\ sync' = [sync EXCEPT !.toCheck = @ \ {i}]
  /\ UNCHANGED <<now, tables, age, ticked, failures>>

(* A turn of updateTables: tables that DynamoDB is at work on are skipped. *)
updateTables(i) ==
  /\ sync.pc = "busy" /\ sync.toCreate = {} /\ i \in sync.toCheck
  /\ \/ /\ tables' = IF tables[i].status # "ACTIVE" \/ tables[i].capacity = sync.expected[i] THEN tables
                     ELSE [tables EXCEPT ![i] = [status |-> "UPDATING", capacity |-> sync.expected[i]]]
        /\ sync' = [sync EXCEPT !.toCheck = @ \ {i}]
        /\ UNCHANGED failures
     \/ Fails /\ sync' = NoSync /\ UNCHANGED tables
  /\ UNCHANGED <<now, age, ticked>>

syncDone ==
  /\ sync.pc = "busy" /\ sync.toCreate = {} /\ sync.toCheck = {}
  /\ sync' = NoSync
  /\ age' = sync.age
  /\ UNCHANGED <<now, tables, ticked, failures>>

(* The manager is stopped and started again. *)
Restart ==
  /\ sync.pc = "busy" /\ Fails
  /\ sync' = NoSync
  /\ UNCHANGED <<now, tables, age, ticked>>

(* DynamoDB has made or changed a table.                                   *)
TableActive(i) ==
  /\ tables[i].status # "ACTIVE"
  /\ tables' = [tables EXCEPT ![i].status = "ACTIVE"]
  /\ UNCHANGED <<now, sync, age, ticked, failures>>

(* A tick of the clock. Syncs succeed often enough that the last one is    *)
(* not older than the grace period, and within a tick DynamoDB has made    *)
(* the tables it was asked for.                                            *)
TableTick ==
  /\ now < MaxTime
  /\ age < CreationGracePeriod
  /\ \A i \in DOMAIN tables : tables[i].status # "CREATING"
  /\ now' = now + 1
  /\ age' = age + 1 /\ ticked' = TRUE
  /\ sync' = IF sync.pc = "busy" THEN [sync EXCEPT !.age = @ + 1] ELSE sync
  /\ UNCHANGED <<tables, failures>>
====
