------------------------------- MODULE Startup -------------------------------
(* database/database.go: an instance of the server waits for the database,   *)
(* fills the tables that have no rows, waits for Redis and serves.  Each     *)
(* statement of the seed is a transaction of its own; an instance that fails *)
(* exits and is started again.                                               *)
EXTENDS Naturals

CONSTANTS Instance,          \* server processes over one database
          Deletable,         \* tables whose rows are all deleted and refilled
          MaxFaults          \* bound on crashes and refused connections

\* The tables in the order in which they are seeded.
Table == <<"users", "reservoirs", "gates", "directives", "receipts">>

ASSUME StartupConstants ==
  /\ MaxFaults \in Nat
  /\ Deletable \subseteq {"reservoirs", "gates", "receipts"}

VARIABLES rows,              \* what each table holds
          approvals,         \* the approval rows of the seed are written
          pc,                \* where each instance is
          faults             \* crashes and refused connections so far

vars == <<rows, approvals, pc, faults>>

\* "hidden": every row is soft-deleted.  A query does not see such rows, the
\* unique index on the codes does.
TableState == {"empty", "live", "hidden"}

Phase == {"down", "connect", "count", "insert", "approve", "redis", "serving"}

TypeOK ==
  /\ rows \in [DOMAIN Table -> TableState]
  /\ approvals \in BOOLEAN
  /\ pc \in [Instance -> [phase: Phase, table: DOMAIN Table]]
  /\ faults \in 0..MaxFaults

At(i, phase) == pc[i].phase = phase

Goto(i, phase, n) == pc' = [pc EXCEPT ![i] = [phase |-> phase, table |-> n]]

\* Mutant of AfterTable: no table is the last.
AfterTableForEver(i, n) == Goto(i, "count", n + 1)

\* The rest of Seed after table n.
AfterTable(i, n) ==
  IF n + 1 \in DOMAIN Table THEN Goto(i, "count", n + 1) ELSE Goto(i, "redis", 1)

Exit(i) == Goto(i, "down", 1)

Init ==
  /\ rows = [n \in DOMAIN Table |-> "empty"]
  /\ approvals = FALSE
  /\ pc = [i \in Instance |-> [phase |-> "down", table |-> 1]]
  /\ faults = 0

-----------------------------------------------------------------------------
\* restart: unless-stopped
Start(i) ==
  /\ At(i, "down")
  /\ Goto(i, "connect", 1)
  /\ UNCHANGED <<rows, approvals, faults>>

\* Open and ping within twenty attempts, then migrate.
Connect(i) ==
  /\ At(i, "connect")
  /\ Goto(i, "count", 1)
  /\ UNCHANGED <<rows, approvals, faults>>

\* Mutants of Seeded: the count of the table before; no count at all.
SeededBefore(n) == rows[IF n = 1 THEN 1 ELSE n - 1] = "live"

SeededNever(n) == FALSE

\* COUNT(*) of table n sees a row.
Seeded(n) == rows[n] = "live"

Count(i) ==
  LET n == pc[i].table IN
  /\ At(i, "count")
  /\ IF Seeded(n) THEN AfterTable(i, n) ELSE Goto(i, "insert", n)
  /\ UNCHANGED <<rows, approvals, faults>>

\* Mutant of AfterInsert: the approvals are forgotten.
AfterInsertUnapproved(i, n) == AfterTable(i, n)

\* The directives are followed by their approvals.
AfterInsert(i, n) ==
  IF Table[n] = "directives" THEN Goto(i, "approve", n) ELSE AfterTable(i, n)

\* One INSERT of all example rows of the table.
InsertSeed(i) ==
  LET n == pc[i].table IN
  /\ At(i, "insert") /\ rows[n] = "empty"
  /\ rows' = [rows EXCEPT ![n] = "live"]
  /\ AfterInsert(i, n)
  /\ UNCHANGED <<approvals, faults>>

\* The codes are taken, by another instance or by deleted rows.
InsertRefused(i) ==
  /\ At(i, "insert") /\ rows[pc[i].table] # "empty"
  /\ Exit(i)
  /\ UNCHANGED <<rows, approvals, faults>>

\* The INSERT of the approvals of the example directives.
InsertApprovals(i) ==
  /\ At(i, "approve")
  /\ approvals' = TRUE
  /\ AfterTable(i, pc[i].table)
  /\ UNCHANGED <<rows, faults>>

ConnectRedis(i) ==
  /\ At(i, "redis")
  /\ Goto(i, "serving", 1)
  /\ UNCHANGED <<rows, approvals, faults>>

\* A crash, a signal, a database or a Redis that does not answer.
Fail(i) ==
  /\ ~At(i, "down") /\ faults < MaxFaults
  /\ faults' = faults + 1
  /\ Exit(i)
  /\ UNCHANGED <<rows, approvals>>

-----------------------------------------------------------------------------
\* The requests of users, as far as the seed can tell them apart.
DeleteAll(n) ==
  /\ Table[n] \in Deletable /\ rows[n] = "live"
  /\ \E i \in Instance : At(i, "serving")
  /\ rows' = [rows EXCEPT ![n] = "hidden"]
  /\ UNCHANGED <<approvals, pc, faults>>

CreateOne(n) ==
  /\ rows[n] = "hidden"
  /\ \E i \in Instance : At(i, "serving")
  /\ rows' = [rows EXCEPT ![n] = "live"]
  /\ UNCHANGED <<approvals, pc, faults>>

Proceed(i) ==
  \/ Start(i) \/ Connect(i) \/ Count(i)
  \/ InsertSeed(i) \/ InsertRefused(i) \/ InsertApprovals(i)
  \/ ConnectRedis(i)

Next ==
  \/ \E i \in Instance : Proceed(i) \/ Fail(i)
  \/ \E n \in DOMAIN Table : DeleteAll(n) \/ CreateOne(n)

\* Every instance is started again and runs on; faults are finitely many.
Spec == Init /\ [][Next]_vars /\ \A i \in Instance : WF_vars(Proceed(i))

-----------------------------------------------------------------------------
\* The seed is a prefix of its tables, wherever instances crash and however
\* they overlap: no example row refers to a record that was never inserted,
\* and an instance that serves finds no table without its example rows.
SeedIsPrefix ==
  /\ \A m, n \in DOMAIN Table : m < n /\ rows[n] # "empty" => rows[m] # "empty"
  /\ \A i \in Instance : At(i, "serving") => \A n \in DOMAIN Table : rows[n] # "empty"

\* The approvals of the seed come with its directives unless an instance failed
\* or another one is still writing them.
EvidenceComes ==
  /\ approvals => rows[4] # "empty"
  /\ rows[4] # "empty" /\ faults = 0 =>
       approvals \/ \E i \in Instance : At(i, "approve")

\* The seed is not given up halfway unless an instance failed: instances race for
\* every table and lose, exit and start again, but one is always at the first
\* table that is empty, or writing the approvals before it.
SeedGoesOn ==
  faults = 0 => \A n \in DOMAIN Table : n > 1 /\ rows[n] = "empty" /\ rows[n - 1] # "empty" =>
    \E i \in Instance : pc[i] \in {[phase |-> "count", table |-> n],
                                   [phase |-> "insert", table |-> n],
                                   [phase |-> "approve", table |-> n - 1]}

\* Unless users leave a table without a live row, every instance comes to
\* serve, and again after each failure: one that lost the race for a table
\* finds it filled when it is started again.
KeepsServing ==
  <>[](\A n \in DOMAIN Table : rows[n] # "hidden") =>
    \A i \in Instance : []<>At(i, "serving")

\* restart: unless-stopped.  However the records are used, a server that exits
\* comes back.
ComesBack == \A i \in Instance : []<>At(i, "serving")
=============================================================================
