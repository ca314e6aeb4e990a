----------------------------- MODULE StartupProofs -----------------------------
(* The seed is a prefix of its tables, for any number of instances and faults *)
EXTENDS Startup, TLAPS

\* What an instance has behind it: a table it counts, fills or approves comes
\* after tables that were filled, and one that waits for Redis or serves left
\* no table out.  Rows never become "empty" again.
SeedInv ==
  /\ \A m, n \in DOMAIN Table : m < n /\ rows[n] # "empty" => rows[m] # "empty"
  /\ \A i \in Instance, m \in DOMAIN Table :
       /\ pc[i].phase \in {"count", "insert", "approve"} /\ m < pc[i].table => rows[m] # "empty"
       /\ pc[i].phase = "approve" => rows[pc[i].table] # "empty"
       /\ pc[i].phase \in {"redis", "serving"} => rows[m] # "empty"

\* The tables are numbered one to five.
LEMMA Tables == DOMAIN Table = 1..5
BY DEF Table

\* A table that is filled lets its instance go on to the next.
LEMMA NextTable ==
  ASSUME TypeOK, SeedInv, NEW i \in Instance, rows' \in [DOMAIN Table -> TableState],
         \A m \in DOMAIN Table : m <= pc[i].table => rows'[m] # "empty",
         \A m \in DOMAIN Table : rows[m] # "empty" => rows'[m] # "empty",
         \A m, n \in DOMAIN Table : m < n /\ rows'[n] # "empty" => rows'[m] # "empty",
         AfterTable(i, pc[i].table)
  PROVE  SeedInv'
<1>1. pc[i].table \in 1..5
  BY Tables DEF TypeOK
<1>2. CASE pc[i].table + 1 \in DOMAIN Table
  <2>1. pc' = [pc EXCEPT ![i] = [phase |-> "count", table |-> pc[i].table + 1]]
    BY <1>2 DEF AfterTable, Goto
  <2>2. \A m \in DOMAIN Table : m < pc[i].table + 1 => m <= pc[i].table
    BY <1>1, Tables
  <2> QED
    BY <2>1, <2>2 DEF SeedInv, TypeOK
<1>3. CASE pc[i].table + 1 \notin DOMAIN Table
  <2>1. pc' = [pc EXCEPT ![i] = [phase |-> "redis", table |-> 1]]
    BY <1>3 DEF AfterTable, Goto
  <2>2. pc[i].table = 5
    BY <1>1, <1>3, Tables
  <2>3. \A m \in DOMAIN Table : rows'[m] # "empty"
    BY <2>2, Tables
  <2> QED
    BY <2>1, <2>3 DEF SeedInv, TypeOK
<1> QED
  BY <1>2, <1>3

\* StartupTypeCorrect: the tables and the instances keep their types.
THEOREM StartupTypeCorrect == Spec => []TypeOK
<1>1. Init => TypeOK
  <2> SUFFICES ASSUME Init PROVE TypeOK
    OBVIOUS
  <2>1. 1 \in DOMAIN Table
    BY Tables
  <2>2. [phase |-> "down", table |-> 1] \in [phase: Phase, table: DOMAIN Table]
    BY <2>1 DEF Phase
  <2>3. rows \in [DOMAIN Table -> TableState]
    BY DEF Init, TableState
  <2>4. pc \in [Instance -> [phase: Phase, table: DOMAIN Table]]
    BY <2>2 DEF Init
  <2>5. approvals \in BOOLEAN
    BY DEF Init
  <2>6. faults \in 0..MaxFaults
    BY StartupConstants DEF Init
  <2> QED
    BY <2>3, <2>4, <2>5, <2>6 DEF TypeOK
<1>2. TypeOK /\ [Next]_vars => TypeOK'
  <2> SUFFICES ASSUME TypeOK, [Next]_vars PROVE TypeOK'
    OBVIOUS
  <2> USE Tables, StartupConstants DEF TypeOK, Phase, Goto
  <2>1. ASSUME NEW i \in Instance, Proceed(i) \/ Fail(i)
        PROVE  TypeOK'
    <3>1. pc[i].table \in 1..5
      OBVIOUS
    <3>2. ASSUME AfterTable(i, pc[i].table)
          PROVE  pc' \in [Instance -> [phase: Phase, table: DOMAIN Table]]
      BY <3>1, <3>2 DEF AfterTable
    <3>3. CASE Start(i) \/ Connect(i) \/ InsertRefused(i) \/ ConnectRedis(i)
      BY <3>3 DEF Start, Connect, InsertRefused, ConnectRedis, Exit
    <3>4. CASE Count(i)
      BY <3>1, <3>2, <3>4 DEF Count
    <3>5. CASE InsertSeed(i)
      <4>1. rows' \in [DOMAIN Table -> TableState]
        BY <3>5 DEF InsertSeed, TableState
      <4>2. pc' \in [Instance -> [phase: Phase, table: DOMAIN Table]]
        BY <3>1, <3>2, <3>5 DEF InsertSeed, AfterInsert
      <4> QED
        BY <3>5, <4>1, <4>2 DEF InsertSeed
    <3>6. CASE InsertApprovals(i)
      BY <3>2, <3>6 DEF InsertApprovals
    <3>7. CASE Fail(i)
      BY <3>7 DEF Fail, Exit
    <3> QED
      BY <2>1, <3>3, <3>4, <3>5, <3>6, <3>7 DEF Proceed
  <2>2. ASSUME NEW n \in DOMAIN Table, DeleteAll(n) \/ CreateOne(n)
        PROVE  TypeOK'
    BY <2>2 DEF DeleteAll, CreateOne, TableState
  <2>3. CASE UNCHANGED vars
    BY <2>3 DEF vars
  <2> QED
    BY <2>1, <2>2, <2>3 DEF Next
<1> QED
  BY <1>1, <1>2, PTL DEF Spec

\* What an instance has behind it stays filled.
LEMMA SeedKept == Spec => []SeedInv
<1>1. Init => SeedInv
  BY DEF Init, SeedInv
<1>2. TypeOK /\ TypeOK' /\ SeedInv /\ [Next]_vars => SeedInv'
  <2> SUFFICES ASSUME TypeOK, TypeOK', SeedInv, [Next]_vars PROVE SeedInv'
    OBVIOUS
  <2>1. ASSUME NEW i \in Instance, Start(i) \/ Connect(i) \/ InsertRefused(i) \/ Fail(i)
        PROVE  SeedInv'
    <3>1. /\ rows' = rows
          /\ \/ pc' = [pc EXCEPT ![i] = [phase |-> "connect", table |-> 1]]
             \/ pc' = [pc EXCEPT ![i] = [phase |-> "down", table |-> 1]]
             \/ pc' = [pc EXCEPT ![i] = [phase |-> "count", table |-> 1]]
      BY <2>1 DEF Start, Connect, InsertRefused, Fail, Exit, Goto
    <3>2. \A m \in DOMAIN Table : ~(m < 1)
      BY Tables
    <3> QED
      BY <3>1, <3>2 DEF SeedInv, TypeOK
  <2>2. ASSUME NEW i \in Instance, Count(i)
        PROVE  SeedInv'
    <3>1. rows' = rows /\ pc[i].phase = "count" /\ pc[i].table \in 1..5
      BY <2>2, Tables DEF Count, At, TypeOK
    <3>2. CASE Seeded(pc[i].table)
      <4>1. \A m \in DOMAIN Table : m <= pc[i].table => m < pc[i].table \/ m = pc[i].table
        BY <3>1, Tables
      <4>2. \A m \in DOMAIN Table : m <= pc[i].table => rows'[m] # "empty"
        BY <3>1, <3>2, <4>1 DEF Seeded, SeedInv
      <4>3. AfterTable(i, pc[i].table)
        BY <2>2, <3>2 DEF Count
      <4>4. rows' \in [DOMAIN Table -> TableState]
        BY DEF TypeOK
      <4> QED
        BY <3>1, <4>2, <4>3, <4>4, NextTable DEF SeedInv
    <3>3. CASE ~Seeded(pc[i].table)
      <4>1. pc' = [pc EXCEPT ![i] = [phase |-> "insert", table |-> pc[i].table]]
        BY <2>2, <3>3 DEF Count, Goto
      <4> QED
        BY <3>1, <4>1 DEF SeedInv, TypeOK
    <3> QED
      BY <3>2, <3>3
  <2>3. ASSUME NEW i \in Instance, InsertSeed(i)
        PROVE  SeedInv'
    <3> DEFINE n == pc[i].table
    <3>1. /\ pc[i].phase = "insert" /\ n \in 1..5 /\ rows[n] = "empty"
          /\ rows' = [rows EXCEPT ![n] = "live"] /\ rows' \in [DOMAIN Table -> TableState]
      BY <2>3, Tables DEF InsertSeed, At, TypeOK
    <3>2. \A m \in DOMAIN Table : rows'[m] = IF m = n THEN "live" ELSE rows[m]
      BY <3>1 DEF TypeOK
    <3>3. \A m \in DOMAIN Table : m <= n => rows'[m] # "empty"
      <4>1. \A m \in DOMAIN Table : m <= n => m < n \/ m = n
        BY <3>1, Tables
      <4> QED
        BY <3>1, <3>2, <4>1 DEF SeedInv
    <3>4. \A m \in DOMAIN Table : rows[m] # "empty" => rows'[m] # "empty"
      BY <3>2
    <3>5. \A m, k \in DOMAIN Table : m < k /\ rows'[k] # "empty" => rows'[m] # "empty"
      <4> SUFFICES ASSUME NEW m \in DOMAIN Table, NEW k \in DOMAIN Table,
                          m < k, rows'[k] # "empty"
                   PROVE  rows'[m] # "empty"
        OBVIOUS
      <4>1. CASE k = n
        <5>1. m <= n
          BY <3>1, <4>1, Tables
        <5> QED
          BY <3>3, <5>1
      <4>2. CASE k # n
        BY <3>2, <3>4, <4>2 DEF SeedInv
      <4> QED
        BY <4>1, <4>2
    <3>6. CASE Table[n] = "directives"
      <4>1. pc' = [pc EXCEPT ![i] = [phase |-> "approve", table |-> n]]
        BY <2>3, <3>6 DEF InsertSeed, AfterInsert, Goto
      <4>2. n \in DOMAIN Table /\ \A m \in DOMAIN Table : m < n => m <= n
        BY <3>1, Tables
      <4>3. /\ \A m \in DOMAIN Table : m < n => rows'[m] # "empty"
            /\ rows'[n] # "empty"
        BY <3>2, <3>3, <4>2
      <4> HIDE DEF n
      <4>4. pc'[i] = [phase |-> "approve", table |-> n] /\ \A j \in Instance \ {i} : pc'[j] = pc[j]
        BY <4>1 DEF TypeOK
      <4>5. \A j \in Instance : pc[j].table \in DOMAIN Table
        BY DEF TypeOK
      <4> QED
        BY <3>4, <3>5, <4>3, <4>4, <4>5 DEF SeedInv
    <3>7. CASE Table[n] # "directives"
      <4>1. AfterTable(i, n)
        BY <2>3, <3>7 DEF InsertSeed, AfterInsert
      <4> QED
        BY <3>1, <3>3, <3>4, <3>5, <4>1, NextTable
    <3> QED
      BY <3>6, <3>7
  <2>4. ASSUME NEW i \in Instance, InsertApprovals(i)
        PROVE  SeedInv'
    <3>1. rows' = rows /\ pc[i].phase = "approve" /\ pc[i].table \in DOMAIN Table
          /\ AfterTable(i, pc[i].table) /\ rows' \in [DOMAIN Table -> TableState]
      BY <2>4 DEF InsertApprovals, At, TypeOK
    <3>2. \A m \in DOMAIN Table : m <= pc[i].table => m < pc[i].table \/ m = pc[i].table
      BY <3>1, Tables
    <3>3. \A m \in DOMAIN Table : m <= pc[i].table => rows'[m] # "empty"
      BY <3>1, <3>2 DEF SeedInv
    <3> QED
      BY <3>1, <3>3, NextTable DEF SeedInv
  <2>5. ASSUME NEW i \in Instance, ConnectRedis(i)
        PROVE  SeedInv'
    BY <2>5 DEF ConnectRedis, At, Goto, SeedInv, TypeOK
  <2>6. ASSUME NEW n \in DOMAIN Table, DeleteAll(n) \/ CreateOne(n)
        PROVE  SeedInv'
    <3>1. /\ pc' = pc /\ rows[n] # "empty"
          /\ \A m \in DOMAIN Table : rows'[m] = "empty" <=> rows[m] = "empty"
      BY <2>6 DEF DeleteAll, CreateOne, TypeOK
    <3>2. \A j \in Instance : pc[j].table \in DOMAIN Table
      BY DEF TypeOK
    <3> QED
      BY <3>1, <3>2 DEF SeedInv
  <2>7. CASE UNCHANGED vars
    BY <2>7 DEF vars, SeedInv
  <2> QED
    BY <2>1, <2>2, <2>3, <2>4, <2>5, <2>6, <2>7 DEF Next, Proceed
<1> QED
  BY <1>1, <1>2, StartupTypeCorrect, PTL DEF Spec

\* SeedOrdered: however many instances start, crash and overlap, no example row
\* is there before those it refers to, and none serves over an unseeded table.
THEOREM SeedOrdered == Spec => []SeedIsPrefix
<1>1. SeedInv => SeedIsPrefix
  BY DEF SeedInv, SeedIsPrefix, At
<1> QED
  BY <1>1, SeedKept, PTL

-----------------------------------------------------------------------------
\* Only the directives, the fourth table, are followed by approvals.
ApprovingDirectives == \A i \in Instance : At(i, "approve") => pc[i].table = 4

\* The fourth table is the directives'.
LEMMA DirectivesFourth ==
  /\ 4 \in DOMAIN Table
  /\ \A n \in DOMAIN Table : Table[n] = "directives" <=> n = 4
BY DEF Table

\* After a table the instance counts the next one or waits for Redis.
LEMMA AfterTableApproves ==
  ASSUME TypeOK, NEW i \in Instance, AfterTable(i, pc[i].table)
  PROVE  pc'[i].phase # "approve" /\ \A j \in Instance \ {i} : pc'[j] = pc[j]
BY DEF AfterTable, Goto, TypeOK

\* EvidenceApproved: as long as nothing failed, the approvals of the seed come
\* with its directives or are being written, whatever instances overlap.
THEOREM EvidenceApproved == Spec => []EvidenceComes
<1> DEFINE Inv == EvidenceComes /\ ApprovingDirectives
<1>1. Init => Inv
  BY DirectivesFourth DEF Init, EvidenceComes, ApprovingDirectives, At
<1>2. TypeOK /\ TypeOK' /\ SeedInv /\ Inv /\ [Next]_vars => Inv'
  <2> SUFFICES ASSUME TypeOK, TypeOK', SeedInv, Inv, [Next]_vars PROVE Inv'
    OBVIOUS
  <2> USE DirectivesFourth DEF EvidenceComes, ApprovingDirectives, At
  <2>1. ASSUME NEW i \in Instance, Start(i) \/ Connect(i) \/ InsertRefused(i) \/ ConnectRedis(i)
        PROVE  Inv'
    <3>1. /\ UNCHANGED <<rows, approvals, faults>>
          /\ pc[i].phase # "approve" /\ pc'[i].phase # "approve"
          /\ \A j \in Instance \ {i} : pc'[j] = pc[j]
      BY <2>1 DEF Start, Connect, InsertRefused, ConnectRedis, Exit, Goto, TypeOK
    <3> QED
      BY <3>1
  <2>2. ASSUME NEW i \in Instance, Fail(i)
        PROVE  Inv'
    <3>1. /\ UNCHANGED <<rows, approvals>> /\ faults' # 0
          /\ pc'[i].phase # "approve" /\ \A j \in Instance \ {i} : pc'[j] = pc[j]
      BY <2>2 DEF Fail, Exit, Goto, TypeOK
    <3> QED
      BY <3>1
  <2>3. ASSUME NEW i \in Instance, Count(i)
        PROVE  Inv'
    <3>1. /\ UNCHANGED <<rows, approvals, faults>>
          /\ pc[i].phase # "approve" /\ pc'[i].phase # "approve"
          /\ \A j \in Instance \ {i} : pc'[j] = pc[j]
      BY <2>3, AfterTableApproves DEF Count, Goto, TypeOK
    <3> QED
      BY <3>1
  <2>4. ASSUME NEW i \in Instance, InsertSeed(i)
        PROVE  Inv'
    <3> DEFINE n == pc[i].table
    <3>1. /\ n \in DOMAIN Table /\ rows[n] = "empty"
          /\ rows' = [rows EXCEPT ![n] = "live"]
          /\ UNCHANGED <<approvals, faults>> /\ pc[i].phase # "approve"
      BY <2>4 DEF InsertSeed, TypeOK
    <3>2. CASE n = 4
      <4>1. pc' = [pc EXCEPT ![i] = [phase |-> "approve", table |-> 4]]
        BY <2>4, <3>2, <3>1 DEF InsertSeed, AfterInsert, Goto
      <4> QED
        BY <3>1, <3>2, <4>1 DEF TypeOK
    <3>3. CASE n # 4
      <4>1. pc'[i].phase # "approve" /\ \A j \in Instance \ {i} : pc'[j] = pc[j]
        BY <2>4, <3>3, <3>1, AfterTableApproves DEF InsertSeed, AfterInsert
      <4>2. rows'[4] = rows[4]
        BY <3>1, <3>3 DEF TypeOK
      <4> QED
        BY <3>1, <4>1, <4>2
    <3> QED
      BY <3>2, <3>3
  <2>5. ASSUME NEW i \in Instance, InsertApprovals(i)
        PROVE  Inv'
    <3>1. /\ approvals' = TRUE /\ UNCHANGED <<rows, faults>>
          /\ pc'[i].phase # "approve" /\ \A j \in Instance \ {i} : pc'[j] = pc[j]
      BY <2>5, AfterTableApproves DEF InsertApprovals
    <3>2. rows[4] # "empty"
      BY <2>5 DEF InsertApprovals, SeedInv
    <3> QED
      BY <3>1, <3>2
  <2>6. ASSUME NEW n \in DOMAIN Table, DeleteAll(n) \/ CreateOne(n)
        PROVE  Inv'
    BY <2>6 DEF DeleteAll, CreateOne, TypeOK
  <2>7. CASE UNCHANGED vars
    BY <2>7 DEF vars
  <2> QED
    BY <2>1, <2>2, <2>3, <2>4, <2>5, <2>6, <2>7 DEF Next, Proceed
<1>3. Inv => EvidenceComes
  OBVIOUS
<1> QED
  BY <1>1, <1>2, <1>3, StartupTypeCorrect, SeedKept, PTL DEF Spec

-----------------------------------------------------------------------------
\* An instance at the seed's frontier, where table n is the first empty one.
AtWork(i, n) == pc[i] \in {[phase |-> "count", table |-> n], [phase |-> "insert", table |-> n],
                           [phase |-> "approve", table |-> n - 1]}

Frontier(n) == n > 1 /\ rows[n] = "empty" /\ rows[n - 1] # "empty"

\* SeedContinued: as long as nothing failed, an instance is at work where the seed
\* ends, however many race for it.
THEOREM SeedContinued == Spec => []SeedGoesOn
<1>1. Init => SeedGoesOn
  BY Tables DEF Init, SeedGoesOn
<1>2. TypeOK /\ TypeOK' /\ SeedInv /\ SeedInv' /\ SeedGoesOn /\ [Next]_vars => SeedGoesOn'
  <2> SUFFICES ASSUME TypeOK, TypeOK', SeedInv, SeedInv', SeedGoesOn, [Next]_vars,
                      faults' = 0, NEW n \in DOMAIN Table, Frontier(n)'
               PROVE  \E j \in Instance : AtWork(j, n)'
    BY DEF SeedGoesOn, Frontier, AtWork
  <2>0. n \in 2..5 /\ n - 1 \in DOMAIN Table
    BY Tables DEF Frontier
  <2>1. ASSUME rows' = rows, faults = 0
        PROVE  \E j \in Instance : AtWork(j, n)
    BY <2>1 DEF SeedGoesOn, Frontier, AtWork
  <2>2. ASSUME NEW i \in Instance, Start(i) \/ Connect(i) \/ InsertRefused(i) \/ ConnectRedis(i)
        PROVE  \E j \in Instance : AtWork(j, n)'
    <3>1. rows' = rows /\ faults' = faults /\ \A j \in Instance \ {i} : pc'[j] = pc[j]
      BY <2>2 DEF Start, Connect, InsertRefused, ConnectRedis, Exit, Goto, TypeOK
    <3>2. rows[n] = "empty"
      BY <3>1 DEF Frontier
    <3>3. ~AtWork(i, n)
      BY <2>2, <3>2 DEF Start, Connect, InsertRefused, ConnectRedis, At, AtWork
    <3> QED
      BY <2>1, <3>1, <3>3 DEF AtWork
  <2>3. ASSUME NEW i \in Instance, Count(i)
        PROVE  \E j \in Instance : AtWork(j, n)'
    <3>1. rows' = rows /\ faults' = faults /\ \A j \in Instance \ {i} : pc'[j] = pc[j]
      BY <2>3 DEF Count, AfterTable, Goto, TypeOK
    <3>2. PICK j \in Instance : AtWork(j, n)
      BY <2>1, <3>1
    <3>3. CASE j = i
      <4>1. pc[i] = [phase |-> "count", table |-> n]
        BY <2>3, <3>2, <3>3 DEF AtWork, Count, At
      <4>2. ~Seeded(n)
        BY <3>1 DEF Seeded, Frontier
      <4>3. pc' = [pc EXCEPT ![i] = [phase |-> "insert", table |-> n]]
        BY <2>3, <4>1, <4>2 DEF Count, Goto
      <4>4. pc'[i] = [phase |-> "insert", table |-> n]
        BY <4>3 DEF TypeOK
      <4> QED
        BY <4>4 DEF AtWork
    <3>4. CASE j # i
      BY <3>1, <3>2, <3>4 DEF AtWork
    <3> QED
      BY <3>3, <3>4
  <2>4. ASSUME NEW i \in Instance, InsertSeed(i)
        PROVE  \E j \in Instance : AtWork(j, n)'
    <3> DEFINE m == pc[i].table
    <3>1. /\ m \in DOMAIN Table /\ rows[m] = "empty" /\ rows' = [rows EXCEPT ![m] = "live"]
          /\ m \in 1..5
      BY <2>4, Tables DEF InsertSeed, TypeOK
    <3>2. m < n
      <4>1. rows'[m] # "empty" /\ rows'[n] = "empty"
        BY <3>1 DEF Frontier, TypeOK
      <4>2. ~(n < m) /\ n # m
        BY <3>1, <4>1 DEF SeedInv
      <4> QED
        BY <2>0, <3>1, <4>2
    <3>3. m = n - 1
      <4>1. CASE m < n - 1
        <5>1. rows'[n - 1] = rows[n - 1]
          BY <2>0, <3>1, <4>1 DEF TypeOK
        <5>2. rows[n - 1] # "empty"
          BY <5>1 DEF Frontier
        <5> QED
          BY <2>0, <3>1, <4>1, <5>2 DEF SeedInv
      <4>2. CASE ~(m < n - 1)
        BY <2>0, <3>1, <3>2, <4>2
      <4> QED
        BY <4>1, <4>2
    <3>4. m + 1 = n
      BY <2>0, <3>1, <3>3
    <3>5. CASE Table[m] = "directives"
      <4>1. pc' = [pc EXCEPT ![i] = [phase |-> "approve", table |-> m]]
        BY <2>4, <3>5 DEF InsertSeed, AfterInsert, Goto
      <4> HIDE DEF m
      <4>2. pc'[i] = [phase |-> "approve", table |-> m]
        BY <4>1 DEF TypeOK
      <4> QED
        BY <3>3, <4>2 DEF AtWork
    <3>6. CASE Table[m] # "directives"
      <4>1. AfterTable(i, m)
        BY <2>4, <3>6 DEF InsertSeed, AfterInsert
      <4>2. pc'[i] = [phase |-> "count", table |-> n]
        BY <3>4, <4>1 DEF AfterTable, Goto, TypeOK
      <4> QED
        BY <4>2 DEF AtWork
    <3> QED
      BY <3>5, <3>6
  <2>5. ASSUME NEW i \in Instance, InsertApprovals(i)
        PROVE  \E j \in Instance : AtWork(j, n)'
    <3>1. /\ rows' = rows /\ faults' = faults /\ pc[i].phase = "approve"
          /\ AfterTable(i, pc[i].table) /\ \A j \in Instance \ {i} : pc'[j] = pc[j]
      BY <2>5 DEF InsertApprovals, At, AfterTable, Goto, TypeOK
    <3>2. PICK j \in Instance : AtWork(j, n)
      BY <2>1, <3>1
    <3>3. CASE j = i
      <4>1. pc[i].table + 1 = n
        BY <2>0, <3>1, <3>2, <3>3 DEF AtWork
      <4>2. pc'[i] = [phase |-> "count", table |-> n]
        BY <3>1, <4>1 DEF AfterTable, Goto, TypeOK
      <4> QED
        BY <4>2 DEF AtWork
    <3>4. CASE j # i
      BY <3>1, <3>2, <3>4 DEF AtWork
    <3> QED
      BY <3>3, <3>4
  <2>6. ASSUME NEW i \in Instance, Fail(i)
        PROVE  FALSE
    BY <2>6, StartupConstants DEF Fail, TypeOK
  <2>7. ASSUME NEW k \in DOMAIN Table, DeleteAll(k) \/ CreateOne(k)
        PROVE  \E j \in Instance : AtWork(j, n)'
    <3>1. /\ pc' = pc /\ faults' = faults
          /\ \A m \in DOMAIN Table : rows'[m] = "empty" <=> rows[m] = "empty"
      BY <2>7 DEF DeleteAll, CreateOne, TypeOK
    <3>2. Frontier(n)
      BY <2>0, <3>1 DEF Frontier
    <3> QED
      BY <3>1, <3>2 DEF SeedGoesOn, Frontier, AtWork
  <2>8. CASE UNCHANGED vars
    <3>1. rows' = rows /\ faults' = faults /\ pc' = pc
      BY <2>8 DEF vars
    <3> QED
      BY <2>1, <3>1 DEF AtWork
  <2> QED
    BY <2>2, <2>3, <2>4, <2>5, <2>6, <2>7, <2>8 DEF Next, Proceed
<1> QED
  BY <1>1, <1>2, StartupTypeCorrect, SeedKept, PTL DEF Spec
=============================================================================
