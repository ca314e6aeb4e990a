----------------------------- MODULE RateLimiter -----------------------------
(* middleware/ratelimit.go: at most Limit requests per key (client address   *)
(* and route) and minute, counted in Redis or, when Redis does not answer,   *)
(* in a table of the process.  A restarted process is a new member of        *)
(* Process; the old one is sent no more requests.                            *)
EXTENDS Naturals, FiniteSets

CONSTANTS Process,           \* instances of the server
          Shared,            \* the counter in Redis, beside those of processes
          Key,               \* client address and route
          Request,           \* the requests that arrive
          Limit,             \* requests per key and minute
          MaxTracked,        \* table size at which it is cleaned (512 in the code)
          RedisConfigured,   \* FALSE: no REDIS_ADDR, the client is nil
          LastMinute,        \* bound: the clock stops here
          MaxCount           \* bound: counts a lost reply may push a counter to

ASSUME LimiterConstants ==
  /\ Shared \notin Process
  /\ IsFiniteSet(Request)
  /\ Limit \in Nat /\ MaxTracked \in Nat /\ MaxCount \in Nat
  /\ LastMinute \in Nat \ {0}
  /\ RedisConfigured \in BOOLEAN

VARIABLES minute,            \* the wall clock, in minutes
          shared,            \* Redis: the count of each minute and key
          local,             \* the table of each process
          req                \* the requests

vars == <<minute, shared, local, req>>

Minute == 1..LastMinute

Counter == Process \cup {Shared}

\* The Go zero value of a bucket is what a missing table entry reads as.
Bucket == [window: 0..LastMinute, count: Nat]

NoBucket == [window |-> 0, count |-> 0]

RequestState == {"new", "redis", "local", "passed", "refused"}

RequestRecord ==
  [state: RequestState, proc: Process, key: Key, window: 0..LastMinute, by: Counter]

TypeOK ==
  /\ minute \in Minute
  /\ shared \in [Minute \X Key -> Nat]
  /\ local \in [Process -> [Key -> Bucket]]
  /\ req \in [Request -> RequestRecord]

Init ==
  /\ minute = 1
  /\ shared = [c \in Minute \X Key |-> 0]
  /\ local = [p \in Process |-> [k \in Key |-> NoBucket]]
  /\ req \in [Request ->
       [state: {"new"}, proc: Process, key: Key, window: {0}, by: {Shared}]]

-----------------------------------------------------------------------------
Verdict(n) == IF n > Limit THEN "refused" ELSE "passed"

\* Counter c has counted the request as number n of minute w.
Answer(r, c, w, n) ==
  req' = [req EXCEPT ![r] =
    [@ EXCEPT !.state = Verdict(n), !.window = w, !.by = c]]

\* The Redis key is put together with the minute of the clock as it is now.
Arrive(r) ==
  /\ req[r].state = "new"
  /\ req' = [req EXCEPT ![r] = [@ EXCEPT !.state = "redis", !.window = minute]]
  /\ UNCHANGED <<minute, shared, local>>

\* INCR and EXPIRE ran in one transaction and the reply arrived.
RedisCounts(r) ==
  LET c == <<req[r].window, req[r].key>> IN
  /\ req[r].state = "redis" /\ RedisConfigured
  /\ shared' = [shared EXCEPT ![c] = @ + 1]
  /\ Answer(r, Shared, req[r].window, shared[c] + 1)
  /\ UNCHANGED <<minute, local>>

\* The transaction ran and its reply was lost; the client library sends it
\* again or gives up.
LostReply(r) ==
  LET c == <<req[r].window, req[r].key>> IN
  /\ req[r].state = "redis" /\ RedisConfigured
  /\ shared[c] < MaxCount
  /\ shared' = [shared EXCEPT ![c] = @ + 1]
  /\ UNCHANGED <<minute, local, req>>

\* Redis is not configured or did not answer.
RedisFails(r) ==
  /\ req[r].state = "redis"
  /\ req' = [req EXCEPT ![r] = [@ EXCEPT !.state = "local"]]
  /\ UNCHANGED <<minute, shared, local>>

-----------------------------------------------------------------------------
Tracked(table) == {k \in DOMAIN table : table[k] # NoBucket}

DropOlder(table) ==
  [k \in DOMAIN table |-> IF table[k].window < minute THEN NoBucket ELSE table[k]]

\* Mutant of Cleaned: off by one, a table of MaxTracked keys is not cleaned.
CleanedLate(table) ==
  IF Cardinality(Tracked(table)) <= MaxTracked THEN table ELSE DropOlder(table)

\* Mutant of Cleaned: a full table is emptied.
CleanedAll(table) ==
  IF Cardinality(Tracked(table)) < MaxTracked
  THEN table ELSE [k \in DOMAIN table |-> NoBucket]

\* cleanupLocal: a table that is full loses the buckets of earlier minutes.
Cleaned(table) ==
  IF Cardinality(Tracked(table)) < MaxTracked THEN table ELSE DropOlder(table)

\* Mutant of Counted: a bucket of an earlier minute is counted on.
CountedOn(bucket) == [window |-> minute, count |-> bucket.count + 1]

\* Mutant of Counted: the time is rounded to the minute and not cut off.
CountedRounded(bucket) ==
  [window |-> minute + 1,
   count |-> (IF bucket.window = minute + 1 THEN bucket.count ELSE 0) + 1]

\* A bucket of another minute starts again.
Counted(bucket) ==
  [window |-> minute,
   count |-> (IF bucket.window = minute THEN bucket.count ELSE 0) + 1]

\* incrementLocal, under the mutex of the table.
CountsLocally(r) ==
  LET p == req[r].proc
      k == req[r].key
      table == Cleaned(local[p])
      bucket == Counted(table[k])
  IN /\ req[r].state = "local"
     /\ local' = [local EXCEPT ![p] = [table EXCEPT ![k] = bucket]]
     /\ Answer(r, p, minute, bucket.count)
     /\ UNCHANGED <<minute, shared>>

-----------------------------------------------------------------------------
\* Redis drops a counter two minutes after it was last counted up.
Expire(c) ==
  /\ c[1] + 2 <= minute
  /\ shared[c] > 0
  /\ shared' = [shared EXCEPT ![c] = 0]
  /\ UNCHANGED <<minute, local, req>>

\* The timeouts of the Redis client end a call, retries included, in less than
\* a minute.
Tick ==
  /\ minute < LastMinute
  /\ \A r \in Request : req[r].state = "redis" => req[r].window = minute
  /\ minute' = minute + 1
  /\ UNCHANGED <<shared, local, req>>

Serve(r) ==
  \/ Arrive(r)
  \/ RedisCounts(r)
  \/ LostReply(r)
  \/ RedisFails(r)
  \/ CountsLocally(r)

Next ==
  \/ \E r \in Request : Serve(r)
  \/ \E c \in Minute \X Key : Expire(c)
  \/ Tick

Spec == Init /\ [][Next]_vars

-----------------------------------------------------------------------------
\* The requests for key k that counter c let pass in minute m.
Passed(c, m, k) ==
  {r \in Request : /\ req[r].state = "passed"
                   /\ req[r].by = c /\ req[r].window = m /\ req[r].key = k}

\* No counter lets more than Limit requests for a key pass in a minute, in
\* spite of expiry, replies that were lost, requests counted in a later minute
\* than they arrived in, and the cleaning of the table.
WithinLimit ==
  \A c \in Counter, m \in Minute, k \in Key : Cardinality(Passed(c, m, k)) <= Limit

\* The table of a process refuses nobody early: when it refuses a request, it
\* has let the whole limit of that key and minute pass.
RefusedOnlyWhenFull ==
  \A r \in Request :
    req[r].state = "refused" /\ req[r].by # Shared =>
      Cardinality(Passed(req[r].by, req[r].window, req[r].key)) = Limit

\* The table grows over MaxTracked keys only with keys of the current minute:
\* buckets of the past are gone by then, so the clients of one minute bound it.
OverflowIsCurrent ==
  \A p \in Process :
    Cardinality(Tracked(local[p])) > MaxTracked =>
      \A k, l \in Tracked(local[p]) : local[p][k].window = local[p][l].window
=============================================================================
