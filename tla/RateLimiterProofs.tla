-------------------------- MODULE RateLimiterProofs --------------------------
(* Spec => []WithinLimit, for every number of processes, keys and requests.   *)
EXTENDS RateLimiter, FiniteSetTheorems, TLAPS

\* A call to Redis is answered or given up within a minute.
CallsAreShort ==
  \A r \in Request : req[r].state = "redis" =>
    req[r].window \in Minute /\ req[r].window <= minute /\ minute <= req[r].window + 1

\* Nobody passes in a minute that has not begun.
NoneEarly ==
  \A r \in Request : req[r].state = "passed" => req[r].window <= minute

\* What the counter of Redis stands for, while it can still be asked.
SharedCovers ==
  \A m \in Minute, k \in Key :
    /\ Cardinality(Passed(Shared, m, k)) <= Limit
    /\ minute <= m + 1 => Cardinality(Passed(Shared, m, k)) <= shared[<<m, k>>]

\* What the bucket of a process stands for in the current minute.
BucketCount(bucket) == IF bucket.window = minute THEN bucket.count ELSE 0

LocalCovers ==
  \A p \in Process, k \in Key :
    /\ local[p][k].window <= minute
    /\ \A m \in Minute :
         /\ Cardinality(Passed(p, m, k)) <= Limit
         /\ m = minute => Cardinality(Passed(p, m, k)) <= BucketCount(local[p][k])

IInv == TypeOK /\ CallsAreShort /\ NoneEarly /\ SharedCovers /\ LocalCovers

-----------------------------------------------------------------------------
\* Requests are finitely many, so every set of them can be counted.
LEMMA PassedFinite ==
  ASSUME NEW c, NEW m, NEW k
  PROVE  /\ IsFiniteSet(Passed(c, m, k))
         /\ Cardinality(Passed(c, m, k)) \in Nat
<1>1. Passed(c, m, k) \subseteq Request BY DEF Passed
<1>2. IsFiniteSet(Passed(c, m, k)) BY <1>1, LimiterConstants, FS_Subset
<1> QED BY <1>2, FS_CardinalityType

\* The same of the next state.
LEMMA PassedFiniteNext ==
  ASSUME NEW c, NEW m, NEW k
  PROVE  Cardinality(Passed(c, m, k)') \in Nat
<1>1. Passed(c, m, k)' \subseteq Request BY DEF Passed
<1>2. IsFiniteSet(Passed(c, m, k)') BY <1>1, LimiterConstants, FS_Subset
<1> QED BY <1>2, FS_CardinalityType

\* A step that lets no request pass and forgets none leaves every count alone.
LEMMA PassedUnchanged ==
  ASSUME NEW c, NEW m, NEW k,
         \A r \in Request : req[r].state = "passed" \/ req'[r].state = "passed"
                            => req'[r] = req[r]
  PROVE  Passed(c, m, k)' = Passed(c, m, k)
BY DEF Passed

\* What the answer to a request changes of it.
LEMMA AnswerSettles ==
  ASSUME TypeOK, NEW r \in Request, NEW d \in Counter, NEW w \in Minute, NEW n \in Nat,
         Answer(r, d, w, n)
  PROVE  /\ req' \in [Request -> RequestRecord]
         /\ req'[r].state \in {"passed", "refused"}
         /\ req'[r].state = "passed" <=> n <= Limit
         /\ req'[r].window = w /\ req'[r].by = d /\ req'[r].key = req[r].key
         /\ \A s \in Request \ {r} : req'[s] = req[s]
<1> DEFINE q == req[r]
           a == [q EXCEPT !.state = Verdict(n), !.window = w, !.by = d]
<1>1. /\ Verdict(n) \in {"passed", "refused"}
      /\ Verdict(n) = "passed" <=> n <= Limit
  BY LimiterConstants DEF Verdict
<1>2. q \in RequestRecord /\ w \in 0..LastMinute
  BY LimiterConstants DEF TypeOK, Minute
<1>3. /\ a \in RequestRecord /\ a.state = Verdict(n)
      /\ a.window = w /\ a.by = d /\ a.key = q.key
  BY <1>1, <1>2 DEF RequestRecord, RequestState
<1>4. req' = [req EXCEPT ![r] = a] BY DEF Answer
<1> HIDE DEF a
<1> QED BY <1>1, <1>3, <1>4 DEF TypeOK

\* The answer of counter d to request r as number n of minute w changes the
\* count of that counter, minute and key only, by one, and only up to the limit.
LEMMA AnswerCounts ==
  ASSUME TypeOK, NEW r \in Request, NEW d \in Counter, NEW w \in Minute, NEW n \in Nat,
         req[r].state \in {"redis", "local"}, Answer(r, d, w, n),
         NEW c \in Counter, NEW m \in Minute, NEW k \in Key
  PROVE  /\ c = d /\ m = w /\ k = req[r].key /\ n <= Limit =>
              Cardinality(Passed(c, m, k)') <= Cardinality(Passed(c, m, k)) + 1
         /\ ~(c = d /\ m = w /\ k = req[r].key /\ n <= Limit) =>
              Passed(c, m, k)' = Passed(c, m, k)
<1> DEFINE hit == c = d /\ m = w /\ k = req[r].key /\ n <= Limit
<1>1. /\ req'[r].state = "passed" <=> n <= Limit
      /\ req'[r].window = w /\ req'[r].by = d /\ req'[r].key = req[r].key
      /\ \A s \in Request \ {r} : req'[s] = req[s]
  BY AnswerSettles
<1>2. r \notin Passed(c, m, k) BY DEF Passed
<1>3. CASE hit
  <2>1. Passed(c, m, k)' = Passed(c, m, k) \cup {r} BY <1>1, <1>3 DEF Passed
  <2>2. Cardinality(Passed(c, m, k) \cup {r}) = Cardinality(Passed(c, m, k)) + 1
    BY <1>2, PassedFinite, FS_AddElement
  <2> QED BY <1>3, <2>1, <2>2, PassedFinite
<1>4. CASE ~hit
  <2>1. Passed(c, m, k)' = Passed(c, m, k) BY <1>1, <1>2, <1>4 DEF Passed
  <2> QED BY <1>4, <2>1
<1> QED BY <1>3, <1>4

\* Nobody has passed in a minute to come.
LEMMA FutureEmpty ==
  ASSUME NoneEarly, minute \in Nat, NEW c, NEW m \in Nat, NEW k, m > minute
  PROVE  Cardinality(Passed(c, m, k)) = 0
<1>1. Passed(c, m, k) = {} BY DEF Passed, NoneEarly
<1> QED BY <1>1, FS_EmptySet

\* At the start nothing has been counted.
LEMMA InitInvariant == Init => IInv
<1> SUFFICES ASSUME Init PROVE IInv OBVIOUS
<1>1. TypeOK
  BY LimiterConstants
  DEF Init, TypeOK, Minute, Bucket, NoBucket, RequestRecord, RequestState, Counter
<1>2. CallsAreShort /\ NoneEarly BY DEF Init, CallsAreShort, NoneEarly
<1>3. \A c, m, k : Cardinality(Passed(c, m, k)) = 0
  <2>1. \A c, m, k : Passed(c, m, k) = {} BY DEF Init, Passed
  <2> QED BY <2>1, FS_EmptySet
<1>4. SharedCovers BY <1>3, LimiterConstants DEF Init, SharedCovers, Minute
<1>5. LocalCovers
  BY <1>3, LimiterConstants DEF Init, LocalCovers, BucketCount, NoBucket, Minute
<1> QED BY <1>1, <1>2, <1>4, <1>5 DEF IInv

-----------------------------------------------------------------------------
\* A request that arrives, or turns to the table, has passed nowhere.
LEMMA MovesOn ==
  ASSUME IInv, NEW r \in Request, Arrive(r) \/ RedisFails(r)
  PROVE  IInv'
<1> USE LimiterConstants DEF IInv
<1>1. PICK a \in RequestRecord :
        /\ req' = [req EXCEPT ![r] = a]
        /\ \/ a.state = "redis" /\ a.window = minute
           \/ a.state = "local"
        /\ req[r].state \in {"new", "redis"}
  <2>1. req[r] \in RequestRecord BY DEF TypeOK
  <2>2. CASE Arrive(r)
    <3> DEFINE q == req[r]
               a == [q EXCEPT !.state = "redis", !.window = minute]
    <3>1. minute \in 0..LastMinute BY DEF TypeOK, Minute
    <3>2. a \in RequestRecord /\ a.state = "redis" /\ a.window = minute
      BY <2>1, <3>1 DEF RequestRecord, RequestState
    <3>3. req' = [req EXCEPT ![r] = a] /\ q.state = "new" BY <2>2 DEF Arrive
    <3> QED BY <3>2, <3>3
  <2>3. CASE RedisFails(r)
    <3> DEFINE q == req[r]
               a == [q EXCEPT !.state = "local"]
    <3>1. a \in RequestRecord /\ a.state = "local"
      BY <2>1 DEF RequestRecord, RequestState
    <3>2. req' = [req EXCEPT ![r] = a] /\ q.state = "redis" BY <2>3 DEF RedisFails
    <3> QED BY <3>1, <3>2
  <2> QED BY <2>2, <2>3
<1>2. UNCHANGED <<minute, shared, local>> BY DEF Arrive, RedisFails
<1>3. \A s \in Request : /\ s # r => req'[s] = req[s]
                        /\ s = r => req'[s] = a
  BY <1>1 DEF TypeOK
<1>4. TypeOK' BY <1>1, <1>2 DEF TypeOK
<1>5. CallsAreShort' BY <1>1, <1>2, <1>3 DEF CallsAreShort, TypeOK, Minute
<1>6. NoneEarly' BY <1>1, <1>2, <1>3 DEF NoneEarly
<1>7. \A c, m, k : Passed(c, m, k)' = Passed(c, m, k)
  BY <1>1, <1>3, PassedUnchanged
<1>8. SharedCovers' BY <1>2, <1>7 DEF SharedCovers
<1>9. LocalCovers' BY <1>2, <1>7 DEF LocalCovers, BucketCount
<1> QED BY <1>4, <1>5, <1>6, <1>8, <1>9

\* Redis counts a request up to the limit of its counter: the count covers
\* those that passed, because the counter is younger than two minutes.
LEMMA RedisLetsPass ==
  ASSUME IInv, NEW r \in Request, RedisCounts(r)
  PROVE  IInv'
<1> DEFINE w == req[r].window
           k0 == req[r].key
           n == shared[<<w, k0>>] + 1
<1> USE LimiterConstants DEF IInv
<1>1. /\ w \in Minute /\ k0 \in Key /\ minute \in Nat /\ w <= minute /\ minute <= w + 1
      /\ shared[<<w, k0>>] \in Nat /\ Shared \in Counter
  BY DEF RedisCounts, CallsAreShort, TypeOK, RequestRecord, Minute, Counter
<1>2. /\ req[r].state = "redis" /\ Answer(r, Shared, w, n) /\ UNCHANGED <<minute, local>>
      /\ shared' = [shared EXCEPT ![<<w, k0>>] = @ + 1]
  BY DEF RedisCounts
<1>3. /\ req' \in [Request -> RequestRecord]
      /\ req'[r].state \in {"passed", "refused"} /\ req'[r].window = w
      /\ \A s \in Request \ {r} : req'[s] = req[s]
  BY <1>1, <1>2, AnswerSettles
<1>4. TypeOK' BY <1>1, <1>2, <1>3 DEF TypeOK
<1>5. CallsAreShort' BY <1>2, <1>3 DEF CallsAreShort
<1>6. NoneEarly' BY <1>1, <1>2, <1>3 DEF NoneEarly
<1>7. SharedCovers'
  <2> SUFFICES ASSUME NEW m \in Minute, NEW k \in Key
               PROVE  /\ Cardinality(Passed(Shared, m, k)') <= Limit
                      /\ minute <= m + 1 =>
                           Cardinality(Passed(Shared, m, k)') <= shared'[<<m, k>>]
    BY <1>2 DEF SharedCovers
  <2>1. /\ Cardinality(Passed(Shared, m, k)) \in Nat
        /\ Cardinality(Passed(Shared, m, k)) <= Limit
        /\ minute <= m + 1 => Cardinality(Passed(Shared, m, k)) <= shared[<<m, k>>]
    BY PassedFinite DEF SharedCovers
  <2>2. Cardinality(Passed(Shared, m, k)') \in Nat BY PassedFiniteNext
  <2>3. shared[<<m, k>>] \in Nat BY DEF TypeOK
  <2>4. CASE m = w /\ k = k0
    <3>1. shared'[<<m, k>>] = n BY <1>1, <1>2, <2>4 DEF TypeOK
    <3>2. n <= Limit => Cardinality(Passed(Shared, m, k)') <= Cardinality(Passed(Shared, m, k)) + 1
      BY <1>1, <1>2, <2>4, AnswerCounts
    <3>3. ~(n <= Limit) => Passed(Shared, m, k)' = Passed(Shared, m, k)
      BY <1>1, <1>2, <2>4, AnswerCounts
    <3> QED BY <1>1, <2>1, <2>2, <2>4, <3>1, <3>2, <3>3
  <2>5. CASE ~(m = w /\ k = k0)
    <3>1. shared'[<<m, k>>] = shared[<<m, k>>] BY <1>1, <1>2, <2>5 DEF TypeOK
    <3>2. Passed(Shared, m, k)' = Passed(Shared, m, k)
      BY <1>1, <1>2, <2>5, AnswerCounts
    <3> QED BY <2>1, <3>1, <3>2
  <2> QED BY <2>4, <2>5
<1>8. \A p \in Process, m \in Minute, k \in Key : Passed(p, m, k)' = Passed(p, m, k)
  BY <1>1, <1>2, AnswerCounts DEF Counter
<1>9. LocalCovers' BY <1>2, <1>8 DEF LocalCovers, BucketCount, TypeOK
<1> QED BY <1>4, <1>5, <1>6, <1>7, <1>9

\* A count without an answer only widens the margin of the counter.
LEMMA LostReplyCounts ==
  ASSUME IInv, NEW r \in Request, LostReply(r)
  PROVE  IInv'
<1> DEFINE c0 == <<req[r].window, req[r].key>>
<1> USE LimiterConstants DEF IInv
<1>1. c0 \in Minute \X Key /\ shared[c0] \in Nat
  BY DEF LostReply, CallsAreShort, TypeOK, RequestRecord
<1>2. shared' = [shared EXCEPT ![c0] = @ + 1] /\ UNCHANGED <<minute, local, req>>
  BY DEF LostReply
<1>3. TypeOK' BY <1>1, <1>2 DEF TypeOK
<1>4. CallsAreShort' /\ NoneEarly' BY <1>2 DEF CallsAreShort, NoneEarly
<1>5. \A c, m, k : Passed(c, m, k)' = Passed(c, m, k) BY <1>2, PassedUnchanged
<1>6. \A c \in Minute \X Key : shared[c] \in Nat /\ shared[c] <= shared'[c]
  BY <1>1, <1>2 DEF TypeOK
<1>7. SharedCovers'
  <2> SUFFICES ASSUME NEW m \in Minute, NEW k \in Key
               PROVE  /\ Cardinality(Passed(Shared, m, k)) <= Limit
                      /\ minute <= m + 1 =>
                           Cardinality(Passed(Shared, m, k)) <= shared'[<<m, k>>]
    BY <1>2, <1>5 DEF SharedCovers
  <2>1. Cardinality(Passed(Shared, m, k)) \in Nat BY PassedFinite
  <2>2. shared[<<m, k>>] \in Nat /\ shared'[<<m, k>>] \in Nat
        /\ shared[<<m, k>>] <= shared'[<<m, k>>]
    BY <1>3, <1>6 DEF TypeOK
  <2> QED BY <2>1, <2>2 DEF SharedCovers
<1>8. LocalCovers' BY <1>2, <1>5 DEF LocalCovers, BucketCount
<1> QED BY <1>3, <1>4, <1>7, <1>8

\* Cleaning drops nothing that still counts.
LEMMA CleaningKeepsCurrent ==
  ASSUME TypeOK, NEW p \in Process, NEW k \in Key, local[p][k].window <= minute
  PROVE  /\ Cleaned(local[p]) \in [Key -> Bucket]
         /\ Cleaned(local[p])[k].window <= minute
         /\ BucketCount(Cleaned(local[p])[k]) = BucketCount(local[p][k])
<1> USE LimiterConstants
<1>1. local[p] \in [Key -> Bucket] /\ minute \in Nat /\ 0 < minute
  BY DEF TypeOK, Minute
<1>2. NoBucket \in Bucket /\ NoBucket.window = 0 BY DEF NoBucket, Bucket
<1>3. local[p][k] \in Bucket /\ local[p][k].window \in Nat BY <1>1 DEF Bucket
<1>4. CASE Cleaned(local[p]) = local[p] BY <1>1, <1>4
<1>5. CASE Cleaned(local[p]) = DropOlder(local[p])
  <2>1. DropOlder(local[p]) \in [Key -> Bucket] BY <1>1, <1>2 DEF DropOlder
  <2>2. DropOlder(local[p])[k] =
          IF local[p][k].window < minute THEN NoBucket ELSE local[p][k]
    BY <1>1 DEF DropOlder
  <2> QED BY <1>1, <1>2, <1>3, <1>5, <2>1, <2>2 DEF BucketCount
<1> QED BY <1>4, <1>5 DEF Cleaned

\* The table counts a request up to the limit: its bucket covers those of the
\* current minute, and starts from nothing when the minute is new.
LEMMA TableLetsPass ==
  ASSUME IInv, NEW r \in Request, CountsLocally(r)
  PROVE  IInv'
<1> DEFINE p0 == req[r].proc
           k0 == req[r].key
           table == Cleaned(local[p0])
           bucket == Counted(table[k0])
           n == bucket.count
<1> USE LimiterConstants DEF IInv
<1>1. /\ req[r].state = "local" /\ Answer(r, p0, minute, n)
      /\ UNCHANGED <<minute, shared>>
      /\ local' = [local EXCEPT ![p0] = [table EXCEPT ![k0] = bucket]]
  BY DEF CountsLocally
<1>2. /\ minute \in Minute /\ minute \in Nat /\ minute \in 0..LastMinute
      /\ p0 \in Process /\ p0 \in Counter /\ k0 \in Key /\ Shared \in Counter
  BY DEF TypeOK, Minute, RequestRecord, Counter
<1>3. \A k \in Key : /\ table[k].window <= minute /\ table[k] \in Bucket
                     /\ BucketCount(table[k]) = BucketCount(local[p0][k])
  BY <1>2, CleaningKeepsCurrent DEF LocalCovers
<1>4. table \in [Key -> Bucket] BY <1>2, CleaningKeepsCurrent DEF LocalCovers
<1>5. /\ bucket \in Bucket /\ bucket.window = minute
      /\ n = BucketCount(local[p0][k0]) + 1 /\ n \in Nat
      /\ BucketCount(local[p0][k0]) \in Nat
  <2>1. n = BucketCount(table[k0]) + 1 /\ bucket.window = minute
    BY DEF Counted, BucketCount
  <2>2. BucketCount(table[k0]) \in Nat BY <1>2, <1>3 DEF BucketCount, Bucket
  <2>3. bucket \in Bucket BY <1>2, <2>1, <2>2 DEF Counted, Bucket, BucketCount
  <2> QED BY <1>2, <1>3, <2>1, <2>2, <2>3
<1> HIDE DEF table, bucket, n
<1>6. /\ req' \in [Request -> RequestRecord]
      /\ req'[r].state \in {"passed", "refused"} /\ req'[r].window = minute
      /\ \A s \in Request \ {r} : req'[s] = req[s]
  BY <1>1, <1>2, <1>5, AnswerSettles
<1>7. /\ local' \in [Process -> [Key -> Bucket]]
      /\ local'[p0][k0] = bucket
      /\ \A k \in Key \ {k0} : local'[p0][k] = table[k]
      /\ \A p \in Process \ {p0} : local'[p] = local[p]
  BY <1>1, <1>2, <1>4, <1>5 DEF TypeOK
<1>8. TypeOK' BY <1>1, <1>6, <1>7 DEF TypeOK
<1>9. CallsAreShort' BY <1>1, <1>6 DEF CallsAreShort
<1>10. NoneEarly' BY <1>1, <1>2, <1>6 DEF NoneEarly
<1>11. \A c \in Counter, m \in Minute, k \in Key :
         ~(c = p0 /\ m = minute /\ k = k0) => Passed(c, m, k)' = Passed(c, m, k)
  BY <1>1, <1>2, <1>5, AnswerCounts
<1>12. SharedCovers' BY <1>1, <1>2, <1>11, LimiterConstants DEF SharedCovers
<1>13. LocalCovers'
  <2> SUFFICES ASSUME NEW p \in Process, NEW k \in Key, NEW m \in Minute
               PROVE  /\ local'[p][k].window <= minute
                      /\ Cardinality(Passed(p, m, k)') <= Limit
                      /\ m = minute =>
                           Cardinality(Passed(p, m, k)') <= BucketCount(local'[p][k])
    BY <1>1, <1>2, <1>3, <1>5, <1>7 DEF LocalCovers, BucketCount
  <2>1. /\ local[p][k].window <= minute
        /\ Cardinality(Passed(p, m, k)) <= Limit
        /\ m = minute => Cardinality(Passed(p, m, k)) <= BucketCount(local[p][k])
    BY DEF LocalCovers
  <2>2. p \in Counter BY DEF Counter
  <2>3. CASE ~(p = p0 /\ k = k0)
    <3>1. Passed(p, m, k)' = Passed(p, m, k) BY <1>11, <2>2, <2>3
    <3>2. /\ local'[p][k].window <= minute
          /\ BucketCount(local'[p][k]) = BucketCount(local[p][k])
      BY <1>3, <1>7, <2>1, <2>3
    <3> QED BY <2>1, <3>1, <3>2
  <2>4. CASE p = p0 /\ k = k0
    <3>1. local'[p][k].window = minute /\ BucketCount(local'[p][k]) = n
      BY <1>2, <1>5, <1>7, <2>4 DEF BucketCount, n
    <3>2. CASE m # minute
      <4>1. Passed(p, m, k)' = Passed(p, m, k) BY <1>11, <2>2, <3>2
      <4> QED BY <1>2, <2>1, <3>1, <3>2, <4>1
    <3>3. CASE m = minute
      <4>1. /\ n <= Limit => Cardinality(Passed(p, m, k)') <= Cardinality(Passed(p, m, k)) + 1
            /\ ~(n <= Limit) => Passed(p, m, k)' = Passed(p, m, k)
        BY <1>1, <1>2, <1>5, <2>2, <2>4, <3>3, AnswerCounts
      <4>2. /\ Cardinality(Passed(p, m, k)) \in Nat
            /\ Cardinality(Passed(p, m, k)') \in Nat
        BY PassedFinite, PassedFiniteNext
      <4>3. Cardinality(Passed(p, m, k)) <= BucketCount(local[p0][k0])
        BY <2>1, <2>4, <3>3
      <4>4. /\ Cardinality(Passed(p, m, k)') <= n
            /\ Cardinality(Passed(p, m, k)') <= Limit
        BY <1>5, <2>1, <4>1, <4>2, <4>3
      <4> QED BY <1>2, <3>1, <4>4
    <3> QED BY <3>2, <3>3
  <2> QED BY <2>3, <2>4
<1> QED BY <1>8, <1>9, <1>10, <1>12, <1>13

\* A counter that expires can no longer be asked by anybody.
LEMMA ExpiryIsLate ==
  ASSUME IInv, NEW c0 \in Minute \X Key, Expire(c0)
  PROVE  IInv'
<1> USE LimiterConstants DEF IInv
<1>1. /\ c0[1] + 2 <= minute /\ c0[1] \in Minute /\ minute \in Nat
      /\ shared' = [shared EXCEPT ![c0] = 0] /\ UNCHANGED <<minute, local, req>>
  BY DEF Expire, TypeOK, Minute
<1>2. TypeOK' BY <1>1 DEF TypeOK
<1>3. CallsAreShort' /\ NoneEarly' BY <1>1 DEF CallsAreShort, NoneEarly
<1>4. \A c, m, k : Passed(c, m, k)' = Passed(c, m, k) BY <1>1, PassedUnchanged
<1>5. SharedCovers'
  <2> SUFFICES ASSUME NEW m \in Minute, NEW k \in Key
               PROVE  /\ Cardinality(Passed(Shared, m, k)) <= Limit
                      /\ minute <= m + 1 =>
                           Cardinality(Passed(Shared, m, k)) <= shared'[<<m, k>>]
    BY <1>1, <1>4 DEF SharedCovers
  <2>1. minute <= m + 1 => <<m, k>> # c0 BY <1>1 DEF Minute
  <2>2. <<m, k>> # c0 => shared'[<<m, k>>] = shared[<<m, k>>] BY <1>1 DEF TypeOK
  <2> QED BY <2>1, <2>2 DEF SharedCovers
<1>6. LocalCovers' BY <1>1, <1>4 DEF LocalCovers, BucketCount
<1> QED BY <1>2, <1>3, <1>5, <1>6

\* In the minute that begins nobody has passed yet.
LEMMA MinuteBegins ==
  ASSUME IInv, Tick
  PROVE  IInv'
<1> USE LimiterConstants DEF IInv
<1>1. /\ minute \in Nat /\ 0 < minute /\ minute' = minute + 1 /\ minute' \in Minute
      /\ UNCHANGED <<shared, local, req>>
      /\ \A r \in Request : req[r].state = "redis" => req[r].window = minute
  BY DEF Tick, TypeOK, Minute
<1>2. TypeOK' BY <1>1 DEF TypeOK
<1>3. CallsAreShort' BY <1>1 DEF CallsAreShort
<1>4. NoneEarly' BY <1>1 DEF NoneEarly, TypeOK, RequestRecord
<1>5. \A c, m, k : Passed(c, m, k)' = Passed(c, m, k) BY <1>1, PassedUnchanged
<1>6. SharedCovers'
  <2> SUFFICES ASSUME NEW m \in Minute, NEW k \in Key
               PROVE  /\ Cardinality(Passed(Shared, m, k)) <= Limit
                      /\ minute + 1 <= m + 1 =>
                           Cardinality(Passed(Shared, m, k)) <= shared[<<m, k>>]
    BY <1>1, <1>5 DEF SharedCovers
  <2>1. m \in Nat BY DEF Minute
  <2> QED BY <1>1, <2>1 DEF SharedCovers
<1>7. LocalCovers'
  <2> SUFFICES ASSUME NEW p \in Process, NEW k \in Key, NEW m \in Minute
               PROVE  /\ local[p][k].window <= minute + 1
                      /\ Cardinality(Passed(p, m, k)) <= Limit
                      /\ m = minute + 1 =>
                           Cardinality(Passed(p, m, k)) <= BucketCount(local[p][k])'
    BY <1>1, <1>5 DEF LocalCovers
  <2>1. local[p][k] \in Bucket BY DEF TypeOK
  <2>2. local[p][k].window \in Nat /\ local[p][k].window <= minute
    BY <2>1 DEF LocalCovers, Bucket
  <2>3. BucketCount(local[p][k])' = 0 BY <1>1, <2>2 DEF BucketCount
  <2>4. m \in Nat BY DEF Minute
  <2>5. m = minute + 1 => Cardinality(Passed(p, m, k)) = 0 BY <1>1, <2>4, FutureEmpty
  <2>6. Cardinality(Passed(p, m, k)) <= Limit BY DEF LocalCovers
  <2> QED BY <1>1, <2>2, <2>3, <2>5, <2>6
<1> QED BY <1>2, <1>3, <1>4, <1>6, <1>7

\* Every step keeps the invariant.
LEMMA StepInvariant == IInv /\ [Next]_vars => IInv'
<1> SUFFICES ASSUME IInv, [Next]_vars PROVE IInv' OBVIOUS
<1>1. ASSUME NEW r \in Request, Serve(r) PROVE IInv'
  BY <1>1, MovesOn, RedisLetsPass, LostReplyCounts, TableLetsPass DEF Serve
<1>2. ASSUME NEW c \in Minute \X Key, Expire(c) PROVE IInv' BY <1>2, ExpiryIsLate
<1>3. CASE Tick BY <1>3, MinuteBegins
<1>4. CASE UNCHANGED vars
  <2>1. UNCHANGED <<minute, shared, local, req>> BY <1>4 DEF vars
  <2>2. \A c, m, k : Passed(c, m, k)' = Passed(c, m, k) BY <2>1, PassedUnchanged
  <2>3. TypeOK' /\ CallsAreShort' /\ NoneEarly'
    BY <2>1 DEF IInv, TypeOK, CallsAreShort, NoneEarly
  <2>4. SharedCovers' BY <2>1, <2>2 DEF IInv, SharedCovers
  <2>5. LocalCovers' BY <2>1, <2>2 DEF IInv, LocalCovers, BucketCount
  <2> QED BY <2>3, <2>4, <2>5 DEF IInv
<1> QED BY <1>1, <1>2, <1>3, <1>4 DEF Next

\* The invariant is the limit of every counter.
LEMMA InvariantLimits == IInv => WithinLimit
BY DEF IInv, SharedCovers, LocalCovers, WithinLimit, Counter

\* The limit of every counter (Middleware, increment, incrementLocal): no
\* counter lets more than Limit requests for a key pass in a minute.
THEOREM LimitHolds == Spec => []WithinLimit
<1>1. Init => IInv BY InitInvariant
<1>2. IInv /\ [Next]_vars => IInv' BY StepInvariant
<1>3. IInv => WithinLimit BY InvariantLimits
<1> QED BY <1>1, <1>2, <1>3, PTL DEF Spec

\* Requests, counters and the clock keep their types.
THEOREM LimiterTypeCorrect == Spec => []TypeOK
<1>1. Init => IInv BY InitInvariant
<1>2. IInv /\ [Next]_vars => IInv' BY StepInvariant
<1>3. IInv => TypeOK BY DEF IInv
<1> QED BY <1>1, <1>2, <1>3, PTL DEF Spec

-----------------------------------------------------------------------------
\* OverflowIsCurrent needs that a table tracks finitely many keys at a time.
TrackedInv ==
  /\ \A p \in Process : IsFiniteSet(Tracked(local[p]))
  /\ OverflowIsCurrent

\* Counting a request cleans a table that is full, so that one more key either
\* fits or joins buckets of the current minute alone.
LEMMA CountingTracks ==
  ASSUME IInv, TrackedInv, NEW r \in Request, CountsLocally(r)
  PROVE  TrackedInv'
<1> USE LimiterConstants
<1> DEFINE p == req[r].proc
           k == req[r].key
           table == Cleaned(local[p])
           bucket == Counted(table[k])
<1>1. /\ p \in Process /\ k \in Key /\ minute \in Nat /\ 0 < minute
      /\ local \in [Process -> [Key -> Bucket]]
  BY DEF IInv, TypeOK, RequestRecord, Minute
<1>2. local' = [local EXCEPT ![p] = [table EXCEPT ![k] = bucket]]
  BY DEF CountsLocally
<1>3. table \in [Key -> Bucket]
  BY <1>1, CleaningKeepsCurrent DEF IInv, LocalCovers
<1>4. bucket.window = minute
  BY DEF Counted
<1>5. /\ local'[p] = [table EXCEPT ![k] = bucket]
      /\ \A q \in Process \ {p} : local'[q] = local[q]
  BY <1>1, <1>2
<1>6. Tracked(table) \subseteq Tracked(local[p]) /\ IsFiniteSet(Tracked(local[p]))
  BY <1>1, <1>3 DEF Cleaned, DropOlder, Tracked, TrackedInv
<1> HIDE DEF table, bucket, p, k
<1>7. Tracked(local'[p]) \subseteq Tracked(table) \cup {k}
  BY <1>1, <1>3, <1>5 DEF Tracked
<1>8. IsFiniteSet(Tracked(local'[p])) /\ IsFiniteSet(Tracked(table))
  BY <1>6, <1>7, FS_AddElement, FS_Subset
<1>9. Cardinality(Tracked(local'[p])) > MaxTracked =>
        \A a, b \in Tracked(local'[p]) : local'[p][a].window = local'[p][b].window
  <2>1. CASE Cardinality(Tracked(local[p])) < MaxTracked
    <3>1. IsFiniteSet(Tracked(table) \cup {k})
          /\ Cardinality(Tracked(table) \cup {k}) <= Cardinality(Tracked(table)) + 1
      <4>1. IsFiniteSet(Tracked(table) \cup {k})
        BY <1>8, FS_AddElement
      <4>2. Cardinality(Tracked(table) \cup {k})
              = IF k \in Tracked(table) THEN Cardinality(Tracked(table))
                                        ELSE Cardinality(Tracked(table)) + 1
        BY <1>8, FS_AddElement
      <4>3. Cardinality(Tracked(table)) \in Nat
        BY <1>8, FS_CardinalityType
      <4> QED
        BY <4>1, <4>2, <4>3
    <3>2. Cardinality(Tracked(table)) <= Cardinality(Tracked(local[p]))
      BY <1>6, FS_Subset
    <3>3. Cardinality(Tracked(local'[p])) <= Cardinality(Tracked(table) \cup {k})
      BY <1>7, <3>1, FS_Subset
    <3>4. /\ Cardinality(Tracked(local[p])) \in Nat /\ Cardinality(Tracked(table)) \in Nat
          /\ Cardinality(Tracked(local'[p])) \in Nat
          /\ Cardinality(Tracked(table) \cup {k}) \in Nat
      BY <1>6, <1>8, <3>1, FS_CardinalityType
    <3> QED
      BY <2>1, <3>1, <3>2, <3>3, <3>4
  <2>2. CASE ~(Cardinality(Tracked(local[p])) < MaxTracked)
    <3>1. table = DropOlder(local[p])
      BY <2>2 DEF table, Cleaned
    <3>2. \A a \in Tracked(table) : table[a].window = minute
      <4> SUFFICES ASSUME NEW a \in Tracked(table)
                   PROVE  table[a].window = minute
        OBVIOUS
      <4>1. a \in Key /\ table[a] = local[p][a] /\ ~(local[p][a].window < minute)
        BY <1>1, <1>3, <3>1 DEF Tracked, DropOlder
      <4>2. local[p][a].window <= minute /\ local[p][a].window \in Nat
        BY <1>1, <4>1 DEF IInv, LocalCovers, Bucket
      <4> QED
        BY <1>1, <4>1, <4>2
    <3>3. \A a \in Tracked(local'[p]) : local'[p][a].window = minute
      <4> SUFFICES ASSUME NEW a \in Tracked(local'[p])
                   PROVE  local'[p][a].window = minute
        OBVIOUS
      <4>1. CASE a = k
        BY <1>1, <1>3, <1>4, <1>5, <4>1
      <4>2. CASE a # k
        <5>1. a \in Tracked(table) /\ a \in Key
          BY <1>3, <1>7, <4>2 DEF Tracked
        <5>2. local'[p][a] = table[a]
          BY <1>3, <1>5, <4>2, <5>1
        <5> QED
          BY <3>2, <5>1, <5>2
      <4> QED
        BY <4>1, <4>2
    <3> QED
      BY <3>3
  <2> QED
    BY <2>1, <2>2
<1>10. ASSUME NEW q \in Process
       PROVE  /\ IsFiniteSet(Tracked(local'[q]))
              /\ Cardinality(Tracked(local'[q])) > MaxTracked =>
                   \A a, b \in Tracked(local'[q]) : local'[q][a].window = local'[q][b].window
  <2>1. CASE q = p
    BY <1>8, <1>9, <2>1
  <2>2. CASE q # p
    <3>1. local'[q] = local[q]
      BY <1>5, <2>2
    <3> QED
      BY <3>1 DEF TrackedInv, OverflowIsCurrent
  <2> QED
    BY <2>1, <2>2
<1> QED
  BY <1>10 DEF TrackedInv, OverflowIsCurrent

\* OverflowBounded: a table grows over its size only with keys of the minute it
\* is cleaned in, for any number of keys and requests.
THEOREM OverflowBounded == Spec => []OverflowIsCurrent
<1>1. Init => IInv BY InitInvariant
<1>2. IInv /\ [Next]_vars => IInv' BY StepInvariant
<1>3. Init => TrackedInv
  <2> SUFFICES ASSUME Init PROVE TrackedInv
    OBVIOUS
  <2>1. \A p \in Process : Tracked(local[p]) = {}
    BY DEF Init, Tracked
  <2> QED
    BY <2>1, FS_EmptySet DEF TrackedInv, OverflowIsCurrent
<1>4. IInv /\ TrackedInv /\ [Next]_vars => TrackedInv'
  <2> SUFFICES ASSUME IInv, TrackedInv, [Next]_vars PROVE TrackedInv'
    OBVIOUS
  <2>1. ASSUME NEW r \in Request, CountsLocally(r)
        PROVE  TrackedInv'
    BY <2>1, CountingTracks
  <2>2. CASE local' = local
    BY <2>2 DEF TrackedInv, OverflowIsCurrent, Tracked
  <2> QED
    BY <2>1, <2>2 DEF Next, Serve, Arrive, RedisCounts, LostReply, RedisFails, Expire, Tick, vars
<1>5. TrackedInv => OverflowIsCurrent BY DEF TrackedInv
<1> QED BY <1>1, <1>2, <1>3, <1>4, <1>5, PTL DEF Spec

-----------------------------------------------------------------------------
\* RefusedOnlyWhenFull needs that a bucket counts no request that did not pass
\* before the limit was reached.
BucketFills ==
  \A p \in Process, k \in Key :
    LET passed == Cardinality(Passed(p, local[p][k].window, k)) IN
    passed >= Limit \/ passed >= local[p][k].count

RefusedLate ==
  \A r \in Request :
    req[r].state = "refused" /\ req[r].by # Shared =>
      /\ req[r].window \in Minute
      /\ Cardinality(Passed(req[r].by, req[r].window, req[r].key)) >= Limit

FullInv == BucketFills /\ RefusedLate

\* A request that was answered stays as it is.
LEMMA AnsweredStay ==
  ASSUME TypeOK, [Next]_vars, NEW s \in Request, req[s].state \in {"passed", "refused"}
  PROVE  req'[s] = req[s]
<1>1. ASSUME NEW r \in Request, Serve(r) PROVE req'[s] = req[s]
  BY <1>1 DEF Serve, Arrive, RedisCounts, LostReply, RedisFails, CountsLocally, Answer, TypeOK
<1> QED
  BY <1>1 DEF Next, Expire, Tick, vars

\* So the requests that passed only become more.
LEMMA PassedGrows ==
  ASSUME TypeOK, [Next]_vars, NEW c, NEW m, NEW k
  PROVE  /\ Cardinality(Passed(c, m, k)) \in Nat
         /\ Cardinality(Passed(c, m, k)') \in Nat
         /\ Cardinality(Passed(c, m, k)) <= Cardinality(Passed(c, m, k)')
<1>1. Passed(c, m, k) \subseteq Passed(c, m, k)'
  BY AnsweredStay DEF Passed
<1>2. Passed(c, m, k)' \subseteq Request
  BY DEF Passed
<1>3. IsFiniteSet(Passed(c, m, k)')
  BY <1>2, LimiterConstants, FS_Subset
<1> QED
  BY <1>1, <1>3, FS_Subset, PassedFinite, PassedFiniteNext

\* A request that passes is counted once.
LEMMA PassingAdds ==
  ASSUME TypeOK, NEW r \in Request, NEW d \in Counter, NEW w \in Minute, NEW n \in Nat,
         req[r].state \in {"redis", "local"}, Answer(r, d, w, n), n <= Limit,
         NEW k, k = req[r].key
  PROVE  Cardinality(Passed(d, w, k)') = Cardinality(Passed(d, w, k)) + 1
<1>1. /\ req'[r].state = "passed" /\ req'[r].window = w /\ req'[r].by = d
      /\ req'[r].key = k
      /\ \A s \in Request \ {r} : req'[s] = req[s]
  BY AnswerSettles
<1>2. r \notin Passed(d, w, k)
  BY DEF Passed
<1>3. Passed(d, w, k)' = Passed(d, w, k) \cup {r}
  BY <1>1 DEF Passed
<1>4. Cardinality(Passed(d, w, k) \cup {r}) = Cardinality(Passed(d, w, k)) + 1
  BY <1>2, PassedFinite, FS_AddElement
<1> QED
  BY <1>3, <1>4

\* Counting locally fills a bucket by a request that passes, and refuses one
\* only after a bucket of the same minute was filled to the limit.
LEMMA CountingFills ==
  ASSUME IInv, FullInv, NEW r \in Request, CountsLocally(r)
  PROVE  FullInv'
<1> USE LimiterConstants
<1>1. PICK p0 \in Process, k0 \in Key, w \in Minute :
        p0 = req[r].proc /\ k0 = req[r].key /\ w = minute
  BY DEF IInv, TypeOK, RequestRecord
<1> DEFINE table == Cleaned(local[p0])
           bucket == Counted(table[k0])
           n == bucket.count
<1>2. /\ TypeOK /\ [Next]_vars /\ req[r].state = "local"
      /\ Answer(r, p0, w, n) /\ minute' = minute
      /\ local' = [local EXCEPT ![p0] = [table EXCEPT ![k0] = bucket]]
  BY <1>1 DEF CountsLocally, IInv, Next, Serve
<1>3. /\ p0 \in Counter /\ p0 # Shared /\ w \in Nat /\ Limit \in Nat
      /\ local \in [Process -> [Key -> Bucket]]
  BY <1>2 DEF TypeOK, Minute, Counter
<1>4. table \in [Key -> Bucket] /\ BucketCount(table[k0]) = BucketCount(local[p0][k0])
  BY <1>2, <1>3, CleaningKeepsCurrent DEF IInv, LocalCovers
<1>5. /\ n = BucketCount(local[p0][k0]) + 1 /\ bucket.window = w
      /\ BucketCount(local[p0][k0]) \in Nat /\ n \in Nat
  <2>1. n = BucketCount(table[k0]) + 1 /\ bucket.window = w
    BY <1>1 DEF Counted, BucketCount
  <2>2. BucketCount(table[k0]) \in Nat
    BY <1>4 DEF BucketCount, Bucket
  <2> QED
    BY <1>4, <2>1, <2>2
<1>6. \A k \in Key : table[k] = local[p0][k] \/ table[k] = NoBucket
  BY <1>3 DEF Cleaned, DropOlder
<1>7. ASSUME NEW c, NEW m, NEW k
      PROVE  /\ Cardinality(Passed(c, m, k)) \in Nat
             /\ Cardinality(Passed(c, m, k)') \in Nat
             /\ Cardinality(Passed(c, m, k)) <= Cardinality(Passed(c, m, k)')
  BY <1>2, PassedGrows
<1>8. \/ Cardinality(Passed(p0, w, k0)) >= Limit
      \/ Cardinality(Passed(p0, w, k0)) >= BucketCount(local[p0][k0])
  <2>1. CASE local[p0][k0].window = w
    BY <1>1, <2>1 DEF FullInv, BucketFills, BucketCount
  <2>2. CASE local[p0][k0].window # w
    BY <1>1, <1>7, <2>2 DEF BucketCount
  <2> QED
    BY <2>1, <2>2
<1>9. n <= Limit => Cardinality(Passed(p0, w, k0)') = Cardinality(Passed(p0, w, k0)) + 1
  <2> HIDE DEF n
  <2> QED
    BY <1>1, <1>2, <1>3, <1>5, PassingAdds
<1>10. /\ Cardinality(Passed(p0, w, k0)') >= Limit \/ Cardinality(Passed(p0, w, k0)') >= n
       /\ ~(n <= Limit) => Cardinality(Passed(p0, w, k0)') >= Limit
  <2> DEFINE was == Cardinality(Passed(p0, w, k0))
             is == Cardinality(Passed(p0, w, k0)')
  <2>1. was \in Nat /\ is \in Nat /\ was <= is
    BY <1>7
  <2> HIDE DEF was, is, n
  <2> QED
    BY <1>3, <1>5, <1>8, <1>9, <2>1 DEF was, is
<1>11. /\ req'[r].state = "passed" <=> n <= Limit
       /\ req'[r].window = w /\ req'[r].by = p0 /\ req'[r].key = k0
       /\ \A s \in Request \ {r} : req'[s] = req[s]
  <2> HIDE DEF n
  <2> QED
    BY <1>1, <1>2, <1>3, <1>5, AnswerSettles
<1> HIDE DEF table
<1>12. /\ local'[p0] = [table EXCEPT ![k0] = bucket]
       /\ \A p \in Process \ {p0} : local'[p] = local[p]
  BY <1>2, <1>3
<1>13. BucketFills'
  <2> SUFFICES ASSUME NEW p \in Process, NEW k \in Key, NEW m, m = local'[p][k].window
               PROVE  \/ Cardinality(Passed(p, m, k)') >= Limit
                      \/ Cardinality(Passed(p, m, k)') >= local'[p][k].count
    BY DEF BucketFills, Passed
  <2>1. CASE p = p0 /\ k = k0
    <3>1. local'[p][k] = bucket
      BY <1>4, <1>12, <2>1
    <3> QED
      BY <1>5, <1>10, <2>1, <3>1
  <2>2. CASE ~(p = p0 /\ k = k0) /\ local'[p][k] = local[p][k]
    <3>1. local[p][k].count \in Nat
      BY <1>3 DEF Bucket
    <3>2. \/ Cardinality(Passed(p, m, k)) >= Limit
          \/ Cardinality(Passed(p, m, k)) >= local[p][k].count
      BY <2>2 DEF FullInv, BucketFills
    <3> QED
      BY <1>3, <1>7, <2>2, <3>1, <3>2
  <2>3. CASE local'[p][k] = NoBucket
    BY <1>7, <2>3 DEF NoBucket
  <2> QED
    BY <1>4, <1>6, <1>12, <2>1, <2>2, <2>3
<1>14. RefusedLate'
  <2> SUFFICES ASSUME NEW s \in Request, NEW c, NEW m, NEW k,
                      c = req'[s].by, m = req'[s].window, k = req'[s].key,
                      req'[s].state = "refused", c # Shared
               PROVE  m \in Minute /\ Cardinality(Passed(c, m, k)') >= Limit
    BY DEF RefusedLate, Passed, Minute
  <2>1. CASE s = r
    BY <1>5, <1>10, <1>11, <2>1
  <2>2. CASE s # r
    <3>1. m \in Minute /\ Cardinality(Passed(c, m, k)) >= Limit
      BY <1>11, <2>2 DEF FullInv, RefusedLate
    <3> QED
      BY <1>3, <1>7, <3>1
  <2> QED
    BY <2>1, <2>2
<1> QED
  BY <1>13, <1>14 DEF FullInv

\* A step that leaves the tables alone and refuses nobody for them.
LEMMA OthersKeepFull ==
  ASSUME TypeOK, FullInv, [Next]_vars, UNCHANGED local,
         \A s \in Request : req'[s].state = "refused" /\ req'[s].by # Shared
                            => req'[s] = req[s]
  PROVE  FullInv'
<1>1. ASSUME NEW c, NEW m, NEW k
      PROVE  /\ Cardinality(Passed(c, m, k)) \in Nat
             /\ Cardinality(Passed(c, m, k)') \in Nat
             /\ Cardinality(Passed(c, m, k)) <= Cardinality(Passed(c, m, k)')
  BY PassedGrows
<1>2. BucketFills'
  <2> SUFFICES ASSUME NEW p \in Process, NEW k \in Key, NEW m, m = local[p][k].window
               PROVE  \/ Cardinality(Passed(p, m, k)') >= Limit
                      \/ Cardinality(Passed(p, m, k)') >= local[p][k].count
    BY DEF BucketFills, Passed
  <2>1. local[p][k].count \in Nat
    BY DEF TypeOK, Bucket
  <2>2. \/ Cardinality(Passed(p, m, k)) >= Limit
        \/ Cardinality(Passed(p, m, k)) >= local[p][k].count
    BY DEF FullInv, BucketFills
  <2> QED
    BY <1>1, <2>1, <2>2, LimiterConstants
<1>3. RefusedLate'
  <2> SUFFICES ASSUME NEW s \in Request, NEW c, NEW m, NEW k,
                      c = req'[s].by, m = req'[s].window, k = req'[s].key,
                      req'[s].state = "refused", c # Shared
               PROVE  m \in Minute /\ Cardinality(Passed(c, m, k)') >= Limit
    BY DEF RefusedLate, Passed, Minute
  <2>1. m \in Minute /\ Cardinality(Passed(c, m, k)) >= Limit
    BY DEF FullInv, RefusedLate
  <2> QED
    BY <1>1, <2>1, LimiterConstants
<1> QED
  BY <1>2, <1>3 DEF FullInv

\* NobodyRefusedEarly: the table of a process refuses a request only when it let
\* the whole limit of that key and minute pass.
THEOREM NobodyRefusedEarly == Spec => []RefusedOnlyWhenFull
<1>1. Init => IInv BY InitInvariant
<1>2. IInv /\ [Next]_vars => IInv' BY StepInvariant
<1>3. Init => FullInv
  <2> SUFFICES ASSUME Init PROVE FullInv
    OBVIOUS
  <2>1. \A p \in Process, k \in Key : local[p][k].count = 0
    BY DEF Init, NoBucket
  <2>2. \A c, m, k : Cardinality(Passed(c, m, k)) \in Nat
    BY PassedFinite
  <2>3. BucketFills
    BY <2>1, <2>2 DEF BucketFills
  <2>4. RefusedLate
    BY DEF Init, RefusedLate
  <2> QED
    BY <2>3, <2>4 DEF FullInv
<1>4. IInv /\ FullInv /\ [Next]_vars => FullInv'
  <2> SUFFICES ASSUME IInv, FullInv, [Next]_vars PROVE FullInv'
    OBVIOUS
  <2>1. ASSUME NEW r \in Request, CountsLocally(r) PROVE FullInv'
    BY <2>1, CountingFills
  <2>2. ASSUME NEW r \in Request, Arrive(r) \/ RedisFails(r) PROVE FullInv'
    <3>1. \A s \in Request : req'[s].state = "refused" => req'[s] = req[s]
      BY <2>2 DEF Arrive, RedisFails, IInv, TypeOK, RequestRecord
    <3> QED
      BY <2>2, <3>1, OthersKeepFull DEF IInv, Arrive, RedisFails
  <2>3. ASSUME NEW r \in Request, RedisCounts(r) PROVE FullInv'
    <3>1. \A s \in Request : req'[s].by # Shared => req'[s] = req[s]
      BY <2>3 DEF RedisCounts, Answer, IInv, TypeOK, RequestRecord
    <3> QED
      BY <2>3, <3>1, OthersKeepFull DEF IInv, RedisCounts
  <2>4. CASE UNCHANGED <<local, req>>
    BY <2>4, OthersKeepFull DEF IInv
  <2> QED
    BY <2>1, <2>2, <2>3, <2>4 DEF Next, Serve, LostReply, Expire, Tick, vars
<1>5. IInv /\ FullInv => RefusedOnlyWhenFull
  <2> SUFFICES ASSUME IInv, FullInv, NEW r \in Request,
                      req[r].state = "refused", req[r].by # Shared
               PROVE  Cardinality(Passed(req[r].by, req[r].window, req[r].key)) = Limit
    BY DEF RefusedOnlyWhenFull
  <2>1. req[r].by \in Counter /\ req[r].window \in Minute /\ req[r].key \in Key
    BY DEF IInv, TypeOK, RequestRecord, FullInv, RefusedLate
  <2>2. Cardinality(Passed(req[r].by, req[r].window, req[r].key)) <= Limit
    BY <2>1, InvariantLimits DEF WithinLimit
  <2>3. Cardinality(Passed(req[r].by, req[r].window, req[r].key)) >= Limit
    BY DEF FullInv, RefusedLate
  <2>4. Cardinality(Passed(req[r].by, req[r].window, req[r].key)) \in Nat
    BY PassedFinite
  <2> QED
    BY <2>2, <2>3, <2>4, LimiterConstants
<1> QED BY <1>1, <1>2, <1>3, <1>4, <1>5, PTL DEF Spec
=============================================================================
