---------------------------- MODULE HttpApiProofs ----------------------------
(***************************************************************************)
(* Machine-checked proofs about the request path, HttpApi and the          *)
(* RateLimiter it is composed with, for any requests, credentials, rates   *)
(* and bursts.  What is admitted is counted in AdmissionProofs; the        *)
(* arithmetic that the count rests on is here, at the end.                 *)
(***************************************************************************)
EXTENDS HttpApi, TLAPS, WellFoundedInduction

\* The prover of a leaf that names no other; arithmetic is for SMT.
USE Zenon

----------------------------------------------------------------------------
(* Arithmetic *)

\* The smaller and the larger of two numbers.
LEMMA MinMax ==
    ASSUME NEW m \in Int, NEW n \in Int
    PROVE  /\ Min({m, n}) = IF m <= n THEN m ELSE n
           /\ Max({m, n}) = IF m <= n THEN n ELSE m
<1>1. \E x \in {m, n} : \A y \in {m, n} : x <= y
  BY SMT
<1>2. Min({m, n}) \in {m, n} /\ \A y \in {m, n} : Min({m, n}) <= y
  BY <1>1 DEF Min
<1>3. \E x \in {m, n} : \A y \in {m, n} : x >= y
  BY SMT
<1>4. Max({m, n}) \in {m, n} /\ \A y \in {m, n} : Max({m, n}) >= y
  BY <1>3 DEF Max
<1>. QED
  BY <1>2, <1>4, SMT

\* Division rounds down.
LEMMA Division ==
    ASSUME NEW a \in Nat, NEW n \in Nat \ {0}
    PROVE  /\ a \div n \in Nat
           /\ a < (a \div n) * n + n
BY SMT

\* What a request costs, and the tokens a full bucket holds: one at least.
LEMMA CapacityFacts ==
    ASSUME NEW key \in BucketKeys
    PROVE  /\ Interval(key) \in Nat
           /\ Capacity(key) \in Nat
           /\ Interval(key) <= Capacity(key)
<1>1. key[2] \in RouteClasses
  BY DEF BucketKeys
<1>2. /\ TicksPerSecond \in Nat /\ RequestsPerSecond[key[2]] \in Nat \ {0}
      /\ Burst[key[2]] \in Nat \ {0}
  BY <1>1, RateLimitAssumption DEF RateLimitConfigValid
<1>3. Interval(key) \in Nat
  BY <1>2, Division DEF Interval
<1>4. \A x \in Nat, y \in Nat \ {0} : y * x \in Nat /\ x <= y * x
  BY SMT
<1>. QED
  BY <1>2, <1>3, <1>4 DEF Capacity

\* The delay of Retry-After is not shorter than the wait for the token.
LEMMA SecondsCover ==
    ASSUME NEW ticks \in Nat
    PROVE  /\ Seconds(ticks) \in Nat
           /\ Seconds(ticks) * TicksPerSecond \in Nat
           /\ ticks <= Seconds(ticks) * TicksPerSecond
<1>1. TicksPerSecond \in Nat \ {0}
  BY RateLimitAssumption DEF RateLimitConfigValid
<1>. DEFINE a == ticks + TicksPerSecond - 1
            q == a \div TicksPerSecond
<1>2. a \in Nat
  BY <1>1, SMT
<1>3. q \in Nat /\ a < q * TicksPerSecond + TicksPerSecond
  BY <1>1, <1>2, Division
<1>4. q * TicksPerSecond \in Nat
  BY <1>1, <1>3, SMT
<1>5. ticks <= q * TicksPerSecond
  BY <1>1, <1>3, <1>4, SMT
<1>6. Seconds(ticks) = IF 1 <= q THEN q ELSE 1
  <2>1. Seconds(ticks) = Max({1, q})
    BY DEF Seconds
  <2>2. q \in Int
    BY <1>3, SMT
  <2>. HIDE DEF q
  <2>3. Max({1, q}) = IF 1 <= q THEN q ELSE 1
    BY <2>2, MinMax, SMT
  <2>. QED
    BY <2>1, <2>3
<1>7. \A x \in Nat : 1 * x = x
  BY SMT
<1>8. CASE 1 <= q
  BY <1>3, <1>4, <1>5, <1>6, <1>8
<1>9. CASE q = 0
  <2>1. q * TicksPerSecond = 0
    BY <1>1, <1>9, SMT
  <2>2. ticks = 0
    BY <1>5, <2>1, SMT
  <2>3. Seconds(ticks) = 1
    BY <1>6, <1>9, SMT
  <2>. QED
    BY <1>1, <1>7, <2>2, <2>3, SMT
<1>. QED
  BY <1>3, <1>8, <1>9, SMT

----------------------------------------------------------------------------
(* The inductive invariant *)

Bucket == [tokens : Int, last : 0..clock, lastEvent : Nat]

LimiterTypeOK ==
    /\ buckets \in [BucketKeys -> Bucket]
    /\ reservation \in [HttpRequests -> Nat]
    /\ pledged \in [HttpRequests -> Nat]
    /\ promised \in [BucketKeys -> Nat]
    /\ overlapped \in [BucketKeys -> BOOLEAN]

\* A request that is at the limiter has its bucket.
AtLimiter(r) == pc[r] \in {"clock", "allow", "reserve", "cancel"} => bucketOf[r] \in BucketKeys

\* A request that called the application was not answered before.
RunInv(r) ==
    /\ r \in ran => pc[r] \in {"handle", "answered"}
    /\ pc[r] # "answered" => answer[r] = 0

\* What bucket b will hold at time x, as far as its burst allows.
Earned(b, x) == IF x > b.last THEN x - b.last ELSE 0
Holds(b, x) == b.tokens + Earned(b, x)

\* There is a token for whoever comes at the promised time; while the reservation
\* of r is not cancelled, what it will give back counts.
Kept(key, x) == x = Never \/ Interval(key) <= Holds(buckets[key], x)
Pending(key, r, x) ==
    \/ x = Never
    \/ buckets[key].lastEvent = reservation[r] /\ 0 <= Holds(buckets[key], x)

Cancelling(key) == {r \in HttpRequests : bucketOf[r] = key /\ pc[r] = "cancel"}

RetryInv(key) ==
    ~ overlapped[key] =>
        /\ \A q, r \in Rejecting(key) : q = r
        /\ Cancelling(key) = {} => Kept(key, promised[key])
        /\ \A r \in Cancelling(key) :
              Pending(key, r, promised[key]) /\ Pending(key, r, pledged[r])

HttpInv ==
    /\ HttpTypeOK
    /\ LimiterTypeOK
    /\ \A r \in HttpRequests : AtLimiter(r) /\ RunInv(r)
    /\ RefusedBeforeRunning
    /\ \A key \in BucketKeys : RetryInv(key)

----------------------------------------------------------------------------
(* The token bucket *)

\* Time that passes for a bucket, or is set back, takes no token away.
LEMMA AdvancedFacts ==
    ASSUME HttpInv, NEW key \in BucketKeys, NEW t \in 0..clock
    PROVE  /\ Advanced(key, t) \in Bucket
           /\ Advanced(key, t).last = t
           /\ Advanced(key, t).lastEvent = buckets[key].lastEvent
           /\ Advanced(key, t).tokens <= Capacity(key)
           /\ \A x \in Nat, n \in Int :
                 n <= Capacity(key) /\ n <= Holds(buckets[key], x) => n <= Holds(Advanced(key, t), x)
<1>. DEFINE b == buckets[key]
            earned == IF t > b.last THEN t - b.last ELSE 0
            sum == b.tokens + earned
<1>1. b \in Bucket /\ b.tokens \in Int /\ b.last \in Int /\ b.lastEvent \in Nat /\ t \in Int
  BY SMT DEF HttpInv, LimiterTypeOK, Bucket, HttpTypeOK
<1>2. Capacity(key) \in Nat
  BY CapacityFacts
<1>3. earned \in Nat /\ sum \in Int
  BY <1>1, SMT
<1>4. Advanced(key, t) = [b EXCEPT !.tokens = Min({Capacity(key), sum}), !.last = t]
  BY DEF Advanced
<1>. HIDE DEF sum
<1>5. Min({Capacity(key), sum}) = IF Capacity(key) <= sum THEN Capacity(key) ELSE sum
  BY <1>2, <1>3, MinMax, SMT
<1>. DEFINE capped == IF Capacity(key) <= sum THEN Capacity(key) ELSE sum
<1>6. /\ Advanced(key, t).tokens = capped
      /\ Advanced(key, t).last = t
      /\ Advanced(key, t).lastEvent = b.lastEvent
      /\ Advanced(key, t) \in Bucket
  <2>1. capped \in Int
    BY <1>2, <1>3, SMT
  <2>2. Advanced(key, t) = [b EXCEPT !.tokens = capped, !.last = t]
    BY <1>4, <1>5
  <2>. HIDE DEF capped, b
  <2>. QED
    BY <1>1, <2>1, <2>2 DEF Bucket
<1>7. ASSUME NEW x \in Nat, NEW n \in Int, n <= Capacity(key), n <= Holds(b, x)
      PROVE  n <= Holds(Advanced(key, t), x)
  <2>1. Holds(Advanced(key, t), x) = Advanced(key, t).tokens + (IF x > t THEN x - t ELSE 0)
    BY <1>6 DEF Holds, Earned
  <2>2. Holds(b, x) = b.tokens + (IF x > b.last THEN x - b.last ELSE 0)
    BY DEF Holds, Earned
  <2>. QED
    BY <1>1, <1>2, <1>3, <1>6, <1>7, <2>1, <2>2, SMT DEF sum
<1>. QED
  BY <1>2, <1>3, <1>6, <1>7, SMT

\* A token is taken.
LEMMA ReservedFacts ==
    ASSUME HttpInv, NEW key \in BucketKeys, NEW t \in 0..clock
    PROVE  /\ Taken(key, t).tokens = Advanced(key, t).tokens - Interval(key)
           /\ WaitFor(Taken(key, t)) \in Nat
           /\ - Taken(key, t).tokens <= WaitFor(Taken(key, t))
           /\ Reserved(key, t) \in Bucket
           /\ Reserved(key, t).tokens = Advanced(key, t).tokens - Interval(key)
           /\ Reserved(key, t).tokens <= Capacity(key)
           /\ Reserved(key, t).last = t
           /\ Reserved(key, t).lastEvent = t + WaitFor(Taken(key, t))
<1>. DEFINE a == Advanced(key, t)
            taken == Taken(key, t)
<1>1. /\ a \in Bucket /\ a.last = t /\ a.tokens <= Capacity(key)
      /\ a.tokens \in Int /\ t \in Nat
  BY AdvancedFacts, SMT DEF Bucket, HttpInv, HttpTypeOK
<1>2. Interval(key) \in Nat /\ Capacity(key) \in Nat
  BY CapacityFacts
<1>3. taken = [a EXCEPT !.tokens = a.tokens - Interval(key)]
  BY DEF Taken
<1>4. /\ taken \in Bucket /\ taken.tokens = a.tokens - Interval(key)
      /\ taken.tokens \in Int /\ taken.last = t
  BY <1>1, <1>2, <1>3, SMT DEF Bucket
<1>5. WaitFor(taken) \in Nat /\ - taken.tokens <= WaitFor(taken)
  BY <1>4, SMT DEF WaitFor
<1>6. Reserved(key, t) = [taken EXCEPT !.lastEvent = t + WaitFor(taken)]
  BY DEF Reserved
<1>. HIDE DEF a, taken
<1>7. /\ Reserved(key, t).tokens = taken.tokens /\ Reserved(key, t).last = t
      /\ Reserved(key, t).lastEvent = t + WaitFor(taken) /\ Reserved(key, t) \in Bucket
  BY <1>1, <1>4, <1>5, <1>6, SMT DEF Bucket
<1>8. Reserved(key, t).tokens <= Capacity(key)
  BY <1>1, <1>2, <1>4, <1>7, SMT
<1>. QED
  BY <1>4, <1>5, <1>7, <1>8 DEF a, taken

\* A reservation is given back.
LEMMA CancelledFacts ==
    ASSUME HttpInv, NEW key \in BucketKeys, NEW t \in 0..clock, NEW timeToAct \in Nat
    PROVE  /\ Restored(key, timeToAct) \in Int
           /\ Cancelled(key, t, timeToAct) \in Bucket
           /\ Cancelled(key, t, timeToAct).last = t
           /\ Cancelled(key, t, timeToAct).tokens <= Capacity(key)
           /\ Cancelled(key, t, timeToAct).tokens =
                 IF Capacity(key) <= Advanced(key, t).tokens + Restored(key, timeToAct)
                 THEN Capacity(key) ELSE Advanced(key, t).tokens + Restored(key, timeToAct)
<1>. DEFINE b == Advanced(key, t)
            previous == timeToAct - Interval(key)
            sum == b.tokens + Restored(key, timeToAct)
<1>1. /\ b \in Bucket /\ b.last = t /\ b.tokens \in Int /\ b.lastEvent \in Nat
      /\ b.lastEvent = buckets[key].lastEvent /\ t \in Nat /\ t \in 0..clock
  BY AdvancedFacts, SMT DEF Bucket, HttpInv, HttpTypeOK
<1>2. Interval(key) \in Nat /\ Capacity(key) \in Nat
  BY CapacityFacts
<1>3. Restored(key, timeToAct) \in Int /\ sum \in Int /\ previous \in Int
  BY <1>1, <1>2, SMT DEF Restored
<1>4. Cancelled(key, t, timeToAct) =
         [b EXCEPT !.tokens = Min({Capacity(key), sum}),
                   !.lastEvent = IF timeToAct = b.lastEvent /\ previous >= t
                                 THEN previous ELSE b.lastEvent]
  BY DEF Cancelled
<1>5. Min({Capacity(key), sum}) = IF Capacity(key) <= sum THEN Capacity(key) ELSE sum
  <2>. HIDE DEF sum
  <2>. QED
    BY <1>2, <1>3, MinMax, SMT
<1>. DEFINE event == IF timeToAct = b.lastEvent /\ previous >= t THEN previous ELSE b.lastEvent
<1>6. event \in Nat
  BY <1>1, <1>3, SMT
<1>. HIDE DEF b, sum, event
<1>7. Cancelled(key, t, timeToAct) =
         [b EXCEPT !.tokens = IF Capacity(key) <= sum THEN Capacity(key) ELSE sum,
                   !.lastEvent = event]
  BY <1>4, <1>5 DEF event
<1>. DEFINE capped == IF Capacity(key) <= sum THEN Capacity(key) ELSE sum
<1>8. /\ Cancelled(key, t, timeToAct).tokens = capped
      /\ Cancelled(key, t, timeToAct).last = t
      /\ Cancelled(key, t, timeToAct) \in Bucket
  <2>1. capped \in Int
    BY <1>2, <1>3, SMT
  <2>2. Cancelled(key, t, timeToAct) = [b EXCEPT !.tokens = capped, !.lastEvent = event]
    BY <1>7
  <2>. HIDE DEF capped
  <2>. QED
    BY <1>1, <1>6, <2>1, <2>2 DEF Bucket
<1>9. Cancelled(key, t, timeToAct).tokens <= Capacity(key)
  BY <1>2, <1>3, <1>8, SMT
<1>. QED
  BY <1>3, <1>8, <1>9 DEF sum, b

----------------------------------------------------------------------------
(* The life of a request: types, and what was refused at the door *)

RequestInv == \A r \in HttpRequests : AtLimiter(r) /\ RunInv(r)

DoorStatuses == {400, 401, 403, 413, 415, 429}

\* The status of a check is a number, and no answer of the application is one of
\* the statuses of the checks before it but for invalid input.
LEMMA Statuses ==
    /\ \A x : Gate(x) \in Nat /\ InputError(x) \in Nat
    /\ \A route : HandlerStatuses(route) \subseteq Nat /\ HandlerStatuses(route) \cap DoorStatuses = {}
<1>1. \A x : Gate(x) \in Nat /\ InputError(x) \in Nat
  BY SMT DEF Gate, InputError, BodyLimit, BodyError, ConstructorError
<1>2. \A kind : ErrorStatus(kind) \in {422, 409, 404, 502, 504, 500}
  BY SMT DEF ErrorStatus
<1>3. \A route, status : SuccessStatus(route, status) \in {200, 201, 202}
  BY SMT DEF SuccessStatus
<1>4. \A route : HandlerStatuses(route) \subseteq {200, 201, 202, 422, 409, 404, 502, 504, 500}
  BY <1>2, <1>3, SMT DEF HandlerStatuses
<1>5. {200, 201, 202, 422, 409, 404, 502, 504, 500} \cap DoorStatuses = {}
  BY SMT DEF DoorStatuses
<1>. QED
  BY <1>1, <1>4, <1>5, SMT

\* A request moves on outside the limiter.
LEMMA OutsideStep ==
    ASSUME HttpInv, NEW r \in HttpRequests, NEW step \in Steps \ {"clock", "allow", "reserve", "cancel"},
           NEW x \in Exchanges \cup {NoExchange}, NEW status \in Nat,
           GoTo(r, step),
           exchange' = [exchange EXCEPT ![r] = x],
           answer' = [answer EXCEPT ![r] = status],
           ran' \in {ran, ran \cup {r}, ran \ {r}},
           r \in ran' => step \in {"handle", "answered"},
           step # "answered" => status = 0,
           status \in DoorStatuses => r \notin ran',
           UNCHANGED <<clock, buckets, bucketOf, sampledAt, reservation, limiterHistory>>
    PROVE  HttpTypeOK' /\ LimiterTypeOK' /\ RequestInv' /\ RefusedBeforeRunning'
<1>1. HttpTypeOK /\ LimiterTypeOK /\ RequestInv /\ RefusedBeforeRunning
  BY DEF HttpInv, RequestInv
<1>2. LimiterTypeOK'
  BY <1>1 DEF LimiterTypeOK, Bucket, limiterHistory
<1>3. HttpTypeOK'
  BY <1>1 DEF HttpTypeOK, GoTo, limiterHistory, Capacity, Interval
<1>4. ASSUME NEW q \in HttpRequests
      PROVE  /\ AtLimiter(q)' /\ RunInv(q)'
             /\ answer'[q] \in DoorStatuses => q \notin ran'
  <2>1. CASE q = r
    <3>1. pc'[r] = step /\ answer'[r] = status
      BY <1>1 DEF GoTo, HttpTypeOK
    <3>. QED
      BY <2>1, <3>1, SMT DEF AtLimiter, RunInv, DoorStatuses
  <2>2. CASE q # r
    <3>1. pc'[q] = pc[q] /\ answer'[q] = answer[q] /\ bucketOf' = bucketOf /\ (q \in ran' <=> q \in ran)
      BY <1>1, <2>2 DEF GoTo, HttpTypeOK
    <3>. QED
      BY <1>1, <3>1, SMT DEF RequestInv, AtLimiter, RunInv, RefusedBeforeRunning, DoorStatuses
  <2>. QED
    BY <2>1, <2>2
<1>. QED
  BY <1>2, <1>3, <1>4 DEF RequestInv, RefusedBeforeRunning, DoorStatuses

\* A request moves on within the limiter.
LEMMA InsideStep ==
    ASSUME HttpInv, NEW r \in HttpRequests, NEW step \in Steps \ {"answered", "handle"},
           pc[r] \in {"clock", "allow", "reserve", "cancel"},
           GoTo(r, step), UNCHANGED <<clock, exchange, answer, ran>>,
           sampledAt' \in [HttpRequests -> 0..clock],
           LimiterTypeOK',
           \A key \in BucketKeys : buckets'[key].tokens <= Capacity(key),
           \/ bucketOf' = bucketOf
           \/ bucketOf' = [bucketOf EXCEPT ![r] = NoKey] /\ step \in {"admitted", "limited"}
    PROVE  HttpTypeOK' /\ RequestInv' /\ RefusedBeforeRunning'
<1>1. HttpTypeOK /\ LimiterTypeOK /\ RequestInv /\ RefusedBeforeRunning
  BY DEF HttpInv, RequestInv
<1>2. HttpTypeOK'
  <2>1. \A key \in BucketKeys : /\ buckets'[key].tokens <= Capacity(key)
                                /\ buckets'[key].last \in 0..clock'
                                /\ buckets'[key].lastEvent \in Nat
    BY DEF LimiterTypeOK, Bucket
  <2>2. /\ bucketOf' \in [HttpRequests -> BucketKeys \cup {NoKey}]
        /\ pc' \in [HttpRequests -> Steps] /\ clock' \in 0..MaxTime
        /\ sampledAt' \in [HttpRequests -> 0..clock']
    BY <1>1 DEF HttpTypeOK, GoTo
  <2>. QED
    BY <1>1, <2>1, <2>2 DEF HttpTypeOK, Capacity, Interval
<1>3. ASSUME NEW q \in HttpRequests PROVE AtLimiter(q)' /\ RunInv(q)'
  <2>1. CASE q = r
    <3>1. pc'[r] = step /\ (bucketOf'[r] = bucketOf[r] \/ step \in {"admitted", "limited"})
      BY <1>1 DEF GoTo, HttpTypeOK
    <3>. QED
      BY <1>1, <2>1, <3>1 DEF RequestInv, AtLimiter, RunInv
  <2>2. CASE q # r
    <3>1. pc'[q] = pc[q] /\ bucketOf'[q] = bucketOf[q]
      BY <1>1, <2>2 DEF GoTo, HttpTypeOK
    <3>. QED
      BY <1>1, <3>1 DEF RequestInv, AtLimiter, RunInv
  <2>. QED
    BY <2>1, <2>2
<1>4. answer' = answer /\ ran' = ran
  OBVIOUS
<1>5. RefusedBeforeRunning'
  BY <1>1, <1>4, SMT DEF RefusedBeforeRunning
<1>. QED
  BY <1>2, <1>3, <1>5 DEF RequestInv

\* Types, the bound on a bucket and the answers, whatever happens.
LEMMA RequestSteps ==
    ASSUME HttpInv, [HttpNext]_httpVars
    PROVE  HttpTypeOK' /\ LimiterTypeOK' /\ RequestInv' /\ RefusedBeforeRunning'
<1>. DEFINE Goal == HttpTypeOK' /\ LimiterTypeOK' /\ RequestInv' /\ RefusedBeforeRunning'
<1>1. HttpTypeOK /\ LimiterTypeOK /\ RequestInv /\ RefusedBeforeRunning
  BY DEF HttpInv, RequestInv
<1>2. Never \in Nat
  <2>1. TicksPerSecond \in Nat /\ MaxTime \in Nat
    BY RateLimitAssumption, MaxTimeAssumption DEF RateLimitConfigValid
  <2>2. TicksPerSecond * MaxTime \in Nat
    BY <2>1, SMT
  <2>. QED
    BY <2>1, <2>2, SMT DEF Never
<1>3. ASSUME NEW r \in HttpRequests, NEW x \in Exchanges, Arrive(r, x) PROVE Goal
  <2>1. CASE Gate(x) = 0 /\ FindBucket(r, <<Principal(x.credential), RouteClass(x.route)>>)
             /\ UNCHANGED answer
    <3>. DEFINE key == <<Principal(x.credential), RouteClass(x.route)>>
    <3>1. key \in BucketKeys
      BY PrincipalsAssumption DEF BucketKeys, Principal, RouteClass, RouteClasses
    <3>. HIDE DEF key
    <3>2. /\ pc[r] = "new" /\ pc' = [pc EXCEPT ![r] = "clock"]
          /\ bucketOf' = [bucketOf EXCEPT ![r] = key]
          /\ exchange' = [exchange EXCEPT ![r] = x]
          /\ UNCHANGED <<clock, buckets, sampledAt, reservation, limiterHistory, answer, ran>>
      BY <1>3, <2>1 DEF Arrive, FindBucket, GoTo, key
    <3>3. LimiterTypeOK'
      BY <1>1, <3>2 DEF LimiterTypeOK, Bucket, limiterHistory
    <3>4. HttpTypeOK'
      BY <1>1, <3>1, <3>2 DEF HttpTypeOK, Steps, Capacity, Interval
    <3>5. RequestInv' /\ RefusedBeforeRunning'
      BY <1>1, <3>1, <3>2 DEF HttpTypeOK, RequestInv, AtLimiter, RunInv, RefusedBeforeRunning
    <3>. QED
      BY <3>3, <3>4, <3>5
  <2>2. CASE Gate(x) # 0 /\ Answer(r, Gate(x))
             /\ UNCHANGED <<clock, buckets, bucketOf, sampledAt, reservation, limiterHistory>>
    <3>1. /\ GoTo(r, "answered") /\ answer' = [answer EXCEPT ![r] = Gate(x)]
          /\ exchange' = [exchange EXCEPT ![r] = x] /\ ran' = ran /\ pc[r] = "new"
      BY <1>3, <2>2 DEF Arrive, Answer
    <3>2. r \notin ran /\ Gate(x) \in Nat
      BY <1>1, <3>1, Statuses DEF RequestInv, RunInv
    <3>. QED
      BY <2>2, <3>1, <3>2, OutsideStep DEF Steps
  <2>. QED
    BY <1>3, <2>1, <2>2 DEF Arrive
<1>4. ASSUME NEW r \in HttpRequests, ReadClock(r), UNCHANGED <<exchange, answer, ran>> PROVE Goal
  <2>1. LimiterTypeOK'
    BY <1>1, <1>4 DEF ReadClock, LimiterTypeOK, Bucket, limiterHistory
  <2>2. sampledAt' \in [HttpRequests -> 0..clock]
    BY <1>1, <1>4, MaxTimeAssumption, SMT DEF ReadClock, HttpTypeOK
  <2>3. \A key \in BucketKeys : buckets'[key].tokens <= Capacity(key)
    BY <1>1, <1>4 DEF ReadClock, HttpTypeOK
  <2>. QED
    BY <1>4, <2>1, <2>2, <2>3, InsideStep DEF ReadClock, Steps
<1>5. ASSUME NEW r \in HttpRequests, pc[r] \in {"allow", "reserve", "cancel"}
      PROVE  bucketOf[r] \in BucketKeys /\ sampledAt[r] \in 0..clock /\ reservation[r] \in Nat
  BY <1>1, <1>5 DEF RequestInv, AtLimiter, HttpTypeOK, LimiterTypeOK
<1>6. ASSUME NEW r \in HttpRequests, NEW b \in Bucket, pc[r] \in {"allow", "reserve", "cancel"},
             b.tokens <= Capacity(bucketOf[r]), clock' = clock,
             buckets' \in {buckets, [buckets EXCEPT ![bucketOf[r]] = b]}
      PROVE  /\ buckets' \in [BucketKeys -> Bucket] /\ Bucket' = Bucket
             /\ \A key \in BucketKeys : buckets'[key].tokens <= Capacity(key)
  <2>1. \A key \in BucketKeys : buckets'[key] = buckets[key] \/ (key = bucketOf[r] /\ buckets'[key] = b)
    BY <1>1, <1>5, <1>6 DEF LimiterTypeOK
  <2>2. buckets' \in [BucketKeys -> Bucket] /\ Bucket' = Bucket
    BY <1>1, <1>6 DEF LimiterTypeOK, Bucket
  <2>. QED
    BY <1>1, <1>6, <2>1, <2>2 DEF HttpTypeOK
<1>7. ASSUME NEW r \in HttpRequests, Allow(r), UNCHANGED <<exchange, answer, ran>> PROVE Goal
  <2>. DEFINE key == bucketOf[r]
              b == Reserved(key, sampledAt[r])
  <2>1. pc[r] = "allow" /\ key \in BucketKeys /\ sampledAt[r] \in 0..clock
    BY <1>5, <1>7 DEF Allow
  <2>2. b \in Bucket /\ b.tokens <= Capacity(key)
    BY <2>1, ReservedFacts
  <2>3. /\ buckets' = [buckets EXCEPT ![key] = b] /\ clock' = clock /\ Return(r, "admitted")
        /\ pledged' = [q \in HttpRequests |-> IF bucketOf[q] = key THEN Never ELSE pledged[q]]
        /\ promised' = [promised EXCEPT ![key] = Never] /\ overlapped' = overlapped
    BY <1>7 DEF Allow
  <2>. HIDE DEF b
  <2>4. /\ buckets' \in [BucketKeys -> Bucket] /\ Bucket' = Bucket
        /\ \A k \in BucketKeys : buckets'[k].tokens <= Capacity(k)
    BY <1>6, <2>1, <2>2, <2>3
  <2>5. LimiterTypeOK'
    BY <1>1, <1>2, <2>1, <2>3, <2>4 DEF LimiterTypeOK, Return
  <2>6. sampledAt' \in [HttpRequests -> 0..clock]
    BY <1>1, <2>1, <2>3, SMT DEF Return, HttpTypeOK
  <2>. QED
    BY <1>7, <2>1, <2>3, <2>4, <2>5, <2>6, InsideStep DEF Return, Steps
<1>8. ASSUME NEW r \in HttpRequests, Refuse(r), UNCHANGED <<exchange, answer, ran>> PROVE Goal
  <2>1. pc[r] = "allow" /\ bucketOf[r] \in BucketKeys
    BY <1>5, <1>8 DEF Refuse
  <2>2. LimiterTypeOK'
    BY <1>1, <1>8, <2>1 DEF Refuse, LimiterTypeOK, Bucket
  <2>3. \A key \in BucketKeys : buckets'[key].tokens <= Capacity(key)
    BY <1>1, <1>8 DEF Refuse, HttpTypeOK
  <2>4. sampledAt' \in [HttpRequests -> 0..clock]
    BY <1>1, <1>8 DEF Refuse, HttpTypeOK
  <2>. QED
    BY <1>8, <2>1, <2>2, <2>3, <2>4, InsideStep DEF Refuse, Steps
<1>9. ASSUME NEW r \in HttpRequests, ReserveNext(r), UNCHANGED <<exchange, answer, ran>> PROVE Goal
  <2>. DEFINE key == bucketOf[r]
              b == Reserved(key, sampledAt[r])
              delay == Seconds(b.lastEvent - sampledAt[r])
  <2>1. pc[r] = "reserve" /\ key \in BucketKeys /\ sampledAt[r] \in 0..clock /\ sampledAt[r] \in Nat
    BY <1>5, <1>9, SMT DEF ReserveNext
  <2>2. /\ b \in Bucket /\ b.tokens <= Capacity(key) /\ b.lastEvent \in Nat
        /\ b.lastEvent - sampledAt[r] \in Nat
    <3>1. b \in Bucket /\ b.tokens <= Capacity(key)
          /\ b.lastEvent = sampledAt[r] + WaitFor(Taken(key, sampledAt[r]))
          /\ WaitFor(Taken(key, sampledAt[r])) \in Nat
      BY <2>1, ReservedFacts
    <3>. QED
      BY <2>1, <3>1, SMT
  <2>3. sampledAt[r] + delay * TicksPerSecond \in Nat
    <3>. DEFINE wait == b.lastEvent - sampledAt[r]
    <3>1. wait \in Nat
      BY <2>2
    <3>. HIDE DEF wait
    <3>2. Seconds(wait) * TicksPerSecond \in Nat
      BY <3>1, SecondsCover
    <3>3. delay * TicksPerSecond \in Nat
      BY <3>2 DEF wait
    <3>. QED
      BY <2>1, <3>3, SMT
  <2>4. /\ buckets' = [buckets EXCEPT ![key] = b] /\ GoTo(r, "cancel")
        /\ pledged' = [pledged EXCEPT ![r] = sampledAt[r] + delay * TicksPerSecond]
        /\ reservation' = [reservation EXCEPT ![r] = b.lastEvent]
        /\ UNCHANGED <<clock, bucketOf, sampledAt, promised, overlapped>>
    BY <1>9 DEF ReserveNext
  <2>. HIDE DEF b, delay
  <2>5. /\ buckets' \in [BucketKeys -> Bucket] /\ Bucket' = Bucket
        /\ \A k \in BucketKeys : buckets'[k].tokens <= Capacity(k)
    BY <1>6, <2>1, <2>2, <2>4
  <2>6. LimiterTypeOK'
    BY <1>1, <2>2, <2>3, <2>4, <2>5 DEF LimiterTypeOK
  <2>7. sampledAt' \in [HttpRequests -> 0..clock]
    BY <1>1, <2>4 DEF HttpTypeOK
  <2>. QED
    BY <1>9, <2>1, <2>4, <2>5, <2>6, <2>7, InsideStep DEF Steps
<1>10. ASSUME NEW r \in HttpRequests, CancelReservation(r), UNCHANGED <<exchange, answer, ran>>
       PROVE  Goal
  <2>. DEFINE key == bucketOf[r]
              b == Cancelled(key, sampledAt[r], reservation[r])
  <2>1. pc[r] = "cancel" /\ key \in BucketKeys /\ sampledAt[r] \in 0..clock /\ reservation[r] \in Nat
    BY <1>5, <1>10 DEF CancelReservation
  <2>2. b \in Bucket /\ b.tokens <= Capacity(key)
    BY <2>1, CancelledFacts
  <2>3. /\ buckets' \in {buckets, [buckets EXCEPT ![key] = b]} /\ Promise(r)
        /\ UNCHANGED <<clock, overlapped>>
    BY <1>10 DEF CancelReservation
  <2>. HIDE DEF b
  <2>4. /\ buckets' \in [BucketKeys -> Bucket] /\ Bucket' = Bucket
        /\ \A k \in BucketKeys : buckets'[k].tokens <= Capacity(k)
    BY <1>6, <2>1, <2>2, <2>3
  <2>5. Min({promised[key], pledged[r]}) \in Nat
    BY <1>1, <2>1, MinMax, SMT DEF LimiterTypeOK
  <2>6. LimiterTypeOK'
    BY <1>1, <1>2, <2>1, <2>3, <2>4, <2>5 DEF LimiterTypeOK, Promise, Return
  <2>7. sampledAt' \in [HttpRequests -> 0..clock]
    BY <1>1, <2>1, <2>3, SMT DEF Promise, Return, HttpTypeOK
  <2>. QED
    BY <1>10, <2>1, <2>3, <2>4, <2>6, <2>7, InsideStep DEF Promise, Return, Steps
<1>11. ASSUME NEW r \in HttpRequests, TooManyRequests(r) PROVE Goal
  <2>1. r \notin ran /\ pc[r] = "limited"
    BY <1>1, <1>11 DEF TooManyRequests, RequestInv, RunInv
  <2>2. exchange' = [exchange EXCEPT ![r] = exchange[r]] /\ exchange[r] \in Exchanges \cup {NoExchange}
    BY <1>1, <1>11 DEF TooManyRequests, HttpTypeOK
  <2>3. /\ GoTo(r, "answered") /\ answer' = [answer EXCEPT ![r] = 429] /\ ran' = ran
        /\ UNCHANGED <<clock, buckets, bucketOf, sampledAt, reservation, limiterHistory>>
    BY <1>11 DEF TooManyRequests, Answer
  <2>4. 429 \in Nat /\ "answered" \in Steps \ {"clock", "allow", "reserve", "cancel"}
    BY SMT DEF Steps
  <2>. QED
    BY <2>1, <2>2, <2>3, <2>4, OutsideStep, ZenonT(30)
<1>12. ASSUME NEW r \in HttpRequests, CallApplication(r) PROVE Goal
  <2>1. r \notin ran /\ pc[r] = "admitted" /\ answer[r] = 0
    BY <1>1, <1>12 DEF CallApplication, RequestInv, RunInv
  <2>2. exchange' = [exchange EXCEPT ![r] = exchange[r]] /\ exchange[r] \in Exchanges \cup {NoExchange}
        /\ UNCHANGED <<clock, buckets, bucketOf, sampledAt, reservation, limiterHistory>>
    BY <1>1, <1>12 DEF CallApplication, HttpTypeOK
  <2>3. CASE GoTo(r, "handle") /\ ran' = ran \cup {r} /\ UNCHANGED answer
    <3>1. answer' = [answer EXCEPT ![r] = 0]
      BY <1>1, <2>1, <2>3 DEF HttpTypeOK
    <3>2. 0 \notin DoorStatuses
      BY SMT DEF DoorStatuses
    <3>. QED
      <4>1. 0 \in Nat /\ "handle" \in Steps \ {"clock", "allow", "reserve", "cancel"}
        BY DEF Steps
      <4>2. ran' \in {ran, ran \cup {r}, ran \ {r}} /\ GoTo(r, "handle")
        BY <2>3
      <4>. QED
        BY <2>2, <3>1, <3>2, <4>1, <4>2, OutsideStep
  <2>4. CASE Answer(r, InputError(exchange[r])) /\ UNCHANGED ran
    <3>1. InputError(exchange[r]) \in Nat
      BY Statuses
    <3>. QED
      BY <2>1, <2>2, <2>4, <3>1, OutsideStep DEF Answer, Steps
  <2>. QED
    BY <1>12, <2>3, <2>4 DEF CallApplication
<1>13. ASSUME NEW r \in HttpRequests, Respond(r) PROVE Goal
  <2>1. PICK status \in HandlerStatuses(exchange[r].route) : Answer(r, status)
    BY <1>13 DEF Respond
  <2>2. status \in Nat /\ status \notin DoorStatuses
    BY <2>1, Statuses
  <2>3. exchange' = [exchange EXCEPT ![r] = exchange[r]] /\ exchange[r] \in Exchanges \cup {NoExchange}
        /\ UNCHANGED <<clock, buckets, bucketOf, sampledAt, reservation, limiterHistory, ran>>
    BY <1>1, <1>13 DEF Respond, HttpTypeOK
  <2>. QED
    BY <2>1, <2>2, <2>3, OutsideStep DEF Answer, Steps
<1>14. ASSUME NEW r \in HttpRequests, AbortHandler(r) \/ Leave(r) PROVE Goal
  <2>1. Forget(r)
    BY <1>14 DEF AbortHandler, Leave
  <2>2. 0 \notin DoorStatuses
    BY SMT DEF DoorStatuses
  <2>. QED
    BY <2>1, <2>2, OutsideStep DEF Forget, Steps
<1>15. CASE TimePasses
  <2>1. /\ clock \in 0..MaxTime /\ clock' = clock + 1 /\ clock' \in 0..MaxTime /\ MaxTime \in Nat
        /\ UNCHANGED <<buckets, pc, bucketOf, sampledAt, reservation, limiterHistory,
                       exchange, answer, ran>>
    BY <1>1, <1>15, MaxTimeAssumption, SMT DEF TimePasses, Tick, HttpTypeOK
  <2>2. \A n \in 0..clock : n \in 0..clock'
    BY <2>1, SMT
  <2>3. LimiterTypeOK'
    <3>1. \A b \in Bucket : b \in Bucket'
      BY <2>2 DEF Bucket
    <3>. QED
      BY <1>1, <2>1, <3>1 DEF LimiterTypeOK, limiterHistory
  <2>4. HttpTypeOK'
    BY <1>1, <2>1, <2>2 DEF HttpTypeOK, Capacity, Interval
  <2>5. RequestInv' /\ RefusedBeforeRunning'
    BY <1>1, <2>1 DEF RequestInv, AtLimiter, RunInv, RefusedBeforeRunning
  <2>. QED
    BY <2>3, <2>4, <2>5
<1>16. CASE UNCHANGED httpVars
  <2>1. UNCHANGED <<limiterVars, limiterHistory, exchange, answer, ran>>
    BY <1>16 DEF httpVars
  <2>2. LimiterTypeOK'
    BY <1>1, <2>1 DEF LimiterTypeOK, Bucket, limiterHistory, limiterVars
  <2>3. HttpTypeOK'
    BY <1>1, <2>1 DEF HttpTypeOK, Capacity, Interval, limiterVars
  <2>4. RequestInv' /\ RefusedBeforeRunning'
    BY <1>1, <2>1 DEF RequestInv, AtLimiter, RunInv, RefusedBeforeRunning, limiterVars
  <2>. QED
    BY <2>2, <2>3, <2>4
<1>. QED
  BY <1>3, <1>4, <1>7, <1>8, <1>9, <1>10, <1>11, <1>12, <1>13, <1>14, <1>15, <1>16
  DEF HttpNext, Limit, Reserve, Finished

----------------------------------------------------------------------------
(* Retry-After *)

\* NoKey is no bucket.
LEMMA NoKeyIsNone == NoKey \notin BucketKeys
<1>1. ASSUME NEW principal, NEW class PROVE <<principal, class>> # <<>>
  OBVIOUS
<1>. QED
  BY <1>1, SMT DEF NoKey, BucketKeys

\* A step that does not touch a bucket or the requests it turns away.
LEMMA RetryKept ==
    ASSUME NEW key \in BucketKeys, RetryInv(key),
           buckets'[key] = buckets[key], promised'[key] = promised[key],
           overlapped'[key] = overlapped[key],
           Rejecting(key)' = Rejecting(key), Cancelling(key)' = Cancelling(key),
           \A r \in Cancelling(key) : reservation'[r] = reservation[r] /\ pledged'[r] = pledged[r]
    PROVE  RetryInv(key)'
BY DEF RetryInv, Kept, Pending, Interval, Holds, Earned, Never

\* The same, when one request outside of reserve and cancel moves on.
LEMMA RetryQuiet ==
    ASSUME HttpInv, UNCHANGED <<buckets, reservation, pledged, promised, overlapped>>,
           NEW r \in HttpRequests, NEW step,
           pc[r] \notin {"reserve", "cancel"}, step \notin {"reserve", "cancel"}, GoTo(r, step),
           \A q \in HttpRequests \ {r} : bucketOf'[q] = bucketOf[q]
    PROVE  \A key \in BucketKeys : RetryInv(key)'
<1>. SUFFICES ASSUME NEW key \in BucketKeys PROVE RetryInv(key)'
  OBVIOUS
<1>1. pc \in [HttpRequests -> Steps] /\ RetryInv(key)
  BY DEF HttpInv, HttpTypeOK
<1>2. Rejecting(key)' = Rejecting(key) /\ Cancelling(key)' = Cancelling(key)
  BY <1>1 DEF Rejecting, Cancelling, GoTo
<1>. QED
  BY <1>1, <1>2, RetryKept

\* A bucket whose request is not r's does not notice r's step.
LEMMA OtherBucket ==
    ASSUME HttpInv, NEW r \in HttpRequests, bucketOf[r] \in BucketKeys,
           NEW step, GoTo(r, step),
           bucketOf' \in {bucketOf, [bucketOf EXCEPT ![r] = NoKey]},
           NEW key \in BucketKeys, key # bucketOf[r],
           buckets'[key] = buckets[key], promised'[key] = promised[key],
           overlapped'[key] = overlapped[key],
           \A q \in HttpRequests \ {r} : reservation'[q] = reservation[q],
           \A q \in Cancelling(key) : pledged'[q] = pledged[q]
    PROVE  RetryInv(key)'
<1>1. /\ pc \in [HttpRequests -> Steps] /\ RetryInv(key)
      /\ bucketOf \in [HttpRequests -> BucketKeys \cup {NoKey}]
  BY DEF HttpInv, HttpTypeOK
<1>2. key # NoKey
  BY NoKeyIsNone
<1>3. Rejecting(key)' = Rejecting(key) /\ Cancelling(key)' = Cancelling(key) /\ r \notin Cancelling(key)
  BY <1>1, <1>2 DEF Rejecting, Cancelling, GoTo
<1>. QED
  BY <1>1, <1>3, RetryKept DEF Cancelling

\* A token is taken at once: whatever was promised or is about to be is void.
LEMMA AllowRetry ==
    ASSUME HttpInv, NEW r \in HttpRequests, Allow(r)
    PROVE  \A key \in BucketKeys : RetryInv(key)'
<1>. PICK k \in BucketKeys : k = bucketOf[r]
  BY DEF HttpInv, AtLimiter, Allow
<1>1. /\ pc \in [HttpRequests -> Steps] /\ LimiterTypeOK /\ k \in BucketKeys /\ pc[r] = "allow"
      /\ bucketOf \in [HttpRequests -> BucketKeys \cup {NoKey}]
  BY DEF HttpInv, HttpTypeOK, Allow
<1>2. /\ GoTo(r, "admitted") /\ bucketOf' = [bucketOf EXCEPT ![r] = NoKey]
      /\ buckets' = [buckets EXCEPT ![k] = Reserved(k, sampledAt[r])]
      /\ pledged' = [q \in HttpRequests |-> IF bucketOf[q] = k THEN Never ELSE pledged[q]]
      /\ promised' = [promised EXCEPT ![k] = Never] /\ overlapped' = overlapped
      /\ reservation' = [reservation EXCEPT ![r] = 0]
  BY DEF Allow, Return
<1>3. ASSUME NEW key \in BucketKeys, key # k PROVE RetryInv(key)'
  <2>1. \A q \in Cancelling(key) : pledged'[q] = pledged[q]
    BY <1>2, <1>3 DEF Cancelling
  <2>2. \A q \in HttpRequests \ {r} : reservation'[q] = reservation[q]
    BY <1>1, <1>2 DEF LimiterTypeOK
  <2>3. buckets'[key] = buckets[key] /\ promised'[key] = promised[key] /\ overlapped'[key] = overlapped[key]
    BY <1>1, <1>2, <1>3 DEF LimiterTypeOK
  <2>. QED
    BY <1>1, <1>2, <1>3, <2>1, <2>2, <2>3, OtherBucket
<1>4. RetryInv(k)'
  <2>1. Rejecting(k)' = Rejecting(k) /\ Cancelling(k)' \subseteq Cancelling(k)
    BY <1>1, <1>2 DEF Rejecting, Cancelling, GoTo
  <2>2. promised'[k] = Never /\ Never' = Never
    BY <1>1, <1>2 DEF LimiterTypeOK, Never
  <2>3. \A q \in Cancelling(k) : pledged'[q] = Never
    BY <1>2 DEF Cancelling
  <2>4. RetryInv(k)
    BY <1>1 DEF HttpInv
  <2>. QED
    BY <1>2, <2>1, <2>2, <2>3, <2>4 DEF RetryInv, Kept, Pending
<1>. QED
  BY <1>3, <1>4

\* A request is turned away: it is alone, or the bucket is overlapped.
LEMMA RefuseRetry ==
    ASSUME HttpInv, NEW r \in HttpRequests, Refuse(r)
    PROVE  \A key \in BucketKeys : RetryInv(key)'
<1>. PICK k \in BucketKeys : k = bucketOf[r]
  BY DEF HttpInv, AtLimiter, Refuse
<1>1. /\ pc \in [HttpRequests -> Steps] /\ LimiterTypeOK /\ k \in BucketKeys /\ pc[r] = "allow"
  BY DEF HttpInv, HttpTypeOK, Refuse
<1>2. /\ GoTo(r, "reserve")
      /\ overlapped' = [overlapped EXCEPT ![k] = @ \/ Rejecting(k) # {}]
      /\ UNCHANGED <<buckets, bucketOf, reservation, pledged, promised>>
  BY DEF Refuse
<1>3. ASSUME NEW key \in BucketKeys, key # k PROVE RetryInv(key)'
  <2>1. overlapped'[key] = overlapped[key]
    BY <1>1, <1>2, <1>3 DEF LimiterTypeOK
  <2>. QED
    BY <1>1, <1>2, <1>3, <2>1, OtherBucket
<1>4. RetryInv(k)'
  <2>1. SUFFICES ASSUME ~ overlapped'[k] PROVE RetryInv(k)'
    BY DEF RetryInv
  <2>2. ~ overlapped[k] /\ Rejecting(k) = {}
    BY <1>1, <1>2, <2>1 DEF LimiterTypeOK
  <2>3. Rejecting(k)' = {r} /\ Cancelling(k) = {} /\ Cancelling(k)' = {}
    BY <1>1, <1>2, <2>2 DEF Rejecting, Cancelling, GoTo
  <2>4. Kept(k, promised[k])
    BY <1>1, <2>2, <2>3 DEF HttpInv, RetryInv
  <2>. QED
    BY <1>2, <2>3, <2>4 DEF RetryInv, Kept, Interval, Holds, Earned, Never
<1>. QED
  BY <1>3, <1>4

\* The delay is learned: a token that was promised is there again once the
\* reservation is cancelled, and so is the one the new delay names.
LEMMA ReserveRetry ==
    ASSUME HttpInv, NEW r \in HttpRequests, ReserveNext(r)
    PROVE  \A key \in BucketKeys : RetryInv(key)'
<1>. PICK k \in BucketKeys : k = bucketOf[r]
  BY DEF HttpInv, AtLimiter, ReserveNext
<1>. PICK t \in 0..clock : t = sampledAt[r]
  BY DEF HttpInv, HttpTypeOK
<1>. DEFINE b == Reserved(k, t)
            x == t + Seconds(b.lastEvent - t) * TicksPerSecond
<1>1. /\ pc \in [HttpRequests -> Steps] /\ LimiterTypeOK /\ pc[r] = "reserve" /\ t \in Nat
      /\ RetryInv(k)
  BY SMT DEF HttpInv, HttpTypeOK, ReserveNext
<1>2. /\ GoTo(r, "cancel") /\ buckets' = [buckets EXCEPT ![k] = b]
      /\ reservation' = [reservation EXCEPT ![r] = b.lastEvent]
      /\ pledged' = [pledged EXCEPT ![r] = x]
      /\ UNCHANGED <<bucketOf, promised, overlapped>>
  BY DEF ReserveNext
<1>3. /\ b.tokens = Advanced(k, t).tokens - Interval(k) /\ b.last = t /\ b.tokens \in Int
      /\ b.lastEvent = t + WaitFor(Taken(k, t)) /\ WaitFor(Taken(k, t)) \in Nat
      /\ - b.tokens <= WaitFor(Taken(k, t))
  BY ReservedFacts DEF Bucket
<1>4. x \in Nat /\ t + WaitFor(Taken(k, t)) <= x
  <2>. DEFINE wait == b.lastEvent - t
  <2>1. wait = WaitFor(Taken(k, t)) /\ wait \in Nat
    BY <1>1, <1>3, SMT
  <2>. HIDE DEF wait
  <2>2. Seconds(wait) * TicksPerSecond \in Nat /\ wait <= Seconds(wait) * TicksPerSecond
    BY <2>1, SecondsCover
  <2>3. x = t + Seconds(wait) * TicksPerSecond
    BY DEF wait
  <2>. QED
    BY <1>1, <2>1, <2>2, <2>3, SMT
<1>. HIDE DEF b, x
<1>5. ASSUME NEW key \in BucketKeys, key # k PROVE RetryInv(key)'
  <2>1. \A q \in HttpRequests \ {r} : reservation'[q] = reservation[q] /\ pledged'[q] = pledged[q]
    BY <1>1, <1>2 DEF LimiterTypeOK
  <2>2. r \notin Cancelling(key) /\ Cancelling(key) \subseteq HttpRequests
    BY <1>1 DEF Cancelling
  <2>3. buckets'[key] = buckets[key]
    BY <1>1, <1>2, <1>5 DEF LimiterTypeOK
  <2>. QED
    BY <1>1, <1>2, <1>5, <2>1, <2>2, <2>3, OtherBucket
<1>6. ASSUME ~ overlapped'[k] PROVE RetryInv(k)'
  <2>1. Cancelling(k) = {} /\ \A q \in Rejecting(k) : q = r
    BY <1>1, <1>2, <1>6, SMT DEF RetryInv, Rejecting, Cancelling
  <2>2. Cancelling(k)' = {r} /\ \A q \in Rejecting(k)' : q = r
    BY <1>1, <1>2, <2>1 DEF Rejecting, Cancelling, GoTo
  <2>3. buckets'[k] = b /\ reservation'[r] = b.lastEvent /\ pledged'[r] = x /\ promised' = promised
    BY <1>1, <1>2 DEF LimiterTypeOK
  <2>4. 0 <= Holds(b, x)
    BY <1>1, <1>3, <1>4, SMT DEF Holds, Earned
  <2>5. promised[k] = Never \/ 0 <= Holds(b, promised[k])
    <3>1. CASE promised[k] # Never
      <4>1. Interval(k) <= Holds(buckets[k], promised[k])
        BY <1>1, <1>2, <1>6, <2>1, <3>1 DEF RetryInv, Kept
      <4>2. Interval(k) \in Int /\ Interval(k) <= Capacity(k) /\ promised[k] \in Nat
        BY <1>1, CapacityFacts, SMT DEF LimiterTypeOK
      <4>3. Interval(k) <= Holds(Advanced(k, t), promised[k])
        BY <4>1, <4>2, AdvancedFacts
      <4>4. Advanced(k, t).last = t /\ Advanced(k, t).tokens \in Int
        BY AdvancedFacts DEF Bucket
      <4>. QED
        BY <1>1, <1>3, <4>2, <4>3, <4>4, SMT DEF Holds, Earned
    <3>. QED
      BY <3>1
  <2>6. Never' = Never
    BY DEF Never
  <2>. QED
    BY <2>2, <2>3, <2>4, <2>5, <2>6 DEF RetryInv, Pending, Holds, Earned
<1>7. RetryInv(k)'
  BY <1>6 DEF RetryInv
<1>. QED
  BY <1>5, <1>7

\* The reservation is cancelled and the promise made.
LEMMA CancelRetry ==
    ASSUME HttpInv, NEW r \in HttpRequests, CancelReservation(r)
    PROVE  \A key \in BucketKeys : RetryInv(key)'
<1>. PICK k \in BucketKeys : k = bucketOf[r]
  BY DEF HttpInv, AtLimiter, CancelReservation
<1>. PICK t \in 0..clock : t = sampledAt[r]
  BY DEF HttpInv, HttpTypeOK
<1>. DEFINE b == Cancelled(k, t, reservation[r])
            x == Min({promised[k], pledged[r]})
<1>1. /\ pc \in [HttpRequests -> Steps] /\ LimiterTypeOK /\ pc[r] = "cancel" /\ t \in Nat
      /\ bucketOf \in [HttpRequests -> BucketKeys \cup {NoKey}]
      /\ RetryInv(k) /\ reservation[r] \in Nat
  BY SMT DEF HttpInv, HttpTypeOK, LimiterTypeOK, CancelReservation
<1>2. /\ GoTo(r, "limited") /\ bucketOf' = [bucketOf EXCEPT ![r] = NoKey]
      /\ \/ Restored(k, reservation[r]) > 0 /\ buckets' = [buckets EXCEPT ![k] = b]
         \/ Restored(k, reservation[r]) <= 0 /\ buckets' = buckets
      /\ reservation' = [reservation EXCEPT ![r] = 0]
      /\ promised' = [promised EXCEPT ![k] = x]
      /\ pledged' = [pledged EXCEPT ![r] = Never]
      /\ overlapped' = overlapped
  BY DEF CancelReservation, Promise, Return
<1>3. x \in {promised[k], pledged[r]} /\ x \in Nat
  BY <1>1, MinMax, SMT DEF LimiterTypeOK
<1>4. Restored(k, reservation[r]) \in Int /\ b.last = t /\ b.tokens \in Int
      /\ b.tokens = IF Capacity(k) <= Advanced(k, t).tokens + Restored(k, reservation[r])
                    THEN Capacity(k) ELSE Advanced(k, t).tokens + Restored(k, reservation[r])
  BY <1>1, CancelledFacts, SMT DEF Bucket
<1>. HIDE DEF b, x
<1>5. ASSUME NEW key \in BucketKeys, key # k PROVE RetryInv(key)'
  <2>1. \A q \in HttpRequests \ {r} : reservation'[q] = reservation[q] /\ pledged'[q] = pledged[q]
    BY <1>1, <1>2 DEF LimiterTypeOK
  <2>2. r \notin Cancelling(key) /\ Cancelling(key) \subseteq HttpRequests
    BY <1>5 DEF Cancelling
  <2>3. buckets'[key] = buckets[key] /\ promised'[key] = promised[key]
    BY <1>1, <1>2, <1>5 DEF LimiterTypeOK
  <2>. QED
    BY <1>2, <1>5, <2>1, <2>2, <2>3, OtherBucket
<1>6. ASSUME ~ overlapped'[k] PROVE RetryInv(k)'
  <2>1. r \in Cancelling(k) /\ \A q \in Rejecting(k) : q = r
    BY <1>1, <1>2, <1>6 DEF RetryInv, Rejecting, Cancelling
  <2>2. Rejecting(k)' = {} /\ Cancelling(k)' = {}
    BY <1>1, <1>2, <2>1 DEF Rejecting, Cancelling, GoTo
  <2>3. promised'[k] = x /\ Never' = Never
    BY <1>1, <1>2 DEF LimiterTypeOK, Never
  <2>4. CASE x # Never
    <3>1. buckets[k].lastEvent = reservation[r] /\ 0 <= Holds(buckets[k], x)
      BY <1>1, <1>2, <1>3, <1>6, <2>1, <2>4 DEF RetryInv, Pending
    <3>2. Interval(k) \in Nat /\ Capacity(k) \in Nat /\ Interval(k) <= Capacity(k)
      BY CapacityFacts
    <3>3. Restored(k, reservation[r]) = Interval(k)
      BY <1>1, <3>1, <3>2, SMT DEF Restored
    <3>4. 0 <= Holds(Advanced(k, t), x)
      BY <1>3, <3>1, <3>2, AdvancedFacts, SMT
    <3>5. Advanced(k, t).last = t /\ Advanced(k, t).tokens \in Int
      BY AdvancedFacts DEF Bucket
    <3>6. CASE buckets' = [buckets EXCEPT ![k] = b]
      <4>1. Interval(k) <= Holds(b, x)
        BY <1>1, <1>3, <1>4, <3>2, <3>3, <3>4, <3>5, SMT DEF Holds, Earned
      <4>2. buckets'[k] = b
        BY <1>1, <3>6 DEF LimiterTypeOK
      <4>. QED
        BY <2>2, <2>3, <4>1, <4>2 DEF RetryInv, Kept, Interval, Holds, Earned
    <3>7. CASE Restored(k, reservation[r]) <= 0 /\ buckets' = buckets
      <4>1. Interval(k) <= Holds(buckets[k], x)
        BY <3>1, <3>2, <3>3, <3>7, SMT
      <4>. QED
        BY <2>2, <2>3, <3>7, <4>1 DEF RetryInv, Kept, Interval, Holds, Earned
    <3>. QED
      BY <1>2, <3>6, <3>7
  <2>5. CASE x = Never
    BY <2>2, <2>3, <2>5 DEF RetryInv, Kept
  <2>. QED
    BY <2>4, <2>5
<1>7. RetryInv(k)'
  BY <1>6 DEF RetryInv
<1>. QED
  BY <1>5, <1>7

\* Every step of the limiter keeps what was promised within what is reserved.
LEMMA RetrySteps ==
    ASSUME HttpInv, [HttpNext]_httpVars
    PROVE  \A key \in BucketKeys : RetryInv(key)'
<1>. DEFINE Goal == \A key \in BucketKeys : RetryInv(key)'
<1>1. \A key \in BucketKeys : RetryInv(key)
  BY DEF HttpInv
<1>2. ASSUME NEW r \in HttpRequests, NEW x \in Exchanges, Arrive(r, x) PROVE Goal
  <2>1. /\ pc[r] = "new" /\ (GoTo(r, "clock") \/ GoTo(r, "answered"))
        /\ \A q \in HttpRequests \ {r} : bucketOf'[q] = bucketOf[q]
        /\ UNCHANGED <<buckets, reservation, pledged, promised, overlapped>>
    BY <1>2 DEF Arrive, FindBucket, Answer, limiterHistory, HttpInv, HttpTypeOK
  <2>. QED
    BY <1>2, <2>1, RetryQuiet DEF Arrive
<1>3. ASSUME NEW r \in HttpRequests, ReadClock(r) PROVE Goal
  BY <1>3, RetryQuiet DEF ReadClock, limiterHistory
<1>4. ASSUME NEW r \in HttpRequests, NEW step \in {"answered", "handle", "gone"},
             pc[r] \in {"limited", "admitted", "handle", "answered"},
             GoTo(r, step),
             UNCHANGED <<clock, buckets, bucketOf, sampledAt, reservation, limiterHistory>>
      PROVE  Goal
  BY <1>4, RetryQuiet DEF limiterHistory
<1>5. ASSUME NEW r \in HttpRequests, TooManyRequests(r) \/ CallApplication(r) \/ Respond(r)
                                        \/ AbortHandler(r) \/ Leave(r)
      PROVE  Goal
  BY <1>4, <1>5 DEF TooManyRequests, CallApplication, Respond, AbortHandler, Leave, Forget, Answer
<1>6. CASE UNCHANGED <<buckets, pc, bucketOf, reservation, pledged, promised, overlapped>>
  <2>. SUFFICES ASSUME NEW key \in BucketKeys PROVE RetryInv(key)'
    OBVIOUS
  <2>1. Rejecting(key)' = Rejecting(key) /\ Cancelling(key)' = Cancelling(key)
    BY <1>6 DEF Rejecting, Cancelling
  <2>. QED
    BY <1>1, <1>6, <2>1, RetryKept
<1>7. CASE TimePasses \/ UNCHANGED httpVars
  BY <1>6, <1>7 DEF TimePasses, Tick, httpVars, limiterVars, limiterHistory
<1>. QED
  BY <1>2, <1>3, <1>5, <1>7, AllowRetry, RefuseRetry, ReserveRetry, CancelRetry
  DEF HttpNext, Limit, Reserve, Finished

----------------------------------------------------------------------------
(* The theorems about the request path *)

\* No exchange and no bucket satisfy the invariant.
LEMMA HttpInvInit == HttpInit => HttpInv
<1>. SUFFICES ASSUME HttpInit PROVE HttpInv
  OBVIOUS
<1>1. /\ clock = 0 /\ MaxTime \in Nat /\ TicksPerSecond * MaxTime \in Nat /\ Never \in Nat
  <2>1. TicksPerSecond \in Nat /\ MaxTime \in Nat
    BY RateLimitAssumption, MaxTimeAssumption DEF RateLimitConfigValid
  <2>2. TicksPerSecond * MaxTime \in Nat
    BY <2>1, SMT
  <2>. QED
    BY <2>1, <2>2, SMT DEF Never, HttpInit, LimiterInit
<1>2. ASSUME NEW key \in BucketKeys
      PROVE  /\ buckets[key] = NewBucket(key) /\ NewBucket(key) \in Bucket
             /\ buckets[key].tokens <= Capacity(key) /\ RetryInv(key)
  <2>1. Capacity(key) \in Nat
    BY CapacityFacts
  <2>2. buckets[key] = NewBucket(key)
    BY DEF HttpInit, LimiterInit
  <2>3. NewBucket(key) \in Bucket /\ NewBucket(key).tokens <= Capacity(key)
    BY <1>1, <2>1, SMT DEF NewBucket, Bucket
  <2>4. Rejecting(key) = {} /\ Cancelling(key) = {} /\ promised[key] = Never
    BY DEF Rejecting, Cancelling, HttpInit, LimiterInit
  <2>5. RetryInv(key)
    BY <2>4 DEF RetryInv, Kept
  <2>. QED
    BY <2>2, <2>3, <2>5
<1>3. LimiterTypeOK
  <2>1. buckets \in [BucketKeys -> Bucket]
    BY <1>2 DEF HttpInit, LimiterInit
  <2>. QED
    BY <1>1, <2>1 DEF LimiterTypeOK, HttpInit, LimiterInit
<1>4. HttpTypeOK
  <2>1. \A key \in BucketKeys : /\ buckets[key].tokens <= Capacity(key)
                                /\ buckets[key].last \in 0..clock
                                /\ buckets[key].lastEvent \in Nat
    BY <1>2 DEF Bucket
  <2>. QED
    BY <1>1, <2>1, SMT DEF HttpTypeOK, HttpInit, LimiterInit, Steps
<1>5. \A r \in HttpRequests : AtLimiter(r) /\ RunInv(r)
  BY DEF HttpInit, AtLimiter, RunInv
<1>6. RefusedBeforeRunning
  BY DEF HttpInit, RefusedBeforeRunning
<1>. QED
  BY <1>2, <1>3, <1>4, <1>5, <1>6 DEF HttpInv

\* Every step of the middleware, the handlers and the limiter keeps the invariant.
LEMMA HttpInvStep == HttpInv /\ [HttpNext]_httpVars => HttpInv'
<1>. SUFFICES ASSUME HttpInv, [HttpNext]_httpVars PROVE HttpInv'
  OBVIOUS
<1>1. HttpTypeOK' /\ LimiterTypeOK' /\ RequestInv' /\ RefusedBeforeRunning'
  BY RequestSteps
<1>2. \A key \in BucketKeys : RetryInv(key)'
  BY RetrySteps
<1>. QED
  BY <1>1, <1>2 DEF HttpInv, RequestInv

\* The inductive invariant holds in every state of the API and its limiter.
THEOREM HttpInvariant == HttpSpec => []HttpInv
<1>1. HttpInit => HttpInv
  BY HttpInvInit
<1>2. HttpInv /\ [HttpNext]_httpVars => HttpInv'
  BY HttpInvStep
<1>. QED
  BY <1>1, <1>2, PTL DEF HttpSpec

\* Every request is at a step of its route, and no bucket ever holds more than its
\* burst, however reservations and cancellations interleave.
THEOREM HttpTypeCorrect == HttpSpec => []HttpTypeOK
<1>1. HttpInv => HttpTypeOK
  BY DEF HttpInv
<1>. QED
  BY <1>1, HttpInvariant, PTL

\* No request that reached the application is answered with a status that says
\* it was refused at the door.
THEOREM HttpRefusedBeforeRunning == HttpSpec => []RefusedBeforeRunning
<1>1. HttpInv => RefusedBeforeRunning
  BY DEF HttpInv
<1>. QED
  BY <1>1, HttpInvariant, PTL

\* For all rates and bursts, and however the calls of the bucket interleave: where
\* no two rejections overlap, a caller that comes at the time a Retry-After named,
\* before anyone else took the token, is not rejected.
THEOREM HttpRetryAfterExact == HttpSpec => RetryAfterExact
<1>1. HttpInv /\ [HttpNext]_httpVars =>
         [\A r \in HttpRequests :
             Refused(r) /\ ~overlapped'[bucketOf[r]] => sampledAt[r] < promised[bucketOf[r]]]_httpVars
  <2>. SUFFICES ASSUME HttpInv, HttpNext, NEW r \in HttpRequests, Refused(r),
                       ~ overlapped'[bucketOf[r]]
                PROVE  sampledAt[r] < promised[bucketOf[r]]
    OBVIOUS
  <2>. PICK k \in BucketKeys : k = bucketOf[r]
    BY DEF HttpInv, AtLimiter, Refused
  <2>. PICK s \in 0..clock : s = sampledAt[r]
    BY DEF HttpInv, HttpTypeOK
  <2>1. HttpTypeOK /\ LimiterTypeOK /\ RetryInv(k) /\ clock \in 0..MaxTime /\ s \in Nat
    <3>1. HttpTypeOK /\ LimiterTypeOK /\ RetryInv(k)
      BY DEF HttpInv
    <3>2. clock \in 0..MaxTime
      BY <3>1 DEF HttpTypeOK
    <3>. QED
      BY <3>1, <3>2, MaxTimeAssumption, SMT
  <2>2. Refuse(r)
    <3>1. pc[r] = "allow" /\ pc'[r] = "reserve" /\ pc \in [HttpRequests -> Steps]
      BY <2>1 DEF Refused, HttpTypeOK
    <3>2. ASSUME NEW q \in HttpRequests, Limit(q) PROVE Refuse(r)
      BY <3>1, <3>2 DEF Limit, Reserve, ReadClock, Allow, Refuse, ReserveNext,
                        CancelReservation, Promise, Return, GoTo
    <3>3. ASSUME NEW q \in HttpRequests,
                 \/ \E x \in Exchanges : Arrive(q, x)
                 \/ TooManyRequests(q) \/ CallApplication(q) \/ Respond(q)
                 \/ AbortHandler(q) \/ Leave(q)
          PROVE  FALSE
      BY <3>1, <3>3 DEF Arrive, FindBucket, TooManyRequests, CallApplication, Respond,
                        AbortHandler, Leave, Forget, Answer, GoTo
    <3>4. ~ TimePasses /\ ~ Finished
      BY <3>1 DEF TimePasses, Tick, Finished, httpVars, limiterVars
    <3>. QED
      BY <3>2, <3>3, <3>4 DEF HttpNext
  <2>3. WaitFor(Taken(k, s)) > 0 /\ ~ overlapped[k] /\ Rejecting(k) = {}
    BY <2>1, <2>2 DEF Refuse, LimiterTypeOK
  <2>4. Kept(k, promised[k])
    BY <2>1, <2>3 DEF RetryInv, Rejecting, Cancelling
  <2>5. PICK x \in Nat : x = promised[k]
    BY <2>1 DEF LimiterTypeOK
  <2>6. CASE x = Never
    <3>1. TicksPerSecond \in Nat /\ MaxTime \in Nat
      BY RateLimitAssumption, MaxTimeAssumption DEF RateLimitConfigValid
    <3>2. TicksPerSecond * MaxTime \in Nat
      BY <3>1, SMT
    <3>3. s <= MaxTime /\ MaxTime < Never
      BY <2>1, <3>1, <3>2, SMT DEF Never
    <3>4. s < x
      BY <2>1, <2>6, <3>1, <3>3, SMT
    <3>. QED
      BY <2>5, <3>4
  <2>7. CASE Interval(k) <= Holds(buckets[k], x)
    <3>1. PICK interval \in Nat : interval = Interval(k) /\ interval <= Capacity(k)
      BY CapacityFacts
    <3>2. \A y \in Nat, n \in Int : n <= Capacity(k) /\ n <= Holds(buckets[k], y)
                                    => n <= Holds(Advanced(k, s), y)
      BY AdvancedFacts
    <3>3. interval <= Holds(Advanced(k, s), x)
      BY <2>7, <3>1, <3>2, SMT
    <3>4. /\ Advanced(k, s).last = s /\ Advanced(k, s).tokens \in Int
          /\ Taken(k, s).tokens = Advanced(k, s).tokens - interval
      BY <3>1, AdvancedFacts, ReservedFacts DEF Bucket
    <3>5. PICK tokens \in Int : tokens = Advanced(k, s).tokens
      BY <3>4
    <3>6. tokens < interval
      <4>1. Taken(k, s).tokens = tokens - interval /\ tokens - interval \in Int
        BY <3>4, <3>5, SMT
      <4>2. tokens - interval < 0
        BY <2>3, <4>1, SMT DEF WaitFor
      <4>. QED
        BY <4>2, SMT
    <3>7. interval <= tokens + (IF x > s THEN x - s ELSE 0)
      BY <3>3, <3>4, <3>5 DEF Holds, Earned
    <3>8. s < x
      BY <2>1, <3>6, <3>7, SMT
    <3>. QED
      BY <2>5, <3>8
  <2>. QED
    BY <2>4, <2>5, <2>6, <2>7 DEF Kept
<1>. QED
  BY <1>1, HttpInvariant, PTL DEF HttpSpec, RetryAfterExact

----------------------------------------------------------------------------
(* A price that doubles *)

Less == {pair \in Nat \X Nat : pair[1] < pair[2]}

\* A nonempty set of natural numbers has a least element.
LEMMA LeastElement ==
    ASSUME NEW T \in SUBSET Nat, T # {}
    PROVE  \E n \in T : \A m \in T : n <= m
<1>1. IsWellFoundedOn(Less, Nat)
  BY NatLessThanWellFounded DEF OpToRel, Less
<1>2. PICK n \in T : \A m \in T : ~ (<<m, n>> \in Less)
  BY <1>1, WFMin
<1>3. \A m \in T : ~ (m < n)
  BY <1>2 DEF Less
<1>. QED
  BY <1>3, SMT

\* A line up to 0; every interval above doubles it.
Doubles(price, interval, x) ==
    price[x] = IF x <= 0 THEN x + 2 * interval ELSE 2 * price[x - interval]

DoublesTo(price, interval, n) ==
    price \in [Int -> Int] /\ \A x \in Int : x <= n => Doubles(price, interval, x)

IsPrice(price, interval) ==
    price \in [Int -> Int] /\ \A x \in Int : Doubles(price, interval, x)

\* It can be told up to any point.
LEMMA PriceUpTo ==
    ASSUME NEW interval \in Nat \ {0}, NEW n \in Nat
    PROVE  \E price : DoublesTo(price, interval, n)
<1>. DEFINE Told(m) == \E price : DoublesTo(price, interval, m)
            T == {m \in Nat : ~ Told(m)}
<1>1. SUFFICES ASSUME T # {} PROVE FALSE
  OBVIOUS
<1>2. PICK m \in T : \A k \in T : m <= k
  <2>1. T \in SUBSET Nat
    OBVIOUS
  <2>. HIDE DEF T
  <2>. QED
    BY <1>1, <2>1, LeastElement
<1>3. m \in Nat /\ ~ Told(m)
  OBVIOUS
<1>4. CASE m = 0
  <2>. DEFINE price == [x \in Int |-> x + 2 * interval]
  <2>1. DoublesTo(price, interval, 0)
    BY SMT DEF Doubles, DoublesTo
  <2>. QED
    BY <1>3, <1>4, <2>1
<1>5. CASE m # 0
  <2>1. m - 1 \in Nat /\ m - 1 \notin T
    <3>. HIDE DEF T
    <3>. QED
      BY <1>2, <1>3, <1>5, SMT
  <2>2. PICK shorter : DoublesTo(shorter, interval, m - 1)
    BY <2>1
  <2>. DEFINE price == [x \in Int |-> IF x = m THEN 2 * shorter[m - interval] ELSE shorter[x]]
  <2>3. price \in [Int -> Int]
    BY <1>3, <2>2, SMT DEF DoublesTo
  <2>4. ASSUME NEW x \in Int, x <= m PROVE Doubles(price, interval, x)
    <3>1. CASE x = m
      <4>1. price[m] = 2 * shorter[m - interval] /\ price[m - interval] = shorter[m - interval]
        BY <1>3, SMT
      <4>. QED
        BY <1>3, <1>5, <3>1, <4>1, SMT DEF Doubles
    <3>2. CASE x # m
      <4>1. x <= m - 1 /\ price[x] = shorter[x] /\ price[x - interval] = shorter[x - interval]
        BY <1>3, <2>4, <3>2, SMT
      <4>2. Doubles(shorter, interval, x)
        BY <2>2, <4>1 DEF DoublesTo
      <4>. HIDE DEF price
      <4>. QED
        BY <4>1, <4>2 DEF Doubles
    <3>. QED
      BY <3>1, <3>2
  <2>. HIDE DEF price
  <2>5. Told(m)
    BY <2>3, <2>4 DEF DoublesTo
  <2>. QED
    BY <1>3, <2>5
<1>. QED
  BY <1>4, <1>5

\* And in one way only.
LEMMA PriceUnique ==
    ASSUME NEW interval \in Nat \ {0}, NEW n \in Nat,
           NEW p, DoublesTo(p, interval, n), NEW q, DoublesTo(q, interval, n),
           NEW y \in Int, y <= n
    PROVE  p[y] = q[y]
<1>. DEFINE T == {m \in Nat : m <= n /\ p[m] # q[m]}
<1>1. \A x \in Int : x <= 0 => p[x] = q[x]
  BY SMT DEF Doubles, DoublesTo
<1>2. CASE T = {}
  <2>1. y <= 0 \/ y \in Nat
    BY SMT
  <2>. QED
    BY <1>1, <1>2, <2>1
<1>3. CASE T # {}
  <2>1. PICK m \in T : \A k \in T : m <= k
    <3>1. T \in SUBSET Nat
      OBVIOUS
    <3>. HIDE DEF T
    <3>. QED
      BY <1>3, <3>1, LeastElement
  <2>2. m \in Nat /\ m <= n /\ p[m] # q[m] /\ m > 0
    BY <1>1, SMT
  <2>3. p[m] = 2 * p[m - interval] /\ q[m] = 2 * q[m - interval]
    BY <2>2, SMT DEF Doubles, DoublesTo
  <2>4. p[m - interval] # q[m - interval]
    BY <2>2, <2>3
  <2>5. m - interval \in Nat
    BY <1>1, <2>2, <2>4, SMT
  <2>6. m - interval \in T /\ m - interval < m
    BY <2>2, <2>4, <2>5, SMT
  <2>. HIDE DEF T
  <2>. QED
    BY <2>1, <2>2, <2>5, <2>6, SMT
<1>. QED
  BY <1>2, <1>3

\* So there is one.
LEMMA PriceExists ==
    ASSUME NEW interval \in Nat \ {0}
    PROVE  \E price : IsPrice(price, interval)
<1>. DEFINE upTo == [n \in Nat |-> CHOOSE price : DoublesTo(price, interval, n)]
            price == [x \in Int |-> IF x <= 0 THEN x + 2 * interval ELSE upTo[x][x]]
<1>1. ASSUME NEW n \in Nat PROVE DoublesTo(upTo[n], interval, n)
  BY PriceUpTo
<1>. HIDE DEF upTo
<1>2. ASSUME NEW n \in Nat, NEW x \in Int, x <= n PROVE upTo[n][x] = price[x]
  <2>1. CASE x <= 0
    BY <1>1, <1>2, <2>1 DEF Doubles, DoublesTo
  <2>2. CASE x > 0
    <3>1. x \in Nat /\ DoublesTo(upTo[x], interval, x) /\ DoublesTo(upTo[n], interval, n)
      BY <1>1, <2>2, SMT
    <3>2. DoublesTo(upTo[n], interval, x)
      BY <1>2, <3>1, SMT DEF DoublesTo
    <3>3. upTo[n][x] = upTo[x][x]
      BY <3>1, <3>2, PriceUnique, SMT
    <3>. QED
      BY <2>2, <3>3, SMT
  <2>. QED
    BY <2>1, <2>2, SMT
<1>3. price \in [Int -> Int]
  <2>1. ASSUME NEW x \in Int, x > 0 PROVE upTo[x][x] \in Int
    BY <1>1, <2>1, SMT DEF DoublesTo
  <2>. QED
    BY <2>1, SMT
<1>4. ASSUME NEW x \in Int PROVE Doubles(price, interval, x)
  <2>1. CASE x <= 0
    BY <2>1 DEF Doubles
  <2>2. CASE x > 0
    <3>1. x \in Nat /\ x - interval \in Int /\ x - interval <= x
      BY <2>2, SMT
    <3>2. upTo[x][x] = price[x] /\ upTo[x][x - interval] = price[x - interval]
      BY <1>2, <3>1, SMT
    <3>3. Doubles(upTo[x], interval, x)
      BY <1>1, <3>1, SMT DEF DoublesTo
    <3>. HIDE DEF price
    <3>. QED
      BY <3>2, <3>3 DEF Doubles
  <2>. QED
    BY <2>1, <2>2, SMT
<1>. HIDE DEF price
<1>5. IsPrice(price, interval)
  BY <1>3, <1>4 DEF IsPrice
<1>. QED
  BY <1>5

Price(interval) == CHOOSE price : IsPrice(price, interval)

\* What it is, and that no level is below the line.
LEMMA PriceFacts ==
    ASSUME NEW interval \in Nat \ {0}
    PROVE  /\ Price(interval) \in [Int -> Int]
           /\ \A x \in Int : x <= 0 => Price(interval)[x] = x + 2 * interval
           /\ \A x \in Int : x > 0 => Price(interval)[x] = 2 * Price(interval)[x - interval]
           /\ \A x \in Int : x + 2 * interval <= Price(interval)[x]
<1>. DEFINE price == Price(interval)
<1>1. IsPrice(price, interval)
  BY PriceExists DEF Price
<1>. HIDE DEF price
<1>2. /\ price \in [Int -> Int]
      /\ \A x \in Int : x <= 0 => price[x] = x + 2 * interval
      /\ \A x \in Int : x > 0 => price[x] = 2 * price[x - interval]
  BY <1>1, SMT DEF IsPrice, Doubles
<1>. DEFINE T == {m \in Nat : price[m] < m + 2 * interval}
<1>3. CASE T = {}
  <2>1. ASSUME NEW x \in Int PROVE x + 2 * interval <= price[x]
    <3>1. CASE x <= 0
      BY <1>2, <3>1, SMT
    <3>2. CASE x > 0
      <4>1. x \in Nat /\ x \notin T /\ price[x] \in Int
        BY <1>2, <1>3, <3>2, SMT
      <4>. QED
        BY <4>1, SMT
    <3>. QED
      BY <3>1, <3>2, SMT
  <2>. QED
    BY <1>2, <2>1 DEF price
<1>4. CASE T # {}
  <2>1. PICK m \in T : \A k \in T : m <= k
    <3>1. T \in SUBSET Nat
      OBVIOUS
    <3>. HIDE DEF T
    <3>. QED
      BY <1>4, <3>1, LeastElement
  <2>2. m \in Nat /\ price[m] < m + 2 * interval /\ m > 0
    BY <1>2, SMT
  <2>3. price[m] = 2 * price[m - interval] /\ price[m - interval] \in Int
    BY <1>2, <2>2, SMT
  <2>4. price[m - interval] < m + interval
    BY <2>2, <2>3, SMT
  <2>5. m - interval \in Nat
    BY <1>2, <2>2, <2>4, SMT
  <2>6. m - interval \in T /\ m - interval < m
    BY <2>2, <2>4, <2>5, SMT
  <2>. HIDE DEF T
  <2>. QED
    BY <2>1, <2>2, <2>5, <2>6, SMT
<1>. QED
  BY <1>3, <1>4

\* A higher level is dearer, by the difference at least.
LEMMA PriceGrows ==
    ASSUME NEW interval \in Nat \ {0}, NEW x \in Int, NEW y \in Int, x <= y
    PROVE  Price(interval)[x] + (y - x) <= Price(interval)[y]
<1>. DEFINE price == Price(interval)
            Grows(z, n) == price[z] + (n - z) <= price[n]
            Wrong(n) == \E z \in Int : z <= n /\ ~ Grows(z, n)
            T == {n \in Nat : Wrong(n)}
<1>1. /\ price \in [Int -> Int]
      /\ \A z \in Int : z <= 0 => price[z] = z + 2 * interval
      /\ \A z \in Int : z > 0 => price[z] = 2 * price[z - interval]
      /\ \A z \in Int : z + 2 * interval <= price[z]
  BY PriceFacts
<1>. SUFFICES Grows(x, y)
  OBVIOUS
<1>. HIDE DEF price
<1>2. CASE T = {}
  <2>1. CASE y <= 0
    BY <1>1, <2>1, SMT
  <2>2. CASE y > 0
    <3>1. y \in Nat /\ ~ Wrong(y)
      BY <1>2, <2>2, SMT
    <3>. HIDE DEF Grows
    <3>. QED
      BY <3>1
  <2>. QED
    BY <2>1, <2>2, SMT
<1>3. CASE T # {}
  <2>1. PICK n \in T : \A k \in T : n <= k
    <3>1. T \in SUBSET Nat
      OBVIOUS
    <3>. HIDE DEF T
    <3>. QED
      BY <1>3, <3>1, LeastElement
  <2>2. PICK z \in Int : z <= n /\ ~ Grows(z, n)
    <3>. HIDE DEF Grows
    <3>. QED
      OBVIOUS
  <2>3. n \in Nat /\ n > 0 /\ z > 0
    BY <1>1, <2>2, SMT
  <2>4. price[n] = 2 * price[n - interval] /\ price[z] = 2 * price[z - interval]
    BY <1>1, <2>3, SMT
  <2>5. /\ price[n] \in Int /\ price[z] \in Int
        /\ price[n - interval] \in Int /\ price[z - interval] \in Int
    BY <1>1, <2>3, SMT
  <2>6. ~ Grows(z - interval, n - interval)
    BY <2>2, <2>3, <2>4, <2>5, SMT
  <2>7. n - interval \in Nat
    BY <1>1, <2>2, <2>3, <2>6, SMT
  <2>8. Wrong(n - interval)
    <3>1. z - interval \in Int /\ z - interval <= n - interval
      BY <2>2, <2>3, SMT
    <3>. HIDE DEF Grows
    <3>. QED
      BY <2>6, <3>1
  <2>9. n - interval \in T /\ n - interval < n
    BY <2>3, <2>7, <2>8, SMT
  <2>. HIDE DEF T
  <2>. QED
    BY <2>1, <2>3, <2>7, <2>9, SMT
<1>. QED
  BY <1>2, <1>3

\* And a climb is not cheaper than the one before it.
LEMMA PriceConvex ==
    ASSUME NEW interval \in Nat \ {0}, NEW a \in Int, NEW g \in Nat
    PROVE  2 * Price(interval)[a] <= Price(interval)[a - g] + Price(interval)[a + g]
<1>. DEFINE price == Price(interval)
            Convex(c, d) == 2 * price[c] <= price[c - d] + price[c + d]
            Wrong(n) == \E c \in Int, d \in Nat : c + d = n /\ ~ Convex(c, d)
            T == {n \in Nat : Wrong(n)}
<1>1. /\ price \in [Int -> Int]
      /\ \A z \in Int : z <= 0 => price[z] = z + 2 * interval
      /\ \A z \in Int : z > 0 => price[z] = 2 * price[z - interval]
      /\ \A z \in Int : z + 2 * interval <= price[z]
  BY PriceFacts
<1>. SUFFICES Convex(a, g)
  OBVIOUS
<1>. HIDE DEF price
<1>2. ASSUME NEW c \in Int, NEW d \in Nat, c <= 0 PROVE Convex(c, d)
  <2>1. /\ price[c] = c + 2 * interval /\ price[c - d] = c - d + 2 * interval
        /\ c + d + 2 * interval <= price[c + d]
    BY <1>1, <1>2, SMT
  <2>2. price[c + d] \in Int
    BY <1>1, SMT
  <2>. QED
    BY <2>1, <2>2, SMT
<1>3. CASE T = {}
  <2>. HIDE DEF Convex
  <2>1. CASE a <= 0
    BY <1>2, <2>1
  <2>2. CASE a > 0
    <3>1. a + g \in Nat /\ ~ Wrong(a + g)
      BY <1>3, <2>2, SMT
    <3>. QED
      BY <3>1
  <2>. QED
    BY <2>1, <2>2, SMT
<1>4. CASE T # {}
  <2>1. PICK n \in T : \A k \in T : n <= k
    <3>1. T \in SUBSET Nat
      OBVIOUS
    <3>. HIDE DEF T
    <3>. QED
      BY <1>4, <3>1, LeastElement
  <2>2. PICK c \in Int, d \in Nat : c + d = n /\ ~ Convex(c, d)
    <3>. HIDE DEF Convex
    <3>. QED
      OBVIOUS
  <2>3. n \in Nat /\ c > 0
    <3>. HIDE DEF Convex
    <3>. QED
      BY <1>2, <2>2, SMT
  <2>. DEFINE e == c - interval
  <2>4. price[c] = 2 * price[e] /\ price[c + d] = 2 * price[e + d] /\ e \in Int
    <3>1. c + d > 0 /\ (c + d) - interval = e + d
      BY <2>3, SMT
    <3>. QED
      BY <1>1, <2>3, <3>1, SMT
  <2>5. /\ price[e] \in Int /\ price[e - d] \in Int /\ price[e + d] \in Int /\ price[c - d] \in Int
        /\ price[c] \in Int /\ price[c + d] \in Int
    BY <1>1, <2>3, SMT
  <2>6. ASSUME Convex(e, d) PROVE FALSE
    <3>1. CASE c - d > 0
      <4>1. price[c - d] = 2 * price[e - d]
        <5>1. (c - d) - interval = e - d /\ c - d \in Int
          BY <2>3, SMT
        <5>. QED
          BY <1>1, <3>1, <5>1
      <4>. QED
        BY <2>2, <2>4, <2>5, <2>6, <4>1, SMT
    <3>2. CASE c - d <= 0
      <4>1. price[c - d] = c - d + 2 * interval /\ price[e - d] = e - d + 2 * interval
        BY <1>1, <2>3, <3>2, SMT
      <4>2. 2 * price[e - d] <= price[c - d]
        BY <2>3, <3>2, <4>1, SMT
      <4>. QED
        BY <2>2, <2>4, <2>5, <2>6, <4>2, SMT
    <3>. QED
      BY <3>1, <3>2, SMT
  <2>. HIDE DEF Convex
  <2>7. e > 0
    BY <1>2, <2>4, <2>6, SMT
  <2>8. Wrong(e + d) /\ e + d \in Nat
    BY <2>4, <2>6, <2>7, SMT
  <2>9. e + d \in T /\ e + d < n
    BY <2>2, <2>3, <2>8, SMT
  <2>. HIDE DEF T
  <2>. QED
    BY <2>1, <2>3, <2>8, <2>9, SMT
<1>. QED
  BY <1>3, <1>4

\* A reservation is worth what it raises the price by.
LEMMA PriceOfReservation ==
    ASSUME NEW interval \in Nat \ {0}, NEW level \in Int, NEW wait \in Nat,
           wait = IF level + interval < 0 THEN 0 ELSE level + interval
    PROVE  Price(interval)[level + interval] = Price(interval)[level] + Price(interval)[wait - interval]
<1>. DEFINE price == Price(interval)
<1>1. /\ price \in [Int -> Int]
      /\ \A z \in Int : z <= 0 => price[z] = z + 2 * interval
      /\ \A z \in Int : z > 0 => price[z] = 2 * price[z - interval]
  BY PriceFacts
<1>. HIDE DEF price
<1>2. CASE level + interval > 0
  <2>1. price[level + interval] = 2 * price[(level + interval) - interval]
    BY <1>1, <1>2, SMT
  <2>2. (level + interval) - interval = level /\ wait - interval = level /\ price[level] \in Int
    BY <1>1, <1>2, SMT
  <2>. QED
    BY <2>1, <2>2, SMT DEF price
<1>3. CASE level + interval <= 0
  <2>1. wait - interval = - interval /\ - interval <= 0 /\ level <= 0
    BY <1>3, SMT
  <2>2. price[level + interval] = level + interval + 2 * interval /\ price[level] = level + 2 * interval
        /\ price[- interval] = - interval + 2 * interval
    BY <1>1, <1>3, <2>1, SMT
  <2>. QED
    BY <2>1, <2>2, SMT DEF price
<1>. QED
  BY <1>2, <1>3, SMT

\* What a cancellation restores is paid for by the reservation it ends: event is
\* the latest reserved time, and restored what CancelAt makes of it.
LEMMA PriceOfCancel ==
    ASSUME NEW interval \in Nat \ {0}, NEW level \in Int, NEW event \in Nat, level <= event,
           NEW restored \in Nat \ {0}
    PROVE  Price(interval)[level] <=
              Price(interval)[level - restored] + Price(interval)[event + restored - 2 * interval]
<1>. DEFINE price == Price(interval)
            x == event + restored - 2 * interval
            below == level - restored
            above == level + restored - 2 * interval
<1>1. /\ price \in [Int -> Int]
      /\ \A z \in Int : z <= 0 => price[z] = z + 2 * interval
      /\ \A z \in Int : z > 0 => price[z] = 2 * price[z - interval]
      /\ \A z \in Int : z + 2 * interval <= price[z]
  BY PriceFacts
<1>2. x \in Int /\ below \in Int /\ above \in Int /\ above <= x
  BY SMT
<1>3. price[x] \in Int /\ price[below] \in Int /\ price[above] \in Int /\ price[level] \in Int
  BY <1>1, <1>2
<1>. SUFFICES price[level] <= price[below] + price[x]
  OBVIOUS
<1>4. CASE level <= 0
  <2>1. price[level] = level + 2 * interval /\ price[below] = level - restored + 2 * interval
        /\ event + restored <= price[x]
    <3>1. below <= 0 /\ x + 2 * interval = event + restored
      BY <1>4, SMT
    <3>. HIDE DEF price, x
    <3>. QED
      BY <1>1, <1>2, <1>4, <3>1
  <2>. HIDE DEF price, x, below
  <2>. QED
    BY <1>3, <2>1, SMT
<1>5. CASE level > 0
  <2>. DEFINE a == level - interval
              g == IF restored < interval THEN interval - restored ELSE restored - interval
  <2>1. a \in Int /\ g \in Nat
    BY SMT
  <2>2. 2 * price[a] <= price[a - g] + price[a + g]
    <3>. HIDE DEF a, g
    <3>. QED
      BY <2>1, PriceConvex
  <2>3. \/ a - g = below /\ a + g = above
        \/ a - g = above /\ a + g = below
    BY SMT
  <2>4. price[a] \in Int /\ price[level] = 2 * price[a]
    BY <1>1, <1>5, <2>1
  <2>5. price[above] + (x - above) <= price[x]
    <3>. HIDE DEF x, above
    <3>. QED
      BY <1>2, PriceGrows
  <2>6. price[a - g] + price[a + g] = price[below] + price[above]
    <3>. HIDE DEF a, g, above, below, price
    <3>. QED
      BY <1>3, <2>3, SMT
  <2>. HIDE DEF a, g, above, below, x, price
  <2>. QED
    BY <1>2, <1>3, <2>2, <2>4, <2>5, <2>6, SMT
<1>. QED
  BY <1>4, <1>5, SMT

----------------------------------------------------------------------------
(* The sum of a weight over a set of requests *)

Summing(weight) ==
    {P \in SUBSET ((SUBSET HttpRequests) \X Int) :
        /\ <<{}, 0>> \in P
        /\ \A set \in SUBSET HttpRequests, total \in Int, r \in HttpRequests :
              <<set, total>> \in P /\ r \notin set => <<set \cup {r}, total + weight[r]>> \in P}

\* The pairs of a finite set and its sum: those of every relation closed this way.
Sums(weight) ==
    {pair \in (SUBSET HttpRequests) \X Int : \A P \in Summing(weight) : pair \in P}

\* The least such relation is one of them.
LEMMA SumsFacts ==
    ASSUME NEW weight \in [HttpRequests -> Int]
    PROVE  /\ <<{}, 0>> \in Sums(weight)
           /\ \A set, total, r :
                 <<set, total>> \in Sums(weight) /\ r \in HttpRequests \ set =>
                    <<set \cup {r}, total + weight[r]>> \in Sums(weight)
           /\ \A set, total :
                 <<set, total>> \in Sums(weight) => set \in SUBSET HttpRequests /\ total \in Int
<1>1. \A set, total :
         <<set, total>> \in Sums(weight) => set \in SUBSET HttpRequests /\ total \in Int
  BY DEF Sums
<1>2. <<{}, 0>> \in Sums(weight)
  BY SMT DEF Sums, Summing
<1>3. ASSUME NEW set, NEW total, NEW r, <<set, total>> \in Sums(weight), r \in HttpRequests \ set
      PROVE  <<set \cup {r}, total + weight[r]>> \in Sums(weight)
  <2>1. set \in SUBSET HttpRequests /\ total \in Int /\ weight[r] \in Int /\ total + weight[r] \in Int
    BY <1>1, <1>3, SMT
  <2>2. <<set \cup {r}, total + weight[r]>> \in (SUBSET HttpRequests) \X Int
    BY <1>3, <2>1
  <2>3. ASSUME NEW P \in Summing(weight) PROVE <<set \cup {r}, total + weight[r]>> \in P
    <3>1. <<set, total>> \in P
      BY <1>3 DEF Sums
    <3>. QED
      BY <1>3, <2>1, <3>1 DEF Summing
  <2>. QED
    BY <2>2, <2>3 DEF Sums
<1>. QED
  BY <1>1, <1>2, <1>3

\* What holds of the empty sum, and of a sum with one more, holds of every sum.
LEMMA SumsInduction ==
    ASSUME NEW weight \in [HttpRequests -> Int], NEW P \in SUBSET ((SUBSET HttpRequests) \X Int),
           <<{}, 0>> \in P,
           \A set \in SUBSET HttpRequests, total \in Int, r \in HttpRequests :
              <<set, total>> \in P /\ r \notin set => <<set \cup {r}, total + weight[r]>> \in P
    PROVE  Sums(weight) \subseteq P
BY DEF Sums, Summing

\* A sum without one of its terms.
LEMMA SumsWithout ==
    ASSUME NEW weight \in [HttpRequests -> Int], NEW set, NEW total, NEW r \in set,
           <<set, total>> \in Sums(weight)
    PROVE  <<set \ {r}, total - weight[r]>> \in Sums(weight)
<1>. DEFINE Without(s, n) == \A q \in s : <<s \ {q}, n - weight[q]>> \in Sums(weight)
            P == {pair \in (SUBSET HttpRequests) \X Int :
                     pair \in Sums(weight) /\ Without(pair[1], pair[2])}
<1>1. <<{}, 0>> \in P
  BY SumsFacts
<1>2. ASSUME NEW s \in SUBSET HttpRequests, NEW n \in Int, NEW q \in HttpRequests,
             <<s, n>> \in P, q \notin s
      PROVE  <<s \cup {q}, n + weight[q]>> \in P
  <2>. DEFINE m == n + weight[q]
              u == s \cup {q}
  <2>1. <<s, n>> \in Sums(weight) /\ Without(s, n)
    BY <1>2
  <2>2. <<u, m>> \in Sums(weight) /\ m \in Int /\ u \in SUBSET HttpRequests
    BY <1>2, <2>1, SumsFacts
  <2>3. ASSUME NEW p \in u PROVE <<u \ {p}, m - weight[p]>> \in Sums(weight)
    <3>1. CASE p = q
      <4>1. u \ {p} = s /\ m - weight[p] = n
        BY <1>2, <3>1, SMT
      <4>. QED
        BY <2>1, <4>1
    <3>2. CASE p \in s /\ p # q
      <4>1. <<s \ {p}, n - weight[p]>> \in Sums(weight) /\ q \in HttpRequests \ (s \ {p})
        BY <1>2, <2>1, <3>2
      <4>2. <<(s \ {p}) \cup {q}, n - weight[p] + weight[q]>> \in Sums(weight)
        BY <4>1, SumsFacts
      <4>3. (s \ {p}) \cup {q} = u \ {p} /\ n - weight[p] + weight[q] = m - weight[p]
        BY <1>2, <3>2, SMT
      <4>. QED
        BY <4>2, <4>3
    <3>. QED
      BY <3>1, <3>2
  <2>. HIDE DEF m, u
  <2>4. <<u, m>> \in P
    BY <2>2, <2>3
  <2>. QED
    BY <2>4 DEF u, m
<1>3. P \in SUBSET ((SUBSET HttpRequests) \X Int)
  OBVIOUS
<1>. HIDE DEF P
<1>4. <<set, total>> \in P
  BY <1>1, <1>2, <1>3, SumsInduction
<1>5. Without(set, total)
  BY <1>4 DEF P
<1>. QED
  BY <1>5

\* A sum of what is not negative is not negative.
LEMMA SumsNatural ==
    ASSUME NEW weight \in [HttpRequests -> Int], NEW set, NEW total,
           <<set, total>> \in Sums(weight), \A r \in set : 0 <= weight[r]
    PROVE  0 <= total
<1>. DEFINE Natural(s) == \A r \in s : 0 <= weight[r]
            P == {pair \in (SUBSET HttpRequests) \X Int : Natural(pair[1]) => 0 <= pair[2]}
<1>1. <<{}, 0>> \in P
  BY SMT
<1>2. ASSUME NEW s \in SUBSET HttpRequests, NEW n \in Int, NEW q \in HttpRequests,
             <<s, n>> \in P, q \notin s
      PROVE  <<s \cup {q}, n + weight[q]>> \in P
  <2>1. Natural(s) => 0 <= n
    BY <1>2
  <2>2. Natural(s \cup {q}) => Natural(s) /\ 0 <= weight[q]
    OBVIOUS
  <2>3. weight[q] \in Int
    OBVIOUS
  <2>. HIDE DEF Natural
  <2>. QED
    BY <2>1, <2>2, <2>3, SMT
<1>3. P \in SUBSET ((SUBSET HttpRequests) \X Int)
  OBVIOUS
<1>. HIDE DEF P
<1>4. <<set, total>> \in P
  BY <1>1, <1>2, <1>3, SumsInduction
<1>. QED
  BY <1>4 DEF P

\* A sum depends on the weights of its set alone.
LEMMA SumsAgree ==
    ASSUME NEW weight \in [HttpRequests -> Int], NEW other \in [HttpRequests -> Int],
           NEW set, NEW total, <<set, total>> \in Sums(weight),
           \A r \in set : other[r] = weight[r]
    PROVE  <<set, total>> \in Sums(other)
<1>. DEFINE Agree(s) == \A r \in s : other[r] = weight[r]
            P == {pair \in (SUBSET HttpRequests) \X Int : Agree(pair[1]) => pair \in Sums(other)}
<1>1. <<{}, 0>> \in P
  BY SumsFacts
<1>2. ASSUME NEW s \in SUBSET HttpRequests, NEW n \in Int, NEW q \in HttpRequests,
             <<s, n>> \in P, q \notin s
      PROVE  <<s \cup {q}, n + weight[q]>> \in P
  <2>1. Agree(s) => <<s, n>> \in Sums(other)
    BY <1>2
  <2>2. Agree(s \cup {q}) => Agree(s) /\ other[q] = weight[q]
    OBVIOUS
  <2>3. weight[q] \in Int /\ n + weight[q] \in Int
    BY SMT
  <2>. HIDE DEF Agree
  <2>4. Agree(s \cup {q}) => <<s \cup {q}, n + weight[q]>> \in Sums(other)
    BY <1>2, <2>1, <2>2, SumsFacts
  <2>. QED
    BY <2>3, <2>4
<1>3. P \in SUBSET ((SUBSET HttpRequests) \X Int)
  OBVIOUS
<1>. HIDE DEF P
<1>4. <<set, total>> \in P
  BY <1>1, <1>2, <1>3, SumsInduction
<1>. QED
  BY <1>4 DEF P

----------------------------------------------------------------------------
(* What was admitted is paid for *)

\* The level of a bucket is what it lacks to be empty, and base the level that the
\* requests it admitted account for.  The reservations still to be cancelled have
\* paid for the climb from the one to the other.
Paid(interval, level, base, live, weight) ==
    /\ \A r \in live : 0 <= weight[r]
    /\ \E total \in Int : /\ <<live, total>> \in Sums(weight)
                          /\ total + Price(interval)[base] <= Price(interval)[level]

\* So no level is below its base.
LEMMA PaidBase ==
    ASSUME NEW interval \in Nat \ {0}, NEW level \in Int, NEW base \in Int, NEW live,
           NEW weight \in [HttpRequests -> Int], Paid(interval, level, base, live, weight)
    PROVE  base <= level
<1>1. PICK total \in Int : /\ <<live, total>> \in Sums(weight)
                           /\ total + Price(interval)[base] <= Price(interval)[level]
  BY DEF Paid
<1>2. 0 <= total
  BY <1>1, SumsNatural DEF Paid
<1>3. Price(interval)[base] \in Int /\ Price(interval)[level] \in Int
  BY PriceFacts
<1>4. level < base => Price(interval)[level] + (base - level) <= Price(interval)[base]
  BY PriceGrows, SMT
<1>. QED
  BY <1>1, <1>2, <1>3, <1>4, SMT

\* Without reservations that is all there is to it.
LEMMA PaidAnew ==
    ASSUME NEW interval \in Nat \ {0}, NEW level \in Int, NEW base \in Int,
           NEW weight \in [HttpRequests -> Int], base <= level
    PROVE  Paid(interval, level, base, {}, weight)
<1>1. <<{}, 0>> \in Sums(weight)
  BY SumsFacts
<1>2. Price(interval)[base] \in Int /\ Price(interval)[level] \in Int
  BY PriceFacts
<1>3. Price(interval)[base] + (level - base) <= Price(interval)[level]
  BY PriceGrows
<1>4. PICK total \in Int : total = 0
  BY SMT
<1>5. <<{}, total>> \in Sums(weight) /\ total + Price(interval)[base] <= Price(interval)[level]
  BY <1>1, <1>2, <1>3, <1>4, SMT
<1>. QED
  BY <1>5 DEF Paid

\* A reservation pays for itself.
LEMMA PaidReserve ==
    ASSUME NEW interval \in Nat \ {0}, NEW level \in Int, NEW base \in Int, NEW live,
           NEW weight \in [HttpRequests -> Int], Paid(interval, level, base, live, weight),
           NEW r \in HttpRequests \ live, NEW wait \in Nat,
           wait = IF level + interval < 0 THEN 0 ELSE level + interval,
           NEW other \in [HttpRequests -> Int],
           \A q \in live : other[q] = weight[q],
           other[r] = Price(interval)[wait - interval]
    PROVE  Paid(interval, level + interval, base, live \cup {r}, other)
<1>1. PICK total \in Int : /\ <<live, total>> \in Sums(weight)
                           /\ total + Price(interval)[base] <= Price(interval)[level]
  BY DEF Paid
<1>2. <<live, total>> \in Sums(other)
  BY <1>1, SumsAgree
<1>3. <<live \cup {r}, total + other[r]>> \in Sums(other)
  BY <1>2, SumsFacts
<1>4. /\ Price(interval) \in [Int -> Int]
      /\ \A x \in Int : x + 2 * interval <= Price(interval)[x]
  BY PriceFacts
<1>5. (wait - interval) + 2 * interval <= other[r] /\ other[r] \in Int
  <2>1. wait - interval \in Int
    BY SMT
  <2>. QED
    BY <1>4, <2>1
<1>6. Price(interval)[level + interval] = Price(interval)[level] + Price(interval)[wait - interval]
  BY PriceOfReservation
<1>7. 0 <= other[r]
  BY <1>5, SMT
<1>8. \A q \in live \cup {r} : 0 <= other[q]
  BY <1>7 DEF Paid
<1>9. (total + other[r]) + Price(interval)[base] <= Price(interval)[level + interval]
  <2>1. Price(interval)[base] \in Int /\ Price(interval)[level] \in Int
    BY <1>4
  <2>. QED
    BY <1>1, <1>5, <1>6, <2>1, SMT
<1>10. total + other[r] \in Int
  BY <1>5, SMT
<1>. QED
  BY <1>3, <1>8, <1>9, <1>10 DEF Paid

\* A token that is there pays for one admission.
LEMMA PaidAllow ==
    ASSUME NEW interval \in Nat \ {0}, NEW level \in Int, NEW base \in Int, NEW live,
           NEW weight \in [HttpRequests -> Int], Paid(interval, level, base, live, weight),
           level + interval <= 0
    PROVE  Paid(interval, level + interval, base + interval, live, weight)
<1>1. PICK total \in Int : /\ <<live, total>> \in Sums(weight)
                           /\ total + Price(interval)[base] <= Price(interval)[level]
  BY DEF Paid
<1>2. base <= level
  BY PaidBase
<1>3. \A x \in Int : x <= 0 => Price(interval)[x] = x + 2 * interval
  BY PriceFacts
<1>4. /\ Price(interval)[base] = base + 2 * interval
      /\ Price(interval)[level] = level + 2 * interval
      /\ Price(interval)[base + interval] = base + interval + 2 * interval
      /\ Price(interval)[level + interval] = level + interval + 2 * interval
  BY <1>2, <1>3, SMT
<1>5. total + Price(interval)[base + interval] <= Price(interval)[level + interval]
  BY <1>1, <1>4, SMT
<1>. QED
  BY <1>1, <1>5 DEF Paid

\* A reservation that is given back pays for what is restored.
LEMMA PaidCancel ==
    ASSUME NEW interval \in Nat \ {0}, NEW level \in Int, NEW base \in Int, NEW live,
           NEW weight \in [HttpRequests -> Int], Paid(interval, level, base, live, weight),
           NEW r \in live, NEW event \in Nat, level <= event, NEW restored \in Nat \ {0},
           weight[r] = Price(interval)[event + restored - 2 * interval],
           NEW other \in [HttpRequests -> Int],
           \A q \in live \ {r} : other[q] = weight[q],
           NEW lower \in Int, level - restored <= lower
    PROVE  Paid(interval, lower, base, live \ {r}, other)
<1>1. PICK total \in Int : /\ <<live, total>> \in Sums(weight)
                           /\ total + Price(interval)[base] <= Price(interval)[level]
  BY DEF Paid
<1>2. <<live \ {r}, total - weight[r]>> \in Sums(weight)
  BY <1>1, SumsWithout
<1>3. <<live \ {r}, total - weight[r]>> \in Sums(other)
  BY <1>2, SumsAgree
<1>4. Price(interval)[level] <= Price(interval)[level - restored] + weight[r]
  BY PriceOfCancel
<1>5. Price(interval)[level - restored] + (lower - (level - restored)) <= Price(interval)[lower]
  BY PriceGrows, SMT
<1>6. /\ Price(interval)[level] \in Int /\ Price(interval)[level - restored] \in Int
      /\ Price(interval)[lower] \in Int /\ Price(interval)[base] \in Int
      /\ weight[r] \in Int
  <2>1. live \in SUBSET HttpRequests
    BY <1>1, SumsFacts
  <2>2. Price(interval) \in [Int -> Int]
    BY PriceFacts
  <2>3. level - restored \in Int
    BY SMT
  <2>. QED
    BY <2>1, <2>2, <2>3
<1>7. (total - weight[r]) + Price(interval)[base] <= Price(interval)[lower]
  BY <1>1, <1>4, <1>5, <1>6, SMT
<1>8. total - weight[r] \in Int
  BY <1>6, SMT
<1>9. \A q \in live \ {r} : 0 <= other[q]
  BY DEF Paid
<1>. QED
  BY <1>3, <1>7, <1>8, <1>9 DEF Paid

\* One that is given up for nothing leaves the rest paid.
LEMMA PaidWithout ==
    ASSUME NEW interval \in Nat \ {0}, NEW level \in Int, NEW base \in Int, NEW live,
           NEW weight \in [HttpRequests -> Int], Paid(interval, level, base, live, weight),
           NEW r \in live, NEW other \in [HttpRequests -> Int],
           \A q \in live \ {r} : other[q] = weight[q]
    PROVE  Paid(interval, level, base, live \ {r}, other)
<1>1. PICK total \in Int : /\ <<live, total>> \in Sums(weight)
                           /\ total + Price(interval)[base] <= Price(interval)[level]
  BY DEF Paid
<1>2. <<live \ {r}, total - weight[r]>> \in Sums(weight)
  BY <1>1, SumsWithout
<1>3. <<live \ {r}, total - weight[r]>> \in Sums(other)
  BY <1>2, SumsAgree
<1>4. 0 <= weight[r]
  BY DEF Paid
<1>5. live \in SUBSET HttpRequests
  BY <1>1, SumsFacts
<1>6. weight[r] \in Int /\ Price(interval)[base] \in Int /\ Price(interval)[level] \in Int
  BY <1>5, PriceFacts
<1>7. (total - weight[r]) + Price(interval)[base] <= Price(interval)[level]
  BY <1>1, <1>4, <1>6, SMT
<1>8. \A q \in live \ {r} : 0 <= other[q]
  BY DEF Paid
<1>9. total - weight[r] \in Int
  BY <1>6, SMT
<1>. QED
  BY <1>3, <1>7, <1>8, <1>9 DEF Paid

\* The weights of the live reservations are all that counts.
LEMMA PaidAgree ==
    ASSUME NEW interval, NEW level, NEW base, NEW live,
           NEW weight \in [HttpRequests -> Int], Paid(interval, level, base, live, weight),
           NEW other \in [HttpRequests -> Int], \A q \in live : other[q] = weight[q]
    PROVE  Paid(interval, level, base, live, other)
<1>1. PICK total \in Int : /\ <<live, total>> \in Sums(weight)
                           /\ total + Price(interval)[base] <= Price(interval)[level]
  BY DEF Paid
<1>2. <<live, total>> \in Sums(other)
  BY <1>1, SumsAgree
<1>. QED
  BY <1>1, <1>2 DEF Paid
=============================================================================
