-------------------------- MODULE AdmissionProofs --------------------------
(***************************************************************************)
(* What a token bucket admits: AdmittedWithinLimit of HttpApi, for any     *)
(* requests, credentials, rates and bursts.                                *)
(*                                                                         *)
(* CancelAt gives back a reserved token less what was reserved after it,   *)
(* so what a cancellation gives back depends on the order of all of them.  *)
(* The invariant prices the debt of a bucket (Price of HttpApiProofs,      *)
(* which doubles with every token): the reservations still to be           *)
(* cancelled, each at the price of the debt it was made at, and the        *)
(* admitted requests never come to more than the debt the bucket is in     *)
(* (Paid).                                                                 *)
(***************************************************************************)
EXTENDS HttpApiProofs

\* The prover of a leaf that names no other; arithmetic is for SMT.
USE Zenon

----------------------------------------------------------------------------
(* The same of a token bucket *)

\* What a full bucket earns in the time of one request is a token.
LEMMA IntervalPositive ==
    ASSUME NEW key \in BucketKeys
    PROVE  Interval(key) \in Nat \ {0}
<1>1. key[2] \in RouteClasses
  BY DEF BucketKeys
<1>2. /\ TicksPerSecond \in Nat \ {0} /\ RequestsPerSecond[key[2]] \in Nat \ {0}
      /\ TicksPerSecond % RequestsPerSecond[key[2]] = 0
  BY <1>1, RateLimitAssumption DEF RateLimitConfigValid
<1>3. \A m, n \in Nat \ {0} : m % n = 0 => m \div n \in Nat \ {0}
  BY SMT
<1>. QED
  BY <1>2, <1>3 DEF Interval

\* The price of each reservation for a bucket that is at the time last.
Weights(key, last, reserved) ==
    [r \in HttpRequests |-> Price(Interval(key))[reserved[r] - last - Interval(key)]]

\* The level that count admitted requests account for.
Base(key, last, count) == Interval(key) * count - Capacity(key) - last

\* The reservations live, which were made at the bucket's time, have paid for the
\* difference between its tokens and what it admitted; and no reservation it knows
\* of is later than its last event.
Covered(key, b, count, live, reserved) ==
    /\ b.last <= b.lastEvent
    /\ - b.tokens <= b.lastEvent - b.last
    /\ Paid(Interval(key), - b.tokens, Base(key, b.last, count), live,
            Weights(key, b.last, reserved))

IsBucket(key, b) ==
    b.tokens \in Int /\ b.tokens <= Capacity(key) /\ b.last \in Nat /\ b.lastEvent \in Nat

\* The tokens b holds at a time t that is not before its own.
HeldAt(key, b, t, tokens) ==
    /\ b.last <= t
    /\ tokens = IF Capacity(key) <= b.tokens + (t - b.last) THEN Capacity(key)
                ELSE b.tokens + (t - b.last)

\* What b is made of, and two assignments of reservations that agree on live.
Made(b, tokens, last, lastEvent) ==
    b.tokens = tokens /\ b.last = last /\ b.lastEvent = lastEvent

Agree(live, reserved, later) == \A r \in live : later[r] = reserved[r]

\* Types.
LEMMA CoveredTypes ==
    ASSUME NEW key \in BucketKeys, NEW last \in Nat, NEW count \in Nat,
           NEW reserved \in [HttpRequests -> Nat]
    PROVE  /\ Base(key, last, count) \in Int
           /\ Weights(key, last, reserved) \in [HttpRequests -> Int]
           /\ \A r \in HttpRequests :
                 Weights(key, last, reserved)[r] =
                    Price(Interval(key))[reserved[r] - last - Interval(key)]
<1>1. Interval(key) \in Nat \ {0} /\ Capacity(key) \in Nat
  BY IntervalPositive, CapacityFacts
<1>2. Price(Interval(key)) \in [Int -> Int]
  BY <1>1, PriceFacts
<1>3. Interval(key) * count \in Int
  BY <1>1, SMT
<1>4. \A r \in HttpRequests : reserved[r] - last - Interval(key) \in Int
  BY <1>1, SMT
<1>. QED
  BY <1>1, <1>2, <1>3, <1>4, SMT DEF Base, Weights

\* A weight is that of its own reservation.
LEMMA WeightsAgree ==
    ASSUME NEW key, NEW last, NEW reserved, NEW later,
           NEW r \in HttpRequests, later[r] = reserved[r]
    PROVE  Weights(key, last, later)[r] = Weights(key, last, reserved)[r]
BY DEF Weights

\* The live reservations that are still at the bucket's time when it is t.
StillLive(b, t, live) == IF t = b.last THEN live ELSE {}

\* Time that passes earns what it pays for.
LEMMA PaidAdvance ==
    ASSUME NEW key \in BucketKeys, NEW b, IsBucket(key, b), NEW count \in Nat,
           NEW live \in SUBSET HttpRequests, NEW reserved \in [HttpRequests -> Nat],
           Covered(key, b, count, live, reserved),
           NEW t \in Nat, NEW tokens \in Int, HeldAt(key, b, t, tokens)
    PROVE  Paid(Interval(key), - tokens, Base(key, t, count), StillLive(b, t, live),
                Weights(key, t, reserved))
<1>1. Interval(key) \in Nat \ {0} /\ Capacity(key) \in Nat
  BY IntervalPositive, CapacityFacts
<1>2. /\ b.tokens \in Int /\ b.tokens <= Capacity(key) /\ b.last \in Nat /\ - b.tokens \in Int
      /\ b.last <= t
      /\ tokens = IF Capacity(key) <= b.tokens + (t - b.last) THEN Capacity(key)
                  ELSE b.tokens + (t - b.last)
      /\ Paid(Interval(key), - b.tokens, Base(key, b.last, count), live,
              Weights(key, b.last, reserved))
  BY SMT DEF IsBucket, Covered, HeldAt
<1>3. CASE t = b.last
  <2>1. tokens = b.tokens
    BY <1>1, <1>2, <1>3, SMT
  <2>. QED
    BY <1>2, <1>3, <2>1 DEF StillLive
<1>4. CASE t > b.last
  <2>1. /\ Base(key, b.last, count) \in Int /\ Base(key, t, count) \in Int
        /\ Weights(key, b.last, reserved) \in [HttpRequests -> Int]
        /\ Weights(key, t, reserved) \in [HttpRequests -> Int]
    BY <1>2, CoveredTypes
  <2>2. Base(key, b.last, count) <= - b.tokens
    BY <1>1, <1>2, <2>1, PaidBase
  <2>3. Base(key, t, count) = Base(key, b.last, count) - (t - b.last)
    <3>1. Interval(key) * count \in Int
      BY <1>1, SMT
    <3>. QED
      BY <1>1, <1>2, <3>1, SMT DEF Base
  <2>4. Base(key, t, count) <= - tokens /\ - tokens \in Int
    BY <1>1, <1>2, <1>4, <2>1, <2>2, <2>3, SMT
  <2>5. StillLive(b, t, live) = {}
    BY <1>2, <1>4, SMT DEF StillLive
  <2>. QED
    BY <1>1, <2>1, <2>4, <2>5, PaidAnew
<1>. QED
  BY <1>2, <1>3, <1>4, SMT

\* AllowN: the bucket earns, and a token is taken.
LEMMA CoveredAllow ==
    ASSUME NEW key \in BucketKeys, NEW b, IsBucket(key, b), NEW count \in Nat,
           NEW live \in SUBSET HttpRequests, NEW reserved \in [HttpRequests -> Nat],
           Covered(key, b, count, live, reserved),
           NEW t \in Nat, NEW tokens \in Int, HeldAt(key, b, t, tokens),
           Interval(key) <= tokens,
           NEW c, Made(c, tokens - Interval(key), t, t),
           NEW later \in [HttpRequests -> Nat], Agree(live, reserved, later)
    PROVE  /\ Covered(key, c, count + 1, StillLive(b, t, live), later)
           /\ (count + 1) * Interval(key) <= Capacity(key) + t
<1>. DEFINE still == StillLive(b, t, live)
            base == Base(key, t, count)
            weight == Weights(key, t, reserved)
            other == Weights(key, t, later)
<1>1. Interval(key) \in Nat \ {0} /\ Capacity(key) \in Nat
  BY IntervalPositive, CapacityFacts
<1>2. base \in Int /\ weight \in [HttpRequests -> Int] /\ other \in [HttpRequests -> Int]
  BY CoveredTypes
<1>3. still \in SUBSET HttpRequests /\ \A r \in still : later[r] = reserved[r]
  BY DEF StillLive, Agree
<1>4. \A r \in still : other[r] = weight[r]
  BY <1>3, WeightsAgree, SMT
<1>5. Paid(Interval(key), - tokens, base, still, weight)
  BY PaidAdvance
<1>6. Base(key, t, count + 1) = base + Interval(key)
      /\ Base(key, t, count + 1) = (count + 1) * Interval(key) - Capacity(key) - t
  <2>1. Interval(key) * (count + 1) = Interval(key) * count + Interval(key)
        /\ (count + 1) * Interval(key) = Interval(key) * (count + 1)
    BY <1>1, SMT
  <2>2. Interval(key) * count \in Int /\ Interval(key) * (count + 1) \in Int
    BY <1>1, SMT
  <2>. QED
    BY <1>1, <2>1, <2>2, SMT DEF Base
<1>. HIDE DEF still, base, weight, other
<1>7. Paid(Interval(key), - tokens, base, still, other)
  BY <1>2, <1>4, <1>5, PaidAgree
<1>8. - tokens \in Int /\ - tokens + Interval(key) <= 0 /\ - tokens + Interval(key) = - c.tokens
      /\ - c.tokens \in Int /\ c.last = t /\ c.lastEvent = t
  BY <1>1, SMT DEF Made
<1>9. Paid(Interval(key), - tokens + Interval(key), base + Interval(key), still, other)
  BY <1>1, <1>2, <1>7, <1>8, PaidAllow
<1>10. base + Interval(key) <= - tokens + Interval(key)
  <2>1. base <= - tokens
    BY <1>1, <1>2, <1>7, <1>8, PaidBase
  <2>. QED
    BY <1>1, <1>2, <1>8, <2>1, SMT
<1>11. (count + 1) * Interval(key) <= Capacity(key) + t
  <2>1. (count + 1) * Interval(key) \in Int /\ (count + 1) * Interval(key) - Capacity(key) - t <= 0
    <3>1. (count + 1) * Interval(key) \in Int
      BY <1>1, SMT
    <3>. QED
      BY <1>1, <1>2, <1>6, <1>8, <1>10, <3>1, SMT
  <2>. QED
    BY <1>1, <2>1, SMT
<1>12. Covered(key, c, count + 1, still, later)
  <2>1. Paid(Interval(key), - c.tokens, Base(key, t, count + 1), still, other)
    BY <1>6, <1>8, <1>9
  <2>2. c.last <= c.lastEvent /\ - c.tokens <= c.lastEvent - c.last
    BY <1>8, SMT
  <2>. QED
    BY <1>8, <2>1, <2>2 DEF Covered, other
<1>. QED
  BY <1>11, <1>12 DEF still

\* ReserveN: the bucket earns, and r reserves a token.
LEMMA CoveredReserve ==
    ASSUME NEW key \in BucketKeys, NEW b, IsBucket(key, b), NEW count \in Nat,
           NEW live \in SUBSET HttpRequests, NEW reserved \in [HttpRequests -> Nat],
           Covered(key, b, count, live, reserved),
           NEW t \in Nat, NEW tokens \in Int, HeldAt(key, b, t, tokens),
           NEW wait \in Nat, wait = IF tokens < Interval(key) THEN Interval(key) - tokens ELSE 0,
           NEW c, Made(c, tokens - Interval(key), t, t + wait),
           NEW r \in HttpRequests \ live,
           NEW later \in [HttpRequests -> Nat], Agree(live, reserved, later),
           later[r] = t + wait
    PROVE  Covered(key, c, count, StillLive(b, t, live) \cup {r}, later)
<1>. DEFINE still == StillLive(b, t, live)
            base == Base(key, t, count)
            weight == Weights(key, t, reserved)
            other == Weights(key, t, later)
<1>1. Interval(key) \in Nat \ {0} /\ Capacity(key) \in Nat
  BY IntervalPositive, CapacityFacts
<1>2. base \in Int /\ weight \in [HttpRequests -> Int] /\ other \in [HttpRequests -> Int]
      /\ other[r] = Price(Interval(key))[later[r] - t - Interval(key)]
  <2>1. base \in Int /\ weight \in [HttpRequests -> Int]
    BY CoveredTypes
  <2>2. /\ other \in [HttpRequests -> Int]
        /\ \A q \in HttpRequests : other[q] = Price(Interval(key))[later[q] - t - Interval(key)]
    BY CoveredTypes
  <2>. HIDE DEF base, weight, other
  <2>. QED
    BY <2>1, <2>2
<1>3. still \in SUBSET HttpRequests /\ r \in HttpRequests \ still
      /\ \A q \in still : later[q] = reserved[q]
  BY DEF StillLive, Agree
<1>4. \A q \in still : other[q] = weight[q]
  BY <1>3, WeightsAgree, SMT
<1>5. Paid(Interval(key), - tokens, base, still, weight)
  BY PaidAdvance
<1>. HIDE DEF still, base, weight, other
<1>6. /\ - tokens \in Int /\ - tokens + Interval(key) = - c.tokens /\ - c.tokens \in Int
      /\ wait = IF - tokens + Interval(key) < 0 THEN 0 ELSE - tokens + Interval(key)
      /\ c.last = t /\ c.lastEvent = t + wait
  BY <1>1, SMT DEF Made
<1>7. other[r] = Price(Interval(key))[wait - Interval(key)]
  <2>1. later[r] - t - Interval(key) = wait - Interval(key)
    BY <1>1, SMT
  <2>. QED
    BY <1>2, <2>1
<1>8. Paid(Interval(key), - tokens + Interval(key), base, still \cup {r}, other)
  BY <1>1, <1>2, <1>3, <1>4, <1>5, <1>6, <1>7, PaidReserve
<1>9. c.last <= c.lastEvent /\ - c.tokens <= c.lastEvent - c.last
  BY <1>6, SMT
<1>. QED
  BY <1>6, <1>8, <1>9 DEF Covered, still, base, other

\* CancelAt, when there is something to restore.
LEMMA CoveredCancel ==
    ASSUME NEW key \in BucketKeys, NEW b, IsBucket(key, b), NEW count \in Nat,
           NEW live \in SUBSET HttpRequests, NEW reserved \in [HttpRequests -> Nat],
           Covered(key, b, count, live, reserved),
           NEW r \in live, NEW restored \in Nat \ {0},
           restored = Interval(key) - (b.lastEvent - reserved[r]),
           NEW c, Made(c, IF Capacity(key) <= b.tokens + restored THEN Capacity(key)
                          ELSE b.tokens + restored,
                       b.last,
                       IF reserved[r] = b.lastEvent /\ reserved[r] - Interval(key) >= b.last
                       THEN reserved[r] - Interval(key) ELSE b.lastEvent),
           NEW later \in [HttpRequests -> Nat], Agree(live \ {r}, reserved, later)
    PROVE  Covered(key, c, count, live \ {r}, later)
<1>. PICK t \in Nat : t = b.last
  BY DEF IsBucket
<1>. DEFINE base == Base(key, t, count)
            weight == Weights(key, t, reserved)
            other == Weights(key, t, later)
            event == b.lastEvent - t
<1>1. Interval(key) \in Nat \ {0} /\ Capacity(key) \in Nat
  BY IntervalPositive, CapacityFacts
<1>2. /\ b.tokens \in Int /\ b.tokens <= Capacity(key) /\ b.lastEvent \in Nat
      /\ r \in HttpRequests /\ reserved[r] \in Nat /\ live \ {r} \in SUBSET HttpRequests
  BY DEF IsBucket
<1>3. base \in Int /\ weight \in [HttpRequests -> Int] /\ other \in [HttpRequests -> Int]
      /\ weight[r] = Price(Interval(key))[reserved[r] - t - Interval(key)]
  BY <1>2, CoveredTypes, SMT
<1>4. \A q \in live \ {r} : other[q] = weight[q]
  BY <1>2, WeightsAgree, SMT DEF Agree
<1>5. /\ Paid(Interval(key), - b.tokens, base, live, weight)
      /\ event \in Nat /\ - b.tokens <= event
  BY <1>2, SMT DEF Covered
<1>6. weight[r] = Price(Interval(key))[event + restored - 2 * Interval(key)]
  <2>1. event + restored - 2 * Interval(key) = reserved[r] - t - Interval(key)
    BY <1>1, <1>2, SMT
  <2>. QED
    BY <1>3, <2>1
<1>7. /\ - b.tokens \in Int /\ - c.tokens \in Int /\ - b.tokens - restored <= - c.tokens
      /\ c.tokens = IF Capacity(key) <= b.tokens + restored THEN Capacity(key)
                    ELSE b.tokens + restored
      /\ c.last = b.last
      /\ c.lastEvent = IF reserved[r] = b.lastEvent /\ reserved[r] - Interval(key) >= b.last
                       THEN reserved[r] - Interval(key) ELSE b.lastEvent
  BY <1>1, <1>2, SMT DEF Made
<1>8. Paid(Interval(key), - c.tokens, base, live \ {r}, other)
  <2>. HIDE DEF base, weight, other, event
  <2>. QED
    BY <1>1, <1>3, <1>4, <1>5, <1>6, <1>7, PaidCancel
<1>9. c.last <= c.lastEvent /\ - c.tokens <= c.lastEvent - c.last
  <2>1. CASE reserved[r] = b.lastEvent /\ reserved[r] - Interval(key) >= b.last
    <3>1. restored = Interval(key) /\ c.lastEvent = b.lastEvent - Interval(key)
      BY <1>1, <1>2, <1>7, <2>1, SMT
    <3>. QED
      BY <1>1, <1>2, <1>5, <1>7, <2>1, <3>1, SMT
  <2>2. CASE ~ (reserved[r] = b.lastEvent /\ reserved[r] - Interval(key) >= b.last)
    <3>1. c.lastEvent = b.lastEvent
      BY <1>7, <2>2
    <3>2. - c.tokens <= - b.tokens
      BY <1>1, <1>2, <1>7, SMT
    <3>. QED
      BY <1>2, <1>5, <1>7, <3>1, <3>2, SMT
  <2>. QED
    BY <2>1, <2>2
<1>. QED
  BY <1>7, <1>8, <1>9 DEF Covered

\* CancelAt, when there is nothing to restore: the request has left.
LEMMA CoveredWithout ==
    ASSUME NEW key \in BucketKeys, NEW b, IsBucket(key, b), NEW count \in Nat,
           NEW live \in SUBSET HttpRequests, NEW reserved \in [HttpRequests -> Nat],
           Covered(key, b, count, live, reserved), NEW r,
           NEW later \in [HttpRequests -> Nat], Agree(live \ {r}, reserved, later)
    PROVE  Covered(key, b, count, live \ {r}, later)
<1>. DEFINE base == Base(key, b.last, count)
            weight == Weights(key, b.last, reserved)
            other == Weights(key, b.last, later)
<1>1. /\ Interval(key) \in Nat \ {0} /\ b.last \in Nat /\ b.tokens \in Int /\ - b.tokens \in Int
      /\ live \ {r} \in SUBSET HttpRequests
  BY IntervalPositive, SMT DEF IsBucket
<1>2. base \in Int /\ weight \in [HttpRequests -> Int] /\ other \in [HttpRequests -> Int]
  BY <1>1, CoveredTypes
<1>3. \A q \in live \ {r} : other[q] = weight[q]
  BY <1>1, WeightsAgree, SMT DEF Agree
<1>4. Paid(Interval(key), - b.tokens, base, live, weight)
  BY DEF Covered
<1>5. Paid(Interval(key), - b.tokens, base, live \ {r}, other)
  <2>. HIDE DEF base, weight, other
  <2>1. CASE r \in live
    BY <1>1, <1>2, <1>3, <1>4, <2>1, PaidWithout
  <2>2. CASE r \notin live
    <3>1. live \ {r} = live
      BY <2>2
    <3>. QED
      BY <1>2, <1>3, <1>4, <3>1, PaidAgree
  <2>. QED
    BY <2>1, <2>2
<1>. QED
  BY <1>5 DEF Covered

\* Reservations that are not live do not matter.
LEMMA CoveredAgree ==
    ASSUME NEW key \in BucketKeys, NEW b, IsBucket(key, b), NEW count \in Nat,
           NEW live \in SUBSET HttpRequests, NEW reserved \in [HttpRequests -> Nat],
           Covered(key, b, count, live, reserved),
           NEW later \in [HttpRequests -> Nat], Agree(live, reserved, later)
    PROVE  Covered(key, b, count, live, later)
<1>. DEFINE base == Base(key, b.last, count)
            weight == Weights(key, b.last, reserved)
            other == Weights(key, b.last, later)
<1>1. b.last \in Nat
  BY DEF IsBucket
<1>2. base \in Int /\ weight \in [HttpRequests -> Int] /\ other \in [HttpRequests -> Int]
  BY <1>1, CoveredTypes
<1>3. \A q \in live : other[q] = weight[q]
  BY WeightsAgree, SMT DEF Agree
<1>4. Paid(Interval(key), - b.tokens, base, live, weight)
  BY DEF Covered
<1>5. Paid(Interval(key), - b.tokens, base, live, other)
  <2>. HIDE DEF base, weight, other
  <2>. QED
    BY <1>2, <1>3, <1>4, PaidAgree
<1>. QED
  BY <1>5 DEF Covered

----------------------------------------------------------------------------
(* Admission *)

\* The buckets in use: every credential is one of the same service.
ServiceKeys == {"order-service"} \X RouteClasses

\* The requests whose reservation was made at the time the bucket is at.
Live(key) == {r \in Cancelling(key) : sampledAt[r] = buckets[key].last}

OrderedInv(key) ==
    ~ disordered[key] =>
        /\ admitted[key[2]] * Interval(key) <= Capacity(key) + clock
        /\ \A r \in Cancelling(key) : sampledAt[r] <= buckets[key].last
        /\ Covered(key, buckets[key], admitted[key[2]], Live(key), reservation)

AdmissionInv ==
    /\ admitted \in [RouteClasses -> Nat]
    /\ disordered \in [BucketKeys -> BOOLEAN]
    /\ bucketOf \in [HttpRequests -> ServiceKeys \cup {NoKey}]
    /\ \A key \in ServiceKeys : OrderedInv(key)

\* A bucket of the service.
LEMMA ServiceKey ==
    ASSUME NEW key \in ServiceKeys
    PROVE  /\ key \in BucketKeys /\ key[2] \in RouteClasses /\ key # NoKey
           /\ \A other \in ServiceKeys : other[2] = key[2] => other = key
<1>1. PICK class \in RouteClasses : key = <<"order-service", class>>
  BY SMT DEF ServiceKeys
<1>2. key \in BucketKeys /\ key[2] \in RouteClasses
  BY <1>1, PrincipalsAssumption DEF BucketKeys
<1>3. key # NoKey
  BY <1>2, NoKeyIsNone
<1>4. \A other \in ServiceKeys : other[2] = key[2] => other = key
  BY <1>1, SMT DEF ServiceKeys
<1>. QED
  BY <1>2, <1>3, <1>4

\* A request at the limiter is at a bucket of the service.
LEMMA AtService ==
    ASSUME HttpInv, AdmissionInv, NEW r \in HttpRequests, pc[r] \in {"allow", "reserve", "cancel"}
    PROVE  bucketOf[r] \in ServiceKeys
<1>1. bucketOf[r] \in BucketKeys
  BY DEF HttpInv, AtLimiter
<1>. QED
  BY <1>1, NoKeyIsNone DEF AdmissionInv

\* Time is counted from zero.
LEMMA TimeNatural == \A t \in 0..MaxTime : t \in Nat
BY MaxTimeAssumption, SMT

\* The bucket as the lemmas above take it.
LEMMA BucketFacts ==
    ASSUME HttpInv, NEW key \in BucketKeys
    PROVE  /\ IsBucket(key, buckets[key])
           /\ buckets[key].tokens \in Int /\ buckets[key].tokens <= Capacity(key)
           /\ buckets[key].last \in Nat /\ buckets[key].last <= clock
           /\ buckets[key].lastEvent \in Nat /\ clock \in Nat
           /\ reservation \in [HttpRequests -> Nat]
           /\ Live(key) \in SUBSET HttpRequests
<1>1. /\ buckets[key] \in Bucket /\ buckets[key].tokens <= Capacity(key) /\ clock \in Nat
      /\ reservation \in [HttpRequests -> Nat]
  BY TimeNatural DEF HttpInv, HttpTypeOK, LimiterTypeOK
<1>2. /\ buckets[key].tokens \in Int /\ buckets[key].last \in 0..clock /\ buckets[key].lastEvent \in Nat
  BY <1>1 DEF Bucket
<1>. QED
  BY <1>1, <1>2, SMT DEF IsBucket, Live, Cancelling

\* What a bucket holds at a time that is not before its last one.
LEMMA AdvancedTokens ==
    ASSUME HttpInv, NEW key \in BucketKeys, NEW t \in 0..clock, buckets[key].last <= t
    PROVE  HeldAt(key, buckets[key], t, Advanced(key, t).tokens)
<1>. DEFINE sum == buckets[key].tokens + (IF t > buckets[key].last THEN t - buckets[key].last ELSE 0)
<1>1. /\ buckets[key].tokens \in Int /\ buckets[key].last \in Nat /\ t \in Nat /\ sum \in Int
      /\ sum = buckets[key].tokens + (t - buckets[key].last) /\ Capacity(key) \in Int
  BY BucketFacts, CapacityFacts, SMT
<1>2. Advanced(key, t) = [buckets[key] EXCEPT !.tokens = Min({Capacity(key), sum}), !.last = t]
  BY DEF Advanced
<1>. HIDE DEF sum
<1>3. Min({Capacity(key), sum}) = IF Capacity(key) <= sum THEN Capacity(key) ELSE sum
  BY <1>1, MinMax
<1>4. buckets[key] \in Bucket
  BY DEF HttpInv, LimiterTypeOK
<1>5. Advanced(key, t).tokens = Min({Capacity(key), sum})
  BY <1>2, <1>4 DEF Bucket
<1>. QED
  BY <1>1, <1>3, <1>5 DEF HeldAt

\* The last event of a bucket after a cancellation.
LEMMA CancelledEvent ==
    ASSUME HttpInv, NEW key \in BucketKeys, NEW t \in 0..clock, NEW timeToAct \in Nat
    PROVE  Cancelled(key, t, timeToAct).lastEvent =
              IF timeToAct = buckets[key].lastEvent /\ timeToAct - Interval(key) >= t
              THEN timeToAct - Interval(key) ELSE buckets[key].lastEvent
<1>. DEFINE b == Advanced(key, t)
            tokens == Min({Capacity(key), b.tokens + Restored(key, timeToAct)})
            event == IF timeToAct = b.lastEvent /\ timeToAct - Interval(key) >= t
                     THEN timeToAct - Interval(key) ELSE b.lastEvent
<1>1. b \in Bucket /\ b.lastEvent = buckets[key].lastEvent
  BY AdvancedFacts
<1>2. Cancelled(key, t, timeToAct) = [b EXCEPT !.tokens = tokens, !.lastEvent = event]
  BY DEF Cancelled
<1>. HIDE DEF b, tokens, event
<1>3. Cancelled(key, t, timeToAct).lastEvent = event
  BY <1>1, <1>2 DEF Bucket
<1>. QED
  BY <1>1, <1>3 DEF event

\* A step that does not touch a bucket of the service or its live reservations.
LEMMA AdmissionKept ==
    ASSUME HttpInv, HttpInv', AdmissionInv, NEW key \in ServiceKeys,
           buckets'[key] = buckets[key], admitted'[key[2]] = admitted[key[2]],
           disordered'[key] = disordered[key], clock <= clock',
           Cancelling(key)' = Cancelling(key),
           \A r \in Cancelling(key) : /\ reservation'[r] = reservation[r]
                                      /\ sampledAt'[r] = sampledAt[r]
    PROVE  OrderedInv(key)'
<1>1. key \in BucketKeys /\ key[2] \in RouteClasses
  BY ServiceKey
<1>2. SUFFICES ASSUME ~ disordered'[key] PROVE OrderedInv(key)'
  BY DEF OrderedInv
<1>3. /\ admitted[key[2]] * Interval(key) <= Capacity(key) + clock
      /\ \A r \in Cancelling(key) : sampledAt[r] <= buckets[key].last
      /\ Covered(key, buckets[key], admitted[key[2]], Live(key), reservation)
  BY <1>2 DEF AdmissionInv, OrderedInv
<1>4. Live(key)' = Live(key)
  BY DEF Live, Cancelling
<1>5. /\ IsBucket(key, buckets[key]) /\ Live(key) \in SUBSET HttpRequests
      /\ reservation \in [HttpRequests -> Nat] /\ clock \in Nat
  BY <1>1, BucketFacts
<1>6. reservation' \in [HttpRequests -> Nat] /\ clock' \in Nat
  BY TimeNatural DEF HttpInv, LimiterTypeOK, HttpTypeOK
<1>7. Agree(Live(key), reservation, reservation')
  BY DEF Live, Agree
<1>8. admitted[key[2]] \in Nat /\ Interval(key) \in Nat /\ Capacity(key) \in Nat
  BY <1>1, CapacityFacts DEF AdmissionInv
<1>9. Covered(key, buckets[key], admitted[key[2]], Live(key), reservation')
  BY <1>1, <1>3, <1>5, <1>6, <1>7, <1>8, CoveredAgree
<1>10. admitted[key[2]] * Interval(key) <= Capacity(key) + clock'
  <2>1. admitted[key[2]] * Interval(key) \in Nat
    BY <1>8, SMT
  <2>. QED
    BY <1>3, <1>5, <1>6, <1>8, <2>1, SMT
<1>11. \A r \in Cancelling(key)' : sampledAt'[r] <= buckets'[key].last
  BY <1>3
<1>. QED
  BY <1>4, <1>9, <1>10, <1>11 DEF OrderedInv

\* A request outside of cancel moves on.
LEMMA AdmissionQuiet ==
    ASSUME HttpInv, HttpInv', AdmissionInv,
           UNCHANGED <<clock, buckets, reservation, admitted, disordered>>,
           NEW r \in HttpRequests, NEW step, pc[r] # "cancel", step # "cancel", GoTo(r, step),
           \A q \in HttpRequests \ {r} : bucketOf'[q] = bucketOf[q] /\ sampledAt'[q] = sampledAt[q]
    PROVE  \A key \in ServiceKeys : OrderedInv(key)'
<1>. SUFFICES ASSUME NEW key \in ServiceKeys PROVE OrderedInv(key)'
  OBVIOUS
<1>1. pc \in [HttpRequests -> Steps] /\ clock \in Nat
  BY TimeNatural DEF HttpInv, HttpTypeOK
<1>2. Cancelling(key)' = Cancelling(key) /\ r \notin Cancelling(key)
  BY <1>1 DEF Cancelling, GoTo
<1>3. \A q \in Cancelling(key) : sampledAt'[q] = sampledAt[q]
  BY <1>2 DEF Cancelling
<1>. QED
  BY <1>1, <1>2, <1>3, AdmissionKept, SMT

\* A bucket that is not r's does not notice r's step.
LEMMA AdmissionOther ==
    ASSUME HttpInv, HttpInv', AdmissionInv, NEW r \in HttpRequests, bucketOf[r] \in ServiceKeys,
           NEW step, GoTo(r, step), clock' = clock,
           bucketOf' \in {bucketOf, [bucketOf EXCEPT ![r] = NoKey]},
           NEW key \in ServiceKeys, key # bucketOf[r],
           buckets'[key] = buckets[key], admitted'[key[2]] = admitted[key[2]],
           disordered'[key] = disordered[key],
           \A q \in HttpRequests \ {r} : reservation'[q] = reservation[q] /\ sampledAt'[q] = sampledAt[q]
    PROVE  OrderedInv(key)'
<1>1. /\ pc \in [HttpRequests -> Steps] /\ clock \in Nat
      /\ bucketOf \in [HttpRequests -> BucketKeys \cup {NoKey}]
  BY TimeNatural DEF HttpInv, HttpTypeOK
<1>2. key # NoKey
  BY ServiceKey
<1>3. Cancelling(key)' = Cancelling(key) /\ r \notin Cancelling(key)
  BY <1>1, <1>2 DEF Cancelling, GoTo
<1>4. \A q \in Cancelling(key) : reservation'[q] = reservation[q] /\ sampledAt'[q] = sampledAt[q]
  BY <1>3 DEF Cancelling
<1>. QED
  BY <1>1, <1>3, <1>4, AdmissionKept, SMT

\* A token is taken at once.
LEMMA AllowAdmission ==
    ASSUME HttpInv, HttpInv', AdmissionInv, NEW r \in HttpRequests, Allow(r)
    PROVE  AdmissionInv'
<1>. PICK k \in ServiceKeys : k = bucketOf[r]
  BY AtService DEF Allow
<1>. PICK t \in 0..clock : t = sampledAt[r]
  BY DEF HttpInv, HttpTypeOK
<1>. DEFINE c == Reserved(k, t)
            n == admitted[k[2]]
<1>1. /\ pc \in [HttpRequests -> Steps] /\ pc[r] = "allow" /\ LimiterTypeOK
      /\ bucketOf \in [HttpRequests -> BucketKeys \cup {NoKey}]
      /\ sampledAt \in [HttpRequests -> 0..clock] /\ reservation \in [HttpRequests -> Nat]
      /\ reservation' \in [HttpRequests -> Nat]
  BY DEF HttpInv, HttpTypeOK, LimiterTypeOK, Allow
<1>2. /\ k \in BucketKeys /\ k[2] \in RouteClasses /\ k # NoKey
      /\ \A key \in ServiceKeys : key[2] = k[2] => key = k
  BY ServiceKey
<1>3. /\ GoTo(r, "admitted") /\ bucketOf' = [bucketOf EXCEPT ![r] = NoKey]
      /\ sampledAt' = [sampledAt EXCEPT ![r] = 0]
      /\ reservation' = [reservation EXCEPT ![r] = 0]
      /\ buckets' = [buckets EXCEPT ![k] = c]
      /\ admitted' = [admitted EXCEPT ![k[2]] = n + 1]
      /\ disordered' = [disordered EXCEPT ![k] = @ \/ t < buckets[k].last]
      /\ clock' = clock /\ WaitFor(Taken(k, t)) = 0
  BY DEF Allow, Return
<1>4. /\ admitted \in [RouteClasses -> Nat] /\ n \in Nat
      /\ disordered \in [BucketKeys -> BOOLEAN]
      /\ bucketOf \in [HttpRequests -> ServiceKeys \cup {NoKey}]
  BY <1>2 DEF AdmissionInv
<1>. HIDE DEF c, n
<1>5. /\ admitted' \in [RouteClasses -> Nat]
      /\ disordered' \in [BucketKeys -> BOOLEAN]
      /\ bucketOf' \in [HttpRequests -> ServiceKeys \cup {NoKey}]
  BY <1>2, <1>3, <1>4, SMT
<1>6. ASSUME NEW key \in ServiceKeys, key # k PROVE OrderedInv(key)'
  <2>1. key \in BucketKeys /\ key[2] \in RouteClasses /\ key[2] # k[2]
    BY <1>2, <1>6, ServiceKey
  <2>2. buckets'[key] = buckets[key] /\ admitted'[key[2]] = admitted[key[2]]
        /\ disordered'[key] = disordered[key]
    BY <1>1, <1>2, <1>3, <1>4, <1>6, <2>1 DEF LimiterTypeOK
  <2>3. \A q \in HttpRequests \ {r} : reservation'[q] = reservation[q] /\ sampledAt'[q] = sampledAt[q]
    BY <1>1, <1>3
  <2>. QED
    BY <1>3, <1>6, <2>2, <2>3, AdmissionOther
<1>7. ASSUME ~ disordered'[k] PROVE OrderedInv(k)'
  <2>. DEFINE tokens == Advanced(k, t).tokens
              b == buckets[k]
  <2>1. /\ IsBucket(k, b) /\ b.last \in Nat /\ Live(k) \in SUBSET HttpRequests /\ clock \in Nat
    BY <1>2, BucketFacts
  <2>2. ~ disordered[k] /\ b.last <= t /\ t \in Nat /\ t <= clock
    <3>1. ~ (disordered[k] \/ t < b.last)
      BY <1>2, <1>3, <1>4, <1>7
    <3>. QED
      BY <2>1, <3>1, SMT
  <2>3. /\ \A q \in Cancelling(k) : sampledAt[q] <= b.last
        /\ Covered(k, b, n, Live(k), reservation)
    BY <2>2 DEF AdmissionInv, OrderedInv, n
  <2>4. tokens \in Int /\ HeldAt(k, b, t, tokens)
    BY <1>2, <2>2, AdvancedFacts, AdvancedTokens DEF Bucket
  <2>5. /\ c.tokens = tokens - Interval(k) /\ c.last = t /\ c.lastEvent = t + 0
        /\ - (tokens - Interval(k)) <= 0
    BY <1>2, <1>3, ReservedFacts, SMT DEF c
  <2>6. Interval(k) <= tokens /\ c.lastEvent = t /\ Interval(k) \in Nat /\ Capacity(k) \in Nat
    BY <1>2, <2>2, <2>4, <2>5, CapacityFacts, SMT
  <2>7. Cancelling(k)' = Cancelling(k) /\ r \notin Cancelling(k)
    BY <1>1, <1>2, <1>3 DEF Cancelling, GoTo
  <2>8. \A q \in Cancelling(k) : /\ reservation'[q] = reservation[q]
                                 /\ sampledAt'[q] = sampledAt[q] /\ sampledAt[q] \in Nat
    BY <1>1, <1>3, <2>1, <2>7, SMT DEF Cancelling
  <2>9. /\ Covered(k, c, n + 1, StillLive(b, t, Live(k)), reservation')
        /\ (n + 1) * Interval(k) <= Capacity(k) + t
    <3>1. Agree(Live(k), reservation, reservation')
      BY <2>8 DEF Live, Agree
    <3>2. Made(c, tokens - Interval(k), t, t)
      BY <2>5, <2>6 DEF Made
    <3>. HIDE DEF tokens, b
    <3>. QED
      BY <1>1, <1>2, <1>4, <2>1, <2>2, <2>3, <2>4, <2>6, <3>1, <3>2, CoveredAllow
  <2>10. buckets'[k] = c /\ admitted'[k[2]] = n + 1
    BY <1>1, <1>2, <1>3, <1>4 DEF LimiterTypeOK
  <2>11. Live(k)' = StillLive(b, t, Live(k))
    <3>1. Live(k)' = {q \in Cancelling(k) : sampledAt[q] = t}
      BY <2>5, <2>7, <2>8, <2>10 DEF Live
    <3>2. CASE t = b.last
      BY <3>1, <3>2 DEF StillLive, Live
    <3>3. CASE t > b.last
      BY <2>1, <2>2, <2>3, <2>8, <3>1, <3>3, SMT DEF StillLive
    <3>. QED
      BY <2>1, <2>2, <3>2, <3>3, SMT
  <2>12. (n + 1) * Interval(k) <= Capacity(k) + clock'
    <3>1. (n + 1) * Interval(k) \in Nat
      BY <1>4, <2>6, SMT
    <3>. QED
      BY <1>3, <2>1, <2>2, <2>6, <2>9, <3>1, SMT
  <2>13. \A q \in Cancelling(k)' : sampledAt'[q] <= buckets'[k].last
    BY <2>1, <2>2, <2>3, <2>5, <2>7, <2>8, <2>10, SMT
  <2>. QED
    BY <2>9, <2>10, <2>11, <2>12, <2>13 DEF OrderedInv
<1>8. OrderedInv(k)'
  BY <1>7 DEF OrderedInv
<1>. QED
  BY <1>5, <1>6, <1>8 DEF AdmissionInv

\* A token is reserved, to learn the delay.
LEMMA ReserveAdmission ==
    ASSUME HttpInv, HttpInv', AdmissionInv, NEW r \in HttpRequests, ReserveNext(r)
    PROVE  AdmissionInv'
<1>. PICK k \in ServiceKeys : k = bucketOf[r]
  BY AtService DEF ReserveNext
<1>. PICK t \in 0..clock : t = sampledAt[r]
  BY DEF HttpInv, HttpTypeOK
<1>. DEFINE c == Reserved(k, t)
            n == admitted[k[2]]
<1>1. /\ pc \in [HttpRequests -> Steps] /\ pc[r] = "reserve" /\ LimiterTypeOK
      /\ sampledAt \in [HttpRequests -> 0..clock] /\ reservation \in [HttpRequests -> Nat]
      /\ reservation' \in [HttpRequests -> Nat]
  BY DEF HttpInv, HttpTypeOK, LimiterTypeOK, ReserveNext
<1>2. k \in BucketKeys /\ k[2] \in RouteClasses
  BY ServiceKey
<1>3. /\ GoTo(r, "cancel") /\ UNCHANGED <<clock, bucketOf, sampledAt, admitted>>
      /\ reservation' = [reservation EXCEPT ![r] = c.lastEvent]
      /\ buckets' = [buckets EXCEPT ![k] = c]
      /\ disordered' = [disordered EXCEPT ![k] = @ \/ t < buckets[k].last]
  BY DEF ReserveNext
<1>4. /\ admitted \in [RouteClasses -> Nat] /\ n \in Nat
      /\ disordered \in [BucketKeys -> BOOLEAN]
      /\ bucketOf \in [HttpRequests -> ServiceKeys \cup {NoKey}]
  BY <1>2 DEF AdmissionInv
<1>. HIDE DEF c, n
<1>5. /\ admitted' \in [RouteClasses -> Nat]
      /\ disordered' \in [BucketKeys -> BOOLEAN]
      /\ bucketOf' \in [HttpRequests -> ServiceKeys \cup {NoKey}]
  BY <1>2, <1>3, <1>4
<1>6. ASSUME NEW key \in ServiceKeys, key # k PROVE OrderedInv(key)'
  <2>1. key \in BucketKeys
    BY ServiceKey
  <2>2. buckets'[key] = buckets[key] /\ disordered'[key] = disordered[key]
    BY <1>1, <1>2, <1>3, <1>4, <1>6, <2>1 DEF LimiterTypeOK
  <2>3. \A q \in HttpRequests \ {r} : reservation'[q] = reservation[q] /\ sampledAt'[q] = sampledAt[q]
    BY <1>1, <1>3
  <2>. QED
    BY <1>3, <1>6, <2>2, <2>3, AdmissionOther
<1>7. ASSUME ~ disordered'[k] PROVE OrderedInv(k)'
  <2>. DEFINE tokens == Advanced(k, t).tokens
              b == buckets[k]
              wait == WaitFor(Taken(k, t))
  <2>1. /\ IsBucket(k, b) /\ b.last \in Nat /\ Live(k) \in SUBSET HttpRequests /\ clock \in Nat
    BY <1>2, BucketFacts
  <2>2. ~ disordered[k] /\ b.last <= t /\ t \in Nat /\ t <= clock
    <3>1. ~ (disordered[k] \/ t < b.last)
      BY <1>2, <1>3, <1>4, <1>7
    <3>. QED
      BY <2>1, <3>1, SMT
  <2>3. /\ n * Interval(k) <= Capacity(k) + clock
        /\ \A q \in Cancelling(k) : sampledAt[q] <= b.last
        /\ Covered(k, b, n, Live(k), reservation)
    BY <2>2 DEF AdmissionInv, OrderedInv, n
  <2>4. tokens \in Int /\ HeldAt(k, b, t, tokens)
    BY <1>2, <2>2, AdvancedFacts, AdvancedTokens DEF Bucket
  <2>5. /\ c.tokens = tokens - Interval(k) /\ c.last = t /\ c.lastEvent = t + wait
        /\ Taken(k, t).tokens = tokens - Interval(k) /\ wait \in Nat
    BY <1>2, ReservedFacts DEF c
  <2>6. wait = IF tokens < Interval(k) THEN Interval(k) - tokens ELSE 0
    <3>1. Interval(k) \in Nat
      BY <1>2, CapacityFacts
    <3>. QED
      BY <2>4, <2>5, <3>1, SMT DEF WaitFor
  <2>7. Cancelling(k)' = Cancelling(k) \cup {r} /\ r \notin Cancelling(k)
    BY <1>1, <1>3 DEF Cancelling, GoTo
  <2>8. /\ \A q \in Cancelling(k) : reservation'[q] = reservation[q] /\ sampledAt[q] \in Nat
        /\ reservation'[r] = t + wait
    BY <1>1, <1>3, <2>1, <2>5, <2>7, SMT DEF Cancelling
  <2>9. Covered(k, c, n, StillLive(b, t, Live(k)) \cup {r}, reservation')
    <3>1. Agree(Live(k), reservation, reservation')
      BY <2>8 DEF Live, Agree
    <3>2. Made(c, tokens - Interval(k), t, t + wait)
      BY <2>5 DEF Made
    <3>3. r \in HttpRequests \ Live(k)
      BY <2>7 DEF Live
    <3>. HIDE DEF tokens, b, wait
    <3>. QED
      BY <1>1, <1>2, <1>4, <2>1, <2>2, <2>3, <2>4, <2>5, <2>6, <2>8, <3>1, <3>2, <3>3, CoveredReserve
  <2>10. buckets'[k] = c /\ admitted'[k[2]] = n
    BY <1>1, <1>2, <1>3 DEF LimiterTypeOK, n
  <2>11. Live(k)' = StillLive(b, t, Live(k)) \cup {r}
    <3>1. Live(k)' = {q \in Cancelling(k) : sampledAt[q] = t} \cup {r}
      BY <1>3, <2>5, <2>7, <2>10 DEF Live
    <3>2. CASE t = b.last
      BY <3>1, <3>2 DEF StillLive, Live
    <3>3. CASE t > b.last
      <4>1. {q \in Cancelling(k) : sampledAt[q] = t} = {}
        BY <2>1, <2>2, <2>3, <2>8, <3>3, SMT
      <4>. QED
        BY <2>1, <2>2, <3>1, <3>3, <4>1, SMT DEF StillLive
    <3>. QED
      BY <2>1, <2>2, <3>2, <3>3, SMT
  <2>12. \A q \in Cancelling(k)' : sampledAt'[q] <= buckets'[k].last
    <3>1. \A q \in Cancelling(k) : sampledAt[q] <= t
      BY <2>1, <2>2, <2>3, <2>8, SMT
    <3>. QED
      BY <1>3, <2>2, <2>5, <2>7, <2>10, <3>1, SMT
  <2>. QED
    BY <1>3, <2>3, <2>9, <2>10, <2>11, <2>12 DEF OrderedInv
<1>8. OrderedInv(k)'
  BY <1>7 DEF OrderedInv
<1>. QED
  BY <1>5, <1>6, <1>8 DEF AdmissionInv

\* The reservation is cancelled.
LEMMA CancelAdmission ==
    ASSUME HttpInv, HttpInv', AdmissionInv, NEW r \in HttpRequests, CancelReservation(r)
    PROVE  AdmissionInv'
<1>. PICK k \in ServiceKeys : k = bucketOf[r]
  BY AtService DEF CancelReservation
<1>. PICK t \in 0..clock : t = sampledAt[r]
  BY DEF HttpInv, HttpTypeOK
<1>. DEFINE c == Cancelled(k, t, reservation[r])
            n == admitted[k[2]]
            restored == Restored(k, reservation[r])
            b == buckets[k]
<1>1. /\ pc \in [HttpRequests -> Steps] /\ pc[r] = "cancel" /\ LimiterTypeOK
      /\ sampledAt \in [HttpRequests -> 0..clock] /\ reservation \in [HttpRequests -> Nat]
      /\ reservation' \in [HttpRequests -> Nat] /\ reservation[r] \in Nat
      /\ bucketOf \in [HttpRequests -> BucketKeys \cup {NoKey}]
  BY DEF HttpInv, HttpTypeOK, LimiterTypeOK, CancelReservation
<1>2. k \in BucketKeys /\ k[2] \in RouteClasses /\ k # NoKey
  BY ServiceKey
<1>3. /\ GoTo(r, "limited") /\ bucketOf' = [bucketOf EXCEPT ![r] = NoKey]
      /\ sampledAt' = [sampledAt EXCEPT ![r] = 0]
      /\ reservation' = [reservation EXCEPT ![r] = 0]
      /\ UNCHANGED <<clock, admitted>>
      /\ \/ /\ restored > 0 /\ buckets' = [buckets EXCEPT ![k] = c]
            /\ disordered' = [disordered EXCEPT ![k] = @ \/ t < b.last]
         \/ restored <= 0 /\ UNCHANGED <<buckets, disordered>>
  BY DEF CancelReservation, Promise, Return
<1>4. /\ admitted \in [RouteClasses -> Nat] /\ n \in Nat
      /\ disordered \in [BucketKeys -> BOOLEAN]
      /\ bucketOf \in [HttpRequests -> ServiceKeys \cup {NoKey}]
  BY <1>2 DEF AdmissionInv
<1>. HIDE DEF c, n, restored
<1>5. /\ admitted' \in [RouteClasses -> Nat]
      /\ disordered' \in [BucketKeys -> BOOLEAN]
      /\ bucketOf' \in [HttpRequests -> ServiceKeys \cup {NoKey}]
  BY <1>2, <1>3, <1>4
<1>6. ASSUME NEW key \in ServiceKeys, key # k PROVE OrderedInv(key)'
  <2>1. key \in BucketKeys
    BY ServiceKey
  <2>2. buckets'[key] = buckets[key] /\ disordered'[key] = disordered[key]
    BY <1>1, <1>2, <1>3, <1>4, <1>6, <2>1 DEF LimiterTypeOK
  <2>3. \A q \in HttpRequests \ {r} : reservation'[q] = reservation[q] /\ sampledAt'[q] = sampledAt[q]
    BY <1>1, <1>3
  <2>. QED
    BY <1>3, <1>6, <2>2, <2>3, AdmissionOther
<1>7. ASSUME ~ disordered'[k] PROVE OrderedInv(k)'
  <2>1. /\ IsBucket(k, b) /\ b.last \in Nat /\ b.lastEvent \in Nat /\ b.tokens \in Int
        /\ b.tokens <= Capacity(k) /\ Live(k) \in SUBSET HttpRequests /\ clock \in Nat
    BY <1>2, BucketFacts
  <2>2. ~ disordered[k] /\ t \in Nat /\ (restored > 0 => ~ (t < b.last))
    <3>1. ~ disordered[k] /\ (restored > 0 => ~ (t < b.last))
      <4>1. CASE restored > 0 /\ disordered' = [disordered EXCEPT ![k] = @ \/ t < b.last]
        <5>1. ~ (disordered[k] \/ t < b.last)
          BY <1>2, <1>4, <1>7, <4>1
        <5>. QED
          BY <5>1
      <4>2. CASE restored <= 0 /\ disordered' = disordered
        <5>1. restored \in Int
          BY <1>1, <1>2, CancelledFacts DEF restored
        <5>. QED
          BY <1>7, <4>2, <5>1, SMT
      <4>. QED
        BY <1>3, <4>1, <4>2
    <3>. QED
      BY <2>1, <3>1, SMT
  <2>3. /\ n * Interval(k) <= Capacity(k) + clock
        /\ \A q \in Cancelling(k) : sampledAt[q] <= b.last
        /\ Covered(k, b, n, Live(k), reservation)
    BY <2>2 DEF AdmissionInv, OrderedInv, n
  <2>4. Cancelling(k)' = Cancelling(k) \ {r} /\ r \in Cancelling(k)
    BY <1>1, <1>2, <1>3 DEF Cancelling, GoTo
  <2>5. \A q \in Cancelling(k) \ {r} : reservation'[q] = reservation[q] /\ sampledAt'[q] = sampledAt[q]
    BY <1>1, <1>3 DEF Cancelling
  <2>6. Agree(Live(k) \ {r}, reservation, reservation')
    BY <2>5 DEF Live, Agree
  <2>7. CASE restored > 0 /\ buckets' = [buckets EXCEPT ![k] = c]
    <3>1. t = b.last /\ r \in Live(k)
      <4>1. t = b.last
        BY <2>1, <2>2, <2>3, <2>4, <2>7, SMT
      <4>. QED
        BY <2>4, <4>1 DEF Live
    <3>2. restored \in Nat \ {0} /\ restored = Interval(k) - (b.lastEvent - reservation[r])
      <4>1. restored \in Int
        BY <1>1, <1>2, CancelledFacts DEF restored
      <4>. QED
        BY <2>7, <4>1, SMT DEF restored, Restored
    <3>3. Advanced(k, t).tokens = b.tokens
      <4>1. HeldAt(k, b, t, Advanced(k, t).tokens)
        BY <1>2, <2>1, <3>1, AdvancedTokens, SMT
      <4>2. Capacity(k) \in Nat
        BY <1>2, CapacityFacts
      <4>. QED
        BY <2>1, <3>1, <4>1, <4>2, SMT DEF HeldAt
    <3>4. Made(c, IF Capacity(k) <= b.tokens + restored THEN Capacity(k) ELSE b.tokens + restored,
               b.last,
               IF reservation[r] = b.lastEvent /\ reservation[r] - Interval(k) >= b.last
               THEN reservation[r] - Interval(k) ELSE b.lastEvent)
      <4>1. /\ c.last = t
            /\ c.tokens = IF Capacity(k) <= b.tokens + restored THEN Capacity(k)
                          ELSE b.tokens + restored
        BY <1>1, <1>2, <3>3, CancelledFacts, SMT DEF c, restored
      <4>2. c.lastEvent = IF reservation[r] = b.lastEvent /\ reservation[r] - Interval(k) >= t
                          THEN reservation[r] - Interval(k) ELSE b.lastEvent
        BY <1>1, <1>2, CancelledEvent DEF c
      <4>. QED
        BY <3>1, <4>1, <4>2 DEF Made
    <3>5. Covered(k, c, n, Live(k) \ {r}, reservation')
      <4>. HIDE DEF b
      <4>. QED
        BY <1>1, <1>2, <1>4, <2>1, <2>3, <2>6, <3>1, <3>2, <3>4, CoveredCancel
    <3>6. buckets'[k] = c /\ c.last = b.last /\ admitted'[k[2]] = n
      BY <1>1, <1>2, <1>3, <2>7, <3>4 DEF LimiterTypeOK, n, Made
    <3>7. Live(k)' = Live(k) \ {r}
      BY <2>4, <2>5, <3>6 DEF Live
    <3>8. \A q \in Cancelling(k)' : sampledAt'[q] <= buckets'[k].last
      BY <2>3, <2>4, <2>5, <3>6
    <3>. QED
      BY <1>3, <2>3, <3>5, <3>6, <3>7, <3>8 DEF OrderedInv
  <2>8. CASE buckets' = buckets
    <3>1. Covered(k, b, n, Live(k) \ {r}, reservation')
      <4>. HIDE DEF b
      <4>. QED
        BY <1>1, <1>2, <1>4, <2>1, <2>3, <2>6, CoveredWithout
    <3>2. buckets'[k] = b /\ admitted'[k[2]] = n
      BY <1>3, <2>8 DEF n
    <3>3. Live(k)' = Live(k) \ {r}
      BY <2>4, <2>5, <3>2 DEF Live
    <3>4. \A q \in Cancelling(k)' : sampledAt'[q] <= buckets'[k].last
      BY <2>3, <2>4, <2>5, <3>2
    <3>. QED
      BY <1>3, <2>3, <3>1, <3>2, <3>3, <3>4 DEF OrderedInv
  <2>. QED
    BY <1>3, <2>7, <2>8
<1>8. OrderedInv(k)'
  BY <1>7 DEF OrderedInv
<1>. QED
  BY <1>5, <1>6, <1>8 DEF AdmissionInv

\* Every step leaves what was admitted paid for.
LEMMA AdmissionSteps ==
    ASSUME HttpInv, HttpInv', AdmissionInv, [HttpNext]_httpVars
    PROVE  AdmissionInv'
<1>1. /\ admitted \in [RouteClasses -> Nat] /\ disordered \in [BucketKeys -> BOOLEAN]
      /\ bucketOf \in [HttpRequests -> ServiceKeys \cup {NoKey}]
      /\ \A key \in ServiceKeys : OrderedInv(key)
  BY DEF AdmissionInv
<1>2. ASSUME UNCHANGED <<admitted, disordered>>,
             bucketOf' \in [HttpRequests -> ServiceKeys \cup {NoKey}],
             \A key \in ServiceKeys : OrderedInv(key)'
      PROVE  AdmissionInv'
  BY <1>1, <1>2 DEF AdmissionInv
<1>3. ASSUME NEW r \in HttpRequests, NEW x \in Exchanges, Arrive(r, x) PROVE AdmissionInv'
  <2>1. CASE FindBucket(r, <<Principal(x.credential), RouteClass(x.route)>>)
    <3>. DEFINE key == <<Principal(x.credential), RouteClass(x.route)>>
    <3>1. key \in ServiceKeys
      BY DEF ServiceKeys, Principal, RouteClass, RouteClasses
    <3>. HIDE DEF key
    <3>2. /\ pc[r] = "new" /\ GoTo(r, "clock") /\ bucketOf' = [bucketOf EXCEPT ![r] = key]
          /\ UNCHANGED <<clock, buckets, sampledAt, reservation, admitted, disordered>>
      BY <1>3, <2>1 DEF Arrive, FindBucket, limiterHistory, key
    <3>3. /\ bucketOf' \in [HttpRequests -> ServiceKeys \cup {NoKey}]
          /\ \A q \in HttpRequests \ {r} : bucketOf'[q] = bucketOf[q] /\ sampledAt'[q] = sampledAt[q]
      BY <1>1, <3>1, <3>2
    <3>4. \A k \in ServiceKeys : OrderedInv(k)'
      BY <3>2, <3>3, AdmissionQuiet
    <3>. QED
      BY <1>2, <3>2, <3>3, <3>4
  <2>2. CASE Answer(r, Gate(x))
             /\ UNCHANGED <<clock, buckets, bucketOf, sampledAt, reservation, limiterHistory>>
    <3>1. /\ pc[r] = "new" /\ GoTo(r, "answered")
          /\ UNCHANGED <<clock, buckets, bucketOf, sampledAt, reservation, admitted, disordered>>
      BY <1>3, <2>2 DEF Arrive, Answer, limiterHistory
    <3>2. \A k \in ServiceKeys : OrderedInv(k)'
      BY <3>1, AdmissionQuiet
    <3>. QED
      BY <1>1, <1>2, <3>1, <3>2
  <2>. QED
    BY <1>3, <2>1, <2>2 DEF Arrive
<1>4. ASSUME NEW r \in HttpRequests, ReadClock(r) PROVE AdmissionInv'
  <2>1. /\ pc[r] = "clock" /\ GoTo(r, "allow") /\ sampledAt' = [sampledAt EXCEPT ![r] = clock]
        /\ UNCHANGED <<clock, buckets, bucketOf, reservation, admitted, disordered>>
    BY <1>4 DEF ReadClock, limiterHistory
  <2>2. \A q \in HttpRequests \ {r} : bucketOf'[q] = bucketOf[q] /\ sampledAt'[q] = sampledAt[q]
    BY <2>1 DEF HttpInv, HttpTypeOK
  <2>3. \A k \in ServiceKeys : OrderedInv(k)'
    BY <2>1, <2>2, AdmissionQuiet
  <2>. QED
    BY <1>1, <1>2, <2>1, <2>3
<1>5. ASSUME NEW r \in HttpRequests, NEW step \in {"reserve", "answered", "handle", "gone"},
             pc[r] \in {"allow", "limited", "admitted", "handle", "answered"}, GoTo(r, step),
             UNCHANGED <<clock, buckets, bucketOf, sampledAt, reservation, admitted, disordered>>
      PROVE  AdmissionInv'
  <2>1. \A k \in ServiceKeys : OrderedInv(k)'
    BY <1>5, AdmissionQuiet
  <2>. QED
    BY <1>1, <1>2, <1>5, <2>1
<1>6. ASSUME NEW r \in HttpRequests, Refuse(r) PROVE AdmissionInv'
  BY <1>5, <1>6 DEF Refuse
<1>7. ASSUME NEW r \in HttpRequests, TooManyRequests(r) \/ CallApplication(r) \/ Respond(r)
                                        \/ AbortHandler(r) \/ Leave(r)
      PROVE  AdmissionInv'
  BY <1>5, <1>7 DEF TooManyRequests, CallApplication, Respond, AbortHandler, Leave, Forget, Answer,
                    limiterHistory
<1>8. ASSUME clock <= clock',
             UNCHANGED <<buckets, pc, bucketOf, sampledAt, reservation, admitted, disordered>>
      PROVE  AdmissionInv'
  <2>1. ASSUME NEW key \in ServiceKeys PROVE OrderedInv(key)'
    <3>1. Cancelling(key)' = Cancelling(key)
      BY <1>8 DEF Cancelling
    <3>. QED
      BY <1>8, <3>1, AdmissionKept
  <2>. QED
    BY <1>1, <1>2, <1>8, <2>1
<1>9. CASE TimePasses \/ UNCHANGED httpVars
  <2>1. clock \in Nat
    BY TimeNatural DEF HttpInv, HttpTypeOK
  <2>2. clock' = clock + 1 \/ clock' = clock
    BY <1>9 DEF TimePasses, Tick, httpVars, limiterVars
  <2>3. UNCHANGED <<buckets, pc, bucketOf, sampledAt, reservation, admitted, disordered>>
    BY <1>9 DEF TimePasses, Tick, httpVars, limiterVars, limiterHistory
  <2>. QED
    BY <1>8, <2>1, <2>2, <2>3, SMT
<1>. QED
  BY <1>3, <1>4, <1>6, <1>7, <1>9, AllowAdmission, ReserveAdmission, CancelAdmission
  DEF HttpNext, Limit, Reserve, Finished

\* Nothing is admitted yet, and every bucket is full.
LEMMA AdmissionInit == HttpInit => AdmissionInv
<1>. SUFFICES ASSUME HttpInit PROVE AdmissionInv
  OBVIOUS
<1>1. /\ clock = 0 /\ buckets = [key \in BucketKeys |-> NewBucket(key)]
      /\ bucketOf = [r \in HttpRequests |-> NoKey] /\ reservation = [r \in HttpRequests |-> 0]
      /\ admitted = [class \in RouteClasses |-> 0] /\ disordered = [key \in BucketKeys |-> FALSE]
      /\ pc = [r \in HttpRequests |-> "new"]
  BY DEF HttpInit, LimiterInit
<1>2. ASSUME NEW key \in ServiceKeys PROVE OrderedInv(key)
  <2>1. key \in BucketKeys /\ key[2] \in RouteClasses
    BY ServiceKey
  <2>2. Interval(key) \in Nat \ {0} /\ Capacity(key) \in Nat
    BY <2>1, IntervalPositive, CapacityFacts
  <2>3. Cancelling(key) = {} /\ Live(key) = {}
    BY <1>1 DEF Cancelling, Live
  <2>4. admitted[key[2]] = 0 /\ reservation \in [HttpRequests -> Nat]
    BY <1>1, <2>1
  <2>5. /\ buckets[key].tokens = Capacity(key) /\ buckets[key].last = 0
        /\ buckets[key].lastEvent = 0
    BY <1>1, <2>1 DEF NewBucket
  <2>6. Base(key, 0, 0) = - Capacity(key) /\ Weights(key, 0, reservation) \in [HttpRequests -> Int]
    <3>1. Weights(key, 0, reservation) \in [HttpRequests -> Int]
      BY <2>1, <2>4, CoveredTypes
    <3>2. Interval(key) * 0 = 0
      BY <2>2, SMT
    <3>. QED
      BY <2>2, <3>1, <3>2, SMT DEF Base
  <2>7. Paid(Interval(key), - Capacity(key), - Capacity(key), {}, Weights(key, 0, reservation))
    <3>1. - Capacity(key) \in Int /\ - Capacity(key) <= - Capacity(key)
      BY <2>2, SMT
    <3>. QED
      BY <2>2, <2>6, <3>1, PaidAnew
  <2>8. Covered(key, buckets[key], 0, {}, reservation)
    BY <2>2, <2>5, <2>6, <2>7, SMT DEF Covered
  <2>9. 0 * Interval(key) <= Capacity(key) + clock
    <3>1. 0 * Interval(key) = 0
      BY <2>2, SMT
    <3>. QED
      BY <1>1, <2>2, <3>1, SMT
  <2>. QED
    BY <2>3, <2>4, <2>8, <2>9 DEF OrderedInv
<1>. QED
  BY <1>1, <1>2 DEF AdmissionInv

----------------------------------------------------------------------------
(* Theorems *)

\* For all rates and bursts, any number of requests, and however their calls of the
\* bucket interleave: as long as requests come to the bucket in the order in which
\* they read the clock, a route class admits no more than its burst and what its
\* rate has earned since, over all the credentials of the service.
THEOREM HttpAdmittedWithinLimit == HttpSpec => []AdmittedWithinLimit
<1>1. HttpInit => AdmissionInv
  BY AdmissionInit
<1>2. HttpInv /\ HttpInv' /\ AdmissionInv /\ [HttpNext]_httpVars => AdmissionInv'
  BY AdmissionSteps
<1>3. AdmissionInv => AdmittedWithinLimit
  <2>. SUFFICES ASSUME AdmissionInv, NEW class \in RouteClasses,
                       \A key \in BucketKeys : ~ (key[2] = class /\ disordered[key])
                PROVE  admitted[class] * Interval(<<"order-service", class>>) <=
                          Capacity(<<"order-service", class>>) + clock
    BY DEF AdmittedWithinLimit
  <2>1. PICK key \in ServiceKeys : key = <<"order-service", class>> /\ key[2] = class
    <3>1. <<"order-service", class>> \in ServiceKeys
      BY DEF ServiceKeys
    <3>. QED
      BY <3>1
  <2>2. ~ disordered[key]
    BY <2>1, ServiceKey
  <2>3. OrderedInv(key)
    BY DEF AdmissionInv
  <2>. QED
    BY <2>1, <2>2, <2>3 DEF OrderedInv
<1>. QED
  BY <1>1, <1>2, <1>3, HttpInvariant, PTL DEF HttpSpec
=============================================================================
