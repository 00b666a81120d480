---------------------------- MODULE RateLimiter ----------------------------
(***************************************************************************)
(* RateLimiter.Reserve of gateway/internal/httpapi/rate_limiter.go, run by *)
(* concurrent requests:                                                    *)
(*                                                                         *)
(*   clock -> allow -> admitted                                            *)
(*                  -> reserve -> cancel -> limited                        *)
(*                                                                         *)
(* The map lock covers the first step only; each call of the token bucket  *)
(* (golang.org/x/time/rate) is atomic under the bucket's own lock, and     *)
(* nothing holds the calls of one request together.  The bucket is         *)
(* external.  Tokens are counted in the ticks it takes to earn them, so    *)
(* one tick earns one unit and a request costs Interval units.             *)
(***************************************************************************)
EXTENDS Integers, FiniteSetsExt

CONSTANTS HttpRequests,      \* requests, each served once
          Principals,        \* identities that may be given a bucket
          TicksPerSecond,    \* the grain of the clock
          RequestsPerSecond, \* by route class
          Burst,             \* by route class
          MaxTime            \* bound: the clock stops here

RouteClasses == {"read", "write"}

\* RateLimitConfig.validate: every setting is positive.  The rates divide the
\* grain of the clock, which makes Interval exact.
RateLimitConfigValid ==
    /\ TicksPerSecond \in Nat \ {0}
    /\ RequestsPerSecond \in [RouteClasses -> Nat \ {0}]
    /\ Burst \in [RouteClasses -> Nat \ {0}]
    /\ \A class \in RouteClasses : TicksPerSecond % RequestsPerSecond[class] = 0

ASSUME RateLimitAssumption == RateLimitConfigValid
ASSUME MaxTimeAssumption == MaxTime \in Nat

VARIABLES clock,        \* the system clock
          buckets,      \* the token bucket of each principal and route class
          pc,           \* where each request is
          bucketOf,     \* the bucket a request takes its token from
          sampledAt,    \* the time it read from the clock
          reservation,  \* when its reserved token would be earned
          admitted,     \* history: requests a route class let pass, over all principals
          disordered,   \* history: a bucket was given an earlier time than before
          pledged,      \* history: the time the Retry-After of a request will name,
                        \* unless a token is taken before it is sent
          promised,     \* history: the earliest time a Retry-After names for a token
          overlapped    \* history: two rejections were at work on a bucket at once

limiterVars == <<clock, buckets, pc, bucketOf, sampledAt, reservation>>
limiterHistory == <<admitted, disordered, pledged, promised, overlapped>>

BucketKeys == Principals \X RouteClasses
NoKey == <<>>

Interval(key) == TicksPerSecond \div RequestsPerSecond[key[2]]
Capacity(key) == Burst[key[2]] * Interval(key)

\* A later time than any promise.
Never == MaxTime + TicksPerSecond * MaxTime + 1

\* Mutant of NewBucket: the burst of the other route class.
NewBucketSwapped(key) ==
    LET other == IF key[2] = "read" THEN "write" ELSE "read"
    IN [tokens |-> Burst[other] * Interval(key), last |-> 0, lastEvent |-> 0]

NewBucket(key) == [tokens |-> Capacity(key), last |-> 0, lastEvent |-> 0]

LimiterInit ==
    /\ clock = 0
    /\ buckets = [key \in BucketKeys |-> NewBucket(key)]
    /\ bucketOf = [r \in HttpRequests |-> NoKey]
    /\ sampledAt = [r \in HttpRequests |-> 0]
    /\ reservation = [r \in HttpRequests |-> 0]
    /\ admitted = [class \in RouteClasses |-> 0]
    /\ disordered = [key \in BucketKeys |-> FALSE]
    /\ pledged = [r \in HttpRequests |-> Never]
    /\ promised = [key \in BucketKeys |-> Never]
    /\ overlapped = [key \in BucketKeys |-> FALSE]

----------------------------------------------------------------------------
(* The token bucket: Limiter.advance, reserveN and Reservation.CancelAt *)

\* A time before the bucket's last one sets the bucket's clock back.
Advanced(key, t) ==
    LET b == buckets[key]
        earned == IF t > b.last THEN t - b.last ELSE 0
    IN [b EXCEPT !.tokens = Min({Capacity(key), @ + earned}), !.last = t]

\* A token taken at t, at once or in the future, by a request of cost Interval.
Taken(key, t) == [Advanced(key, t) EXCEPT !.tokens = @ - Interval(key)]

WaitFor(bucket) == IF bucket.tokens < 0 THEN - bucket.tokens ELSE 0

Reserved(key, t) ==
    LET taken == Taken(key, t) IN [taken EXCEPT !.lastEvent = t + WaitFor(taken)]

\* What CancelAt gives back: not what later reservations have built on.
Restored(key, timeToAct) == Interval(key) - (buckets[key].lastEvent - timeToAct)

Cancelled(key, t, timeToAct) ==
    LET b == Advanced(key, t)
        previous == timeToAct - Interval(key)
    IN [b EXCEPT !.tokens = Min({Capacity(key), @ + Restored(key, timeToAct)}),
                 !.lastEvent = IF timeToAct = @ /\ previous >= t THEN previous ELSE @]

----------------------------------------------------------------------------
(* RateLimiter.Reserve *)

GoTo(r, step) == pc' = [pc EXCEPT ![r] = step]

\* The locals of Reserve are gone when it returns.
Return(r, step) ==
    /\ GoTo(r, step)
    /\ bucketOf' = [bucketOf EXCEPT ![r] = NoKey]
    /\ sampledAt' = [sampledAt EXCEPT ![r] = 0]
    /\ reservation' = [reservation EXCEPT ![r] = 0]

\* Find or create the bucket, under the lock of the map.  A new bucket is full.
FindBucket(r, key) ==
    /\ GoTo(r, "clock")
    /\ bucketOf' = [bucketOf EXCEPT ![r] = key]
    /\ UNCHANGED <<clock, buckets, sampledAt, reservation, limiterHistory>>

\* The clock is read after the lock is given up.
ReadClock(r) ==
    /\ pc[r] = "clock"
    /\ GoTo(r, "allow")
    /\ sampledAt' = [sampledAt EXCEPT ![r] = clock]
    /\ UNCHANGED <<clock, buckets, bucketOf, reservation, limiterHistory>>

\* AllowN: a token is there, and is taken.
Allow(r) ==
    LET key == bucketOf[r]
        t == sampledAt[r]
    IN
    /\ pc[r] = "allow"
    /\ WaitFor(Taken(key, t)) = 0
    /\ Return(r, "admitted")
    /\ buckets' = [buckets EXCEPT ![key] = Reserved(key, t)]
    /\ admitted' = [admitted EXCEPT ![key[2]] = @ + 1]
    /\ disordered' = [disordered EXCEPT ![key] = @ \/ t < buckets[key].last]
    /\ pledged' = [q \in HttpRequests |-> IF bucketOf[q] = key THEN Never ELSE pledged[q]]
    /\ promised' = [promised EXCEPT ![key] = Never]
    /\ UNCHANGED <<clock, overlapped>>

Rejecting(key) == {r \in HttpRequests : bucketOf[r] = key /\ pc[r] \in {"reserve", "cancel"}}

\* AllowN: no token; the bucket is left as it was.
Refuse(r) ==
    LET key == bucketOf[r] IN
    /\ pc[r] = "allow"
    /\ WaitFor(Taken(key, sampledAt[r])) > 0
    /\ GoTo(r, "reserve")
    /\ overlapped' = [overlapped EXCEPT ![key] = @ \/ Rejecting(key) # {}]
    /\ UNCHANGED <<clock, buckets, bucketOf, sampledAt, reservation,
                   admitted, disordered, pledged, promised>>

\* The delay in whole seconds, rounded up and at least one.
Seconds(ticks) == Max({1, (ticks + TicksPerSecond - 1) \div TicksPerSecond})

\* ReserveN, only to learn how long the next token takes, and the delay that
\* Retry-After will give.
ReserveNext(r) ==
    LET key == bucketOf[r]
        t == sampledAt[r]
        reserved == Reserved(key, t)
        delay == Seconds(reserved.lastEvent - t)
    IN
    /\ pc[r] = "reserve"
    /\ GoTo(r, "cancel")
    /\ buckets' = [buckets EXCEPT ![key] = reserved]
    /\ reservation' = [reservation EXCEPT ![r] = reserved.lastEvent]
    /\ disordered' = [disordered EXCEPT ![key] = @ \/ t < buckets[key].last]
    /\ pledged' = [pledged EXCEPT ![r] = t + delay * TicksPerSecond]
    /\ UNCHANGED <<clock, bucketOf, sampledAt, admitted, promised, overlapped>>

\* Reserve returns, with the delay.
Promise(r) ==
    /\ Return(r, "limited")
    /\ promised' = [promised EXCEPT ![bucketOf[r]] = Min({@, pledged[r]})]
    /\ pledged' = [pledged EXCEPT ![r] = Never]

\* Mutant of CancelReservation: the reservation made to learn the delay is kept.
CancelReservationForgotten(r) ==
    /\ pc[r] = "cancel"
    /\ Promise(r)
    /\ UNCHANGED <<clock, buckets, admitted, disordered, overlapped>>

\* CancelAt.
CancelReservation(r) ==
    LET key == bucketOf[r]
        t == sampledAt[r]
    IN
    /\ pc[r] = "cancel"
    /\ \/ /\ Restored(key, reservation[r]) > 0
          /\ buckets' = [buckets EXCEPT ![key] = Cancelled(key, t, reservation[r])]
          /\ disordered' = [disordered EXCEPT ![key] = @ \/ t < buckets[key].last]
       \/ /\ Restored(key, reservation[r]) <= 0
          /\ UNCHANGED <<buckets, disordered>>
    /\ Promise(r)
    /\ UNCHANGED <<clock, admitted, overlapped>>

Reserve(r) ==
    ReadClock(r) \/ Allow(r) \/ Refuse(r) \/ ReserveNext(r) \/ CancelReservation(r)

Tick ==
    /\ clock < MaxTime
    /\ clock' = clock + 1
    /\ UNCHANGED <<buckets, pc, bucketOf, sampledAt, reservation, limiterHistory>>
=============================================================================
