------------------------------ MODULE HttpApi ------------------------------
(***************************************************************************)
(* The versioned payment API of gateway/internal/httpapi: the chain of     *)
(* middleware around the handlers, composed with the rate limiter.         *)
(*                                                                         *)
(*   arrive: authenticate -> scope -> (rate limiter) -> body -> handle     *)
(*                                                                         *)
(* The middleware before and after the limiter touches nothing shared, so  *)
(* the checks up to it are one step and the checks after it another.  The  *)
(* application behind the handlers returns any result it may return.       *)
(***************************************************************************)
EXTENDS RateLimiter

CONSTANTS Exchanges,    \* what callers may send
          Credentials   \* the configured credentials: the scopes each grants

VARIABLES exchange,     \* what each request sent
          answer,       \* the status it is answered with, 0 before and for an aborted one
          ran           \* history: requests that called the application

httpVars == <<limiterVars, limiterHistory, exchange, answer, ran>>

Routes == {"search", "get", "authorize", "retry", "capture", "void", "refund"}
Scopes == {"payments:read", "payments:write"}

\* What each route requires and which bucket it draws from.
Scope(route) == IF route \in {"search", "get"} THEN "payments:read" ELSE "payments:write"
RouteClass(route) == IF route \in {"search", "get"} THEN "read" ELSE "write"

\* How the rest of a request compares with what its handler asks for.
Inputs == {"good", "oversized", "wrong_media", "malformed", "unreadable", "invalid"}

ASSUME PrincipalsAssumption == "order-service" \in Principals
ASSUME ExchangesAssumption ==
    \A x \in Exchanges : /\ DOMAIN x = {"route", "credential", "input"}
                         /\ x.route \in Routes /\ x.input \in Inputs
\* NewAuthenticator: a credential grants at least one scope, and only known ones.
ASSUME CredentialsAssumption ==
    \A c \in DOMAIN Credentials : Credentials[c] \in (SUBSET Scopes) \ {{}}

NoExchange == [route |-> "", credential |-> "", input |-> ""]

HttpInit ==
    /\ LimiterInit
    /\ pc = [r \in HttpRequests |-> "new"]
    /\ exchange = [r \in HttpRequests |-> NoExchange]
    /\ answer = [r \in HttpRequests |-> 0]
    /\ ran = {}

----------------------------------------------------------------------------
(* The status of an answer *)

\* Mutant of Principal: the principal is the credential it was given.
PrincipalOfCredential(credential) == credential

\* Every credential authenticates the same service.
Principal(credential) == "order-service"

\* requireAuthentication and requireScope (0 when they let the request pass).
Gate(x) ==
    IF x.credential \notin DOMAIN Credentials THEN 401
    ELSE IF Scope(x.route) \notin Credentials[x.credential] THEN 403
    ELSE 0

\* limitRequestBody, which all routes share (each of these is 0 when nothing is wrong).
BodyLimit(x) == IF x.input = "oversized" THEN 413 ELSE 0

\* isJSONRequest, decodeJSONRequest and requireEmptyRequestBody.  Queries read no body.
BodyError(x) ==
    IF x.route \in {"search", "get"} THEN 0
    ELSE IF x.input = "wrong_media" /\ x.route \in {"authorize", "retry"} THEN 415
    ELSE IF x.input = "malformed" THEN 400
    ELSE IF x.input = "unreadable" THEN 500
    ELSE 0

\* The constructors of commands and queries.
ConstructorError(x) == IF x.input = "invalid" THEN 422 ELSE 0

\* The first check that fails answers.
InputError(x) ==
    IF BodyLimit(x) # 0 THEN BodyLimit(x)
    ELSE IF BodyError(x) # 0 THEN BodyError(x)
    ELSE ConstructorError(x)

PaymentErrorKinds == {"invalid_input", "not_found", "idempotency_conflict",
                      "idempotency_in_progress", "payment_status_conflict",
                      "authorization_expired", "bank_state_conflict",
                      "bank_unavailable", "bank_timeout", "internal"}

\* Mutant of ErrorStatus: a bank that cannot be reached is blamed on the caller.
ErrorStatusBlamingCaller(kind) ==
    CASE kind = "invalid_input" -> 422
      [] kind \in {"idempotency_conflict", "idempotency_in_progress",
                   "payment_status_conflict", "authorization_expired"} -> 409
      [] kind = "not_found" -> 404
      [] OTHER -> 400

\* writePaymentServiceError
ErrorStatus(kind) ==
    CASE kind = "invalid_input" -> 422
      [] kind \in {"idempotency_conflict", "idempotency_in_progress",
                   "payment_status_conflict", "authorization_expired"} -> 409
      [] kind = "not_found" -> 404
      [] kind \in {"bank_state_conflict", "bank_unavailable"} -> 502
      [] kind = "bank_timeout" -> 504
      [] OTHER -> 500

\* An authorization whose outcome is not known yet is accepted, not created.
SuccessStatus(route, paymentStatus) ==
    IF route # "authorize" THEN 200 ELSE IF paymentStatus = "pending" THEN 202 ELSE 201

\* A deadline that passed hides whatever the application returned; a panic is
\* answered by recoverPanic.
HandlerStatuses(route) ==
    {SuccessStatus(route, status) : status \in {"pending", "settled"}}
        \cup {ErrorStatus(kind) : kind \in PaymentErrorKinds}
        \cup {504, 500}

----------------------------------------------------------------------------
(* The life of a request *)

Answer(r, status) ==
    /\ GoTo(r, "answered")
    /\ answer' = [answer EXCEPT ![r] = status]

\* The request is authenticated, and goes to the bucket of its principal.
Arrive(r, x) ==
    /\ pc[r] = "new"
    /\ exchange' = [exchange EXCEPT ![r] = x]
    /\ \/ /\ Gate(x) = 0
          /\ FindBucket(r, <<Principal(x.credential), RouteClass(x.route)>>)
          /\ UNCHANGED answer
       \/ /\ Gate(x) # 0
          /\ Answer(r, Gate(x))
          /\ UNCHANGED <<clock, buckets, bucketOf, sampledAt, reservation,
                         limiterHistory>>
    /\ UNCHANGED ran

Limit(r) == Reserve(r) /\ UNCHANGED <<exchange, answer, ran>>

\* 429 with Retry-After.
TooManyRequests(r) ==
    /\ pc[r] = "limited"
    /\ Answer(r, 429)
    /\ UNCHANGED <<clock, buckets, bucketOf, sampledAt, reservation,
                   limiterHistory, exchange, ran>>

\* The body is read and the command or query built, then the application is called.
CallApplication(r) ==
    LET error == InputError(exchange[r]) IN
    /\ pc[r] = "admitted"
    /\ \/ /\ error = 0
          /\ GoTo(r, "handle")
          /\ ran' = ran \cup {r}
          /\ UNCHANGED answer
       \/ /\ error # 0
          /\ Answer(r, error)
          /\ UNCHANGED ran
    /\ UNCHANGED <<clock, buckets, bucketOf, sampledAt, reservation,
                   limiterHistory, exchange>>

Respond(r) ==
    /\ pc[r] = "handle"
    /\ \E status \in HandlerStatuses(exchange[r].route) : Answer(r, status)
    /\ UNCHANGED <<clock, buckets, bucketOf, sampledAt, reservation,
                   limiterHistory, exchange, ran>>

\* The connection is done with the request: its state goes with it.
Forget(r) ==
    /\ GoTo(r, "gone")
    /\ exchange' = [exchange EXCEPT ![r] = NoExchange]
    /\ answer' = [answer EXCEPT ![r] = 0]
    /\ ran' = ran \ {r}
    /\ UNCHANGED <<clock, buckets, bucketOf, sampledAt, reservation, limiterHistory>>

\* http.ErrAbortHandler is panicked again: the connection ends without an answer.
AbortHandler(r) == pc[r] = "handle" /\ Forget(r)

\* The caller has its answer.
Leave(r) == pc[r] = "answered" /\ Forget(r)

TimePasses == Tick /\ UNCHANGED <<exchange, answer, ran>>

\* Bound: no request and no time is left.
Finished ==
    /\ clock = MaxTime
    /\ \A r \in HttpRequests : pc[r] = "gone"
    /\ UNCHANGED httpVars

HttpNext ==
    \/ \E r \in HttpRequests :
          \/ \E x \in Exchanges : Arrive(r, x)
          \/ Limit(r) \/ TooManyRequests(r) \/ CallApplication(r)
          \/ Respond(r) \/ AbortHandler(r) \/ Leave(r)
    \/ TimePasses
    \/ Finished

HttpSpec == HttpInit /\ [][HttpNext]_httpVars
----------------------------------------------------------------------------
(* Properties *)

Steps == {"new", "clock", "allow", "admitted", "reserve", "cancel", "limited", "handle",
          "answered", "gone"}

\* Every request is at a step of its route, and a bucket never holds more than
\* its burst.
HttpTypeOK ==
    /\ clock \in 0..MaxTime
    /\ \A key \in BucketKeys :
          /\ buckets[key].tokens <= Capacity(key)
          /\ buckets[key].last \in 0..clock
          /\ buckets[key].lastEvent \in Nat
    /\ pc \in [HttpRequests -> Steps]
    /\ bucketOf \in [HttpRequests -> BucketKeys \cup {NoKey}]
    /\ sampledAt \in [HttpRequests -> 0..clock]
    /\ exchange \in [HttpRequests -> Exchanges \cup {NoExchange}]
    /\ answer \in [HttpRequests -> Nat]
    /\ ran \subseteq HttpRequests

\* Over all the credentials of the service, a route class admits no more than its
\* burst and what its rate has earned since, however reservations and their
\* cancellations interleave (RateLimiter.Reserve), as long as requests come to
\* the bucket in the order in which they read the clock.
AdmittedWithinLimit ==
    \A class \in RouteClasses :
        LET service == <<"order-service", class>> IN
        \/ admitted[class] * Interval(service) <= Capacity(service) + clock
        \/ \E key \in BucketKeys : key[2] = class /\ disordered[key]

\* AllowN refuses r.
Refused(r) == pc[r] = "allow" /\ pc'[r] = "reserve"

\* Where no two rejections overlap, a caller that comes at the time an earlier
\* Retry-After named, and before anyone else took the token, is not rejected:
\* learning the delay (ReserveN, CancelAt) costs nobody a token.
RetryAfterExact ==
    [][\A r \in HttpRequests :
          Refused(r) /\ ~overlapped'[bucketOf[r]] => sampledAt[r] < promised[bucketOf[r]]]_httpVars

\* The same of all rejections, as the comment in Reserve has it: "Calculating
\* Retry-After must not reserve future capacity: callers can retry exactly when
\* the header says a token will be available."
RetryAfterHonoured ==
    [][\A r \in HttpRequests :
          Refused(r) => sampledAt[r] < promised[bucketOf[r]]]_httpVars

\* A status that tells the caller its request was refused at the door is never
\* the answer to one that reached the application, where it may have moved money
\* (the middleware chain, decodeJSONRequest and writePaymentServiceError).  422 is no
\* such status: a command's constructor refuses its input with it, and the same
\* status passes on that the bank did, after the command ran.
RefusedBeforeRunning ==
    \A r \in HttpRequests :
        answer[r] \in {400, 401, 403, 413, 415, 429} => r \notin ran

=============================================================================
