---------------------------- MODULE RateLimiter ----------------------------
(***************************************************************************)
(* The budget of one key (apps/web/src/lib/ratelimit/limiter.ts): a token  *)
(* bucket that all replicas share in Redis, and one in the memory of each  *)
(* replica for when Redis fails.  The bucket has no clock of its own; a    *)
(* replica reads its clock before it calls the script, so that scripts run *)
(* with times that are late, and not in order.                             *)
(*                                                                         *)
(* Stores do not read each other, so a behaviour follows one of them and   *)
(* the calls it gets; the others answer the rest.                          *)
(*                                                                         *)
(* Units.  Time is in ticks, and tokens are in the parts that come with a  *)
(* tick; a request costs Cost of them.                                     *)
(***************************************************************************)
EXTENDS Integers, FiniteSetsExt

CONSTANTS
    Replicas,       \* web processes
    Requests,       \* requests of the client at one time
    Ahead,          \* per replica: how far its clock is ahead
    Skew,           \* how far a clock is ahead at most
    Capacity,       \* RATE_LIMITS.capacity, in parts
    Cost,           \* a token, in parts
    TicksPerSecond, \* what Retry-After is rounded to
    Headroom,       \* how much longer than a refill Redis keeps a bucket
    MaxTime,        \* bound: ticks
    Nobody          \* no bucket, no request

ASSUME RateAssumption ==
    /\ Skew \in Nat /\ Ahead \in [Replicas -> 0..Skew]
    /\ Headroom \in Nat /\ MaxTime \in Nat
    /\ Cost \in Nat \ {0} /\ Capacity \in Nat /\ Capacity >= Cost
    /\ TicksPerSecond \in Nat \ {0}
    /\ "redis" \notin Replicas

VARIABLES
    clock,      \* the time
    store,      \* the store that is followed
    bucket,     \* its TokenBucketState for the key
    quiet,      \* ticks since the script last set its expiry
    request,    \* requests that have read the clock
    account,    \* history: what it may still allow, and the last time it was given
    told,       \* history: when the client that was refused may retry
    disorder    \* history: has it run with a time that was too old?

rateVars == <<clock, store, bucket, quiet, request, account, told, disorder>>

-----------------------------------------------------------------------------
Stores == Replicas \cup {"redis"}
Times == 0..(MaxTime + Skew)
Bucket == [tokens : 0..Capacity, ts : Times]
Request == [at : Replicas, now : Times]
Account == [credit : Int, last : Times]

ASSUME NobodyAssumption == Nobody \notin Bucket \cup Request \cup Account

RateTypeOK ==
    /\ clock \in 0..MaxTime /\ quiet \in Nat /\ store \in Stores
    /\ bucket \in Bucket \cup {Nobody}
    /\ request \in [Requests -> Request \cup {Nobody}]
    /\ account \in Account \cup {Nobody}
    /\ told \in Nat /\ disorder \in BOOLEAN

RateInit ==
    /\ clock = 0 /\ quiet = 0 /\ store \in Stores
    /\ bucket = Nobody /\ account = Nobody /\ told = 0 /\ disorder = FALSE
    /\ request = [q \in Requests |-> Nobody]

-----------------------------------------------------------------------------
\* refill: what has come since, to the brim; the last time seen is the new one, older
\* or not.
Refill(b, now) ==
    [tokens |-> Min({Capacity, b.tokens + Max({0, now - b.ts})}), ts |-> now]

\* retryAfterMs in seconds, rounded up.
RetryAfter(tokens) == (Cost - tokens + TicksPerSecond - 1) \div TicksPerSecond

\* A bucket for which there is none is full.
Refilled(now) ==
    Refill(IF bucket = Nobody THEN [tokens |-> Capacity, ts |-> now] ELSE bucket, now)

Consume(now) ==
    LET b == Refilled(now)
        allowed == b.tokens >= Cost
        was == IF account = Nobody THEN [credit |-> Capacity, last |-> now] ELSE account
    IN  /\ bucket' = [b EXCEPT !.tokens = IF allowed THEN @ - Cost ELSE @]
        /\ account' =
              IF disorder' THEN Nobody
              ELSE [credit |-> was.credit + now - was.last - (IF allowed THEN Cost ELSE 0),
                    last |-> now]
        /\ told' = IF allowed THEN 0
                   ELSE IF told # 0 THEN told
                   ELSE now + RetryAfter(b.tokens) * TicksPerSecond

\* rateLimit reads Date.now().
AskLimit(q, r) ==
    /\ request[q] = Nobody
    /\ request' = [request EXCEPT ![q] = [at |-> r, now |-> clock + Ahead[r]]]
    /\ UNCHANGED <<clock, store, bucket, quiet, account, told, disorder>>

LimitAnswered(q) == request' = [request EXCEPT ![q] = Nobody]

OlderThanSeen(now) == account # Nobody /\ now < account.last

\* The headroom has to cover the time a call is under way and what clocks differ by.
Late(c) == clock - (c.now - Ahead[c.at]) + Skew > Headroom

\* limitInRedis: the script.
LimitInRedis(q) ==
    /\ request[q] # Nobody
    /\ LimitAnswered(q)
    /\ \/ /\ store = "redis"
          /\ disorder' = (disorder \/ OlderThanSeen(request[q].now) \/ Late(request[q]))
          /\ Consume(request[q].now)
          /\ quiet' = 0
       \/ store # "redis" /\ UNCHANGED <<bucket, quiet, account, told, disorder>>
    /\ UNCHANGED <<clock, store>>

\* limitInMemory, when the script could not be run: the clock is the one that was read.
LimitInMemory(q) ==
    /\ request[q] # Nobody
    /\ LimitAnswered(q)
    /\ \/ /\ store = request[q].at
          /\ disorder' = (disorder \/ OlderThanSeen(request[q].now))
          /\ Consume(request[q].now)
       \/ store # request[q].at /\ UNCHANGED <<bucket, account, told, disorder>>
    /\ UNCHANGED <<clock, store, quiet>>

\* Fault: a bucket is dropped before it would be full.
TtlTooShort == Capacity - Cost

\* ttlSec.
Ttl == Capacity + Headroom

\* The time goes on, and Redis drops a bucket nobody has asked for.
TimePasses ==
    /\ clock < MaxTime /\ clock' = clock + 1
    /\ quiet' = IF store = "redis" /\ bucket # Nobody THEN quiet + 1 ELSE 0
    /\ bucket' = IF quiet' >= Ttl THEN Nobody ELSE bucket
    /\ UNCHANGED <<store, request, account, told, disorder>>

\* A replica starts again, with no buckets in its memory.
RestartReplica(r) ==
    /\ request' = [q \in Requests |->
          IF request[q] # Nobody /\ request[q].at = r THEN Nobody ELSE request[q]]
    /\ \/ /\ store = r
          /\ bucket' = Nobody /\ account' = Nobody /\ told' = 0 /\ disorder' = FALSE
       \/ store # r /\ UNCHANGED <<bucket, account, told, disorder>>
    /\ UNCHANGED <<clock, store, quiet>>

RateNext ==
    \/ \E q \in Requests :
          \/ \E r \in Replicas : AskLimit(q, r)
          \/ LimitInRedis(q) \/ LimitInMemory(q)
    \/ TimePasses
    \/ \E r \in Replicas : RestartReplica(r)

RateSpec == RateInit /\ [][RateNext]_rateVars

-----------------------------------------------------------------------------
(***************************************************************************)
(* Properties.                                                             *)
(***************************************************************************)

\* Whichever replicas ask, and however long the key was left alone, a store allows a
\* burst of the capacity and then what has come in since, as long as the clocks run
\* on from call to call and no call is later than the headroom allows (limiter.ts:
\* 15-16, 108-109; token-bucket.ts:8-11).
BudgetKept == account # Nobody => account.credit >= 0

\* A client that was refused and waits as long as it was told to finds a token, if no
\* other request was given it, also when times were out of order (limiter.ts:88-91,
\* token-bucket.ts:86-93).
RetryAfterIsEnough == told # 0 => Refilled(told).tokens >= Cost

\* A bucket, over either store, with clocks that disagree.
BudgetHolds ==
    /\ RateTypeOK
    /\ BudgetKept
    /\ RetryAfterIsEnough
=============================================================================
