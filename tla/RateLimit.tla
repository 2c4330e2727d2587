------------------------------ MODULE RateLimit ------------------------------
(***************************************************************************)
(* The limiter of duplicate process signals (RateLimit.cpp): a cache of    *)
(* token buckets, one per process key, that is emptied when it overflows.  *)
(***************************************************************************)
EXTENDS Integers, FiniteSets, Sequences

CONSTANTS
    Keys,           \* what compute_process_key returns
    Capacity,       \* RateLimitCache::capacity_
    BurstSize,      \* TimeLimiter::burst_size_
    RefillTime      \* TimeLimiter::refill_time_

ASSUME LimitAssumption ==
    Capacity \in Nat \ {0} /\ BurstSize \in Nat \ {0} /\ RefillTime \in Nat \ {0}

Bucket == [tokens : Int, last_time : Int]

EmptyBucket == [tokens |-> 0, last_time |-> 0]

FullBucket(now) == [tokens |-> BurstSize, last_time |-> now]

\* int64_t division, which truncates towards zero.
Truncated(a, b) == IF a >= 0 THEN a \div b ELSE -((-a) \div b)

RefillCount(b, now) == Truncated(now - b.last_time, RefillTime)

\* Faulty variant: a refill adds to what is left.
RefillAccumulating(b, now) ==
    LET c == IF b.last_time = 0 THEN FullBucket(now) ELSE b
        n == RefillCount(c, now)
    IN  [tokens |-> c.tokens + n * BurstSize, last_time |-> c.last_time + n * RefillTime]

\* What AllowN does before it looks at the tokens.
Refill(b, now) ==
    LET c == IF b.last_time = 0 THEN FullBucket(now) ELSE b
        n == RefillCount(c, now)
        d == [tokens |-> c.tokens + n * BurstSize, last_time |-> c.last_time + n * RefillTime]
    IN  IF d.tokens >= BurstSize THEN FullBucket(now) ELSE d

AllowN(b, n, now) ==
    LET c == Refill(b, now)
    IN  IF n > c.tokens THEN [allowed |-> FALSE, bucket |-> c]
                        ELSE [allowed |-> TRUE, bucket |-> [c EXCEPT !.tokens = @ - n]]

\* RateLimitCache::Allow on the cache c: the answer, the new cache, and
\* whether the cache was flushed.
CacheAllow(c, k, now) ==
    IF k \notin DOMAIN c /\ Cardinality(DOMAIN c) = Capacity
    THEN [allowed |-> TRUE, cache |-> << >>, flushed |-> TRUE]
    ELSE LET r == AllowN(IF k \in DOMAIN c THEN c[k] ELSE EmptyBucket, 1, now)
         IN  [allowed |-> r.allowed,
              cache |-> [j \in DOMAIN c \cup {k} |-> IF j = k THEN r.bucket ELSE c[j]],
              flushed |-> FALSE]

=============================================================================
