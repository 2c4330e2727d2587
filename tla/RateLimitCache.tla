--------------------------- MODULE RateLimitCache ----------------------------
(***************************************************************************)
(* RateLimitCache in use: calls of Allow by the event thread while the     *)
(* system clock runs and may be set back.                                  *)
(***************************************************************************)
EXTENDS RateLimit

CONSTANTS
    MaxClock,       \* bound: the clock stops here
    MaxSetBack      \* bound: how far the clock is ever set back

ASSUME ClockAssumption == MaxClock \in Nat \ {0} /\ MaxSetBack \in Nat

VARIABLES
    clock,          \* NowMicros()
    latest,         \* history: the latest time any call has seen
    cache,          \* RateLimitCache::cache_
    granted         \* history: when each key was allowed since the last flush or set back

rateVars == <<clock, latest, cache, granted>>

LimiterInit ==
    /\ clock = 1 /\ latest = 1
    /\ cache = << >>
    /\ granted = [k \in Keys |-> << >>]

Tick ==
    /\ clock < MaxClock
    /\ clock' = clock + 1
    /\ latest' = IF clock' > latest THEN clock' ELSE latest
    /\ UNCHANGED <<cache, granted>>

SetBack ==
    /\ \E t \in 1..(clock - 1) : latest - t <= MaxSetBack /\ clock' = t
    /\ granted' = [k \in Keys |-> << >>]
    /\ UNCHANGED <<latest, cache>>

Allow(k) ==
    LET r == CacheAllow(cache, k, clock) IN
    /\ cache' = r.cache
    /\ granted' = [j \in Keys |->
                     IF r.flushed THEN << >>
                     ELSE IF j = k /\ r.allowed THEN Append(granted[j], clock) ELSE granted[j]]
    /\ UNCHANGED <<clock, latest>>

LimiterNext == Tick \/ SetBack \/ \E k \in Keys : Allow(k)

LimiterSpec == LimiterInit /\ [][LimiterNext]_rateVars

-----------------------------------------------------------------------------
\* Types; a bucket never holds more than one burst, and the cache never more
\* than its capacity (RateLimit.cpp:33 and :68).
LimiterTypeOK ==
    /\ clock \in 1..MaxClock /\ latest \in clock..MaxClock
    /\ DOMAIN cache \subseteq Keys /\ Cardinality(DOMAIN cache) <= Capacity
    /\ \A k \in DOMAIN cache : cache[k] \in Bucket /\ cache[k].tokens <= BurstSize
    /\ granted \in [Keys -> Seq(1..MaxClock)]

\* Between two flushes, and as long as the clock is not set back, no key is
\* allowed more than two bursts within a period of RefillTime, whatever the
\* calls (TimeLimiter::AllowN): a burst that was saved up and the one of a
\* refill, but never a second refill.
WindowBound ==
    \A k \in Keys : \A i \in 1..(Len(granted[k]) - 2 * BurstSize) :
        granted[k][i + 2 * BurstSize] - granted[k][i] >= RefillTime

\* A clock that was set back, which can leave a bucket with a negative number
\* of tokens and a time in the past, never locks a key out: one refill period
\* after the latest time the limiter has seen, the key is allowed again
\* (TimeLimiter::AllowN, refill_count).
RecoversFromSetBack ==
    \A k \in DOMAIN cache : AllowN(cache[k], 1, latest + RefillTime).allowed

\* The limiter limits and does not lock out, and the cache keeps to its
\* capacity and a bucket to its burst (RateLimit.cpp:16-48, :66-75).
LimiterSound == LimiterTypeOK /\ WindowBound /\ RecoversFromSetBack

=============================================================================
