---------------------------- MODULE SignalProofs -----------------------------
(***************************************************************************)
(* For any set of keys, capacity, burst and refill time, and any clock:    *)
(* the limiter of process signals limits a key to two bursts in a refill   *)
(* period and never locks it out.  For any set of processes, whatever the  *)
(* stream does: the two threads of the signal service hand the writer over *)
(* to one another, a refresh leaves no process out, and a self check costs *)
(* one event.                                                              *)
(***************************************************************************)
EXTENDS SignalPipeline, RateLimitCache, TLAPS, FiniteSetTheorems

-----------------------------------------------------------------------------
(***************************************************************************)
(* Arithmetic.                                                             *)
(***************************************************************************)

\* The whole refill periods in a duration.
LEMMA Quotient ==
    ASSUME NEW a \in Nat, NEW b \in Nat \ {0}
    PROVE  a \div b \in Nat /\ (a \div b) * b <= a /\ a < (a \div b) * b + b
  BY SMTT(30)

LEMMA QuotientUnique ==
    ASSUME NEW a \in Nat, NEW b \in Nat \ {0}, NEW q \in Int, q * b <= a, a < q * b + b
    PROVE  a \div b = q
  BY SMTT(30)

LEMMA AtLeastOnce ==
    ASSUME NEW n \in Nat \ {0}, NEW b \in Nat \ {0}
    PROVE  n * b >= b
  BY SMTT(30)

LEMMA Within ==
    ASSUME NEW i \in Nat, NEW w \in Nat, NEW n \in Nat, 1 <= i, i + w <= n + 1, i + w # n + 1
    PROVE  i \in 1..n /\ i + w \in 1..n /\ i \in 1..(n - w)
  OBVIOUS

LEMMA OneMore ==
    ASSUME NEW n \in Nat, NEW t \in Int, NEW m \in Nat \ {0}
    PROVE  /\ (n + 1) - (m - (t - 1)) = n - (m - t)
           /\ \A i \in Nat : t >= 1 /\ i >= 1 /\ i + 2 * m = n + 1 => i <= n /\ i <= (n - (m - t)) - m
  OBVIOUS

\* A duration that is n periods shorter has n fewer of them.
LEMMA QuotientShift ==
    ASSUME NEW a \in Nat, NEW b \in Nat \ {0}, NEW n \in Int, a - n * b \in Nat
    PROVE  (a - n * b) \div b = (a \div b) - n
<1> DEFINE q == a \div b
<1>1. q \in Nat /\ q * b <= a /\ a < q * b + b
  BY Quotient
<1> HIDE DEF q
<1>2. (q - n) * b = q * b - n * b
  BY <1>1, SMTT(30)
<1>3. (q - n) * b <= a - n * b /\ a - n * b < (q - n) * b + b /\ q - n \in Int
  BY <1>1, <1>2
<1>4. (a - n * b) \div b = q - n
  BY <1>3, QuotientUnique
<1> QED
  BY <1>4 DEF q

-----------------------------------------------------------------------------
(***************************************************************************)
(* A bucket: refilling it, and taking a token.                             *)
(***************************************************************************)

\* n is the number of refill periods from the bucket's time to now, rounded
\* towards the bucket's time.
LEMMA RefillCountBounds ==
    ASSUME NEW b \in Bucket, NEW now \in Nat
    PROVE  LET n == RefillCount(b, now) IN
           /\ n \in Int
           /\ n > 0 => b.last_time + n * RefillTime <= now
           /\ n = 0 => now < b.last_time + RefillTime /\ b.last_time < now + RefillTime
           /\ n < 0 => /\ now <= b.last_time + n * RefillTime
                       /\ b.last_time + n * RefillTime < now + RefillTime
                       /\ now <= b.last_time - RefillTime
<1> DEFINE d == now - b.last_time
           n == RefillCount(b, now)
<1>1. d \in Int /\ RefillTime \in Nat \ {0} /\ b.last_time \in Int /\ d = now - b.last_time
  BY LimitAssumption DEF Bucket
<1>a. n = IF d >= 0 THEN d \div RefillTime ELSE -((-d) \div RefillTime)
  BY DEF RefillCount, Truncated
<1> HIDE DEF n, d
<1>2. CASE d >= 0
  <2>1. n = d \div RefillTime
    BY <1>2, <1>a
  <2>5. d \in Nat
    BY <1>1, <1>2
  <2>2. n \in Nat /\ n * RefillTime <= d /\ d < n * RefillTime + RefillTime
    BY <1>1, <2>5, <2>1, Quotient, ZenonT(60)
  <2>3. n = 0 => n * RefillTime = 0
    BY <1>1
  <2>4. /\ n \in Int
        /\ n > 0 => b.last_time + n * RefillTime <= now
        /\ n = 0 => now < b.last_time + RefillTime /\ b.last_time < now + RefillTime
        /\ ~(n < 0)
    BY <1>1, <1>2, <2>2, <2>3
  <2> QED
    BY <2>4 DEF n
<1>3. CASE d < 0
  <2> DEFINE m == (-d) \div RefillTime
  <2>1. n = -m
    BY <1>1, <1>3, <1>a
  <2>2. -d \in Nat
    BY <1>1, <1>3
  <2>6. m \in Nat /\ m * RefillTime <= -d /\ -d < m * RefillTime + RefillTime
    BY <1>1, <2>2, Quotient, ZenonT(60)
  <2> HIDE DEF m
  <2>3. n * RefillTime = -(m * RefillTime) /\ (m = 0 => m * RefillTime = 0)
    BY <1>1, <2>1, <2>6, SMTT(30)
  <2>4. m > 0 => m * RefillTime >= RefillTime
    BY <1>1, <2>6, AtLeastOnce
  <2>5. /\ n \in Int
        /\ ~(n > 0)
        /\ n = 0 => now < b.last_time + RefillTime /\ b.last_time < now + RefillTime
        /\ n < 0 => /\ now <= b.last_time + n * RefillTime
                    /\ b.last_time + n * RefillTime < now + RefillTime
                    /\ now <= b.last_time - RefillTime
    BY <1>1, <1>3, <2>1, <2>6, <2>3, <2>4
  <2> QED
    BY <2>5 DEF n
<1> QED
  BY <1>1, <1>2, <1>3

\* A bucket in use is refilled completely once a refill period has passed; only
\* one that a set back left in debt, or that lies in the future, is moved in time.
LEMMA Refilled ==
    ASSUME NEW b \in Bucket, NEW now \in Nat, b.last_time # 0, b.tokens < BurstSize
    PROVE  LET n == RefillCount(b, now)
               r == Refill(b, now)
           IN  \/ r = FullBucket(now) /\ n > 0
               \/ /\ r \in Bucket /\ r.tokens < BurstSize
                  /\ r.tokens = b.tokens + n * BurstSize /\ r.last_time = b.last_time + n * RefillTime
                  /\ n > 0 => b.tokens < 0
                  /\ n = 0 => r = b
                  /\ n < 0 => r.tokens < 0
<1> DEFINE n == RefillCount(b, now)
           d == [tokens |-> b.tokens + n * BurstSize, last_time |-> b.last_time + n * RefillTime]
<1>1. Refill(b, now) = IF d.tokens >= BurstSize THEN FullBucket(now) ELSE d
  BY DEF Refill
<1>2. n \in Int
  BY RefillCountBounds
<1>3. b.tokens \in Int /\ b.last_time \in Int /\ BurstSize \in Nat \ {0} /\ RefillTime \in Nat \ {0}
  BY LimitAssumption DEF Bucket
<1> HIDE DEF n
<1>4. n * BurstSize \in Int /\ n * RefillTime \in Int
  BY <1>2, <1>3
<1>5. n = 0 => n * BurstSize = 0 /\ n * RefillTime = 0
  BY <1>2, <1>3
<1>6. n > 0 => n * BurstSize >= BurstSize
  BY <1>2, <1>3, AtLeastOnce
<1>7. n < 0 => n * BurstSize <= -BurstSize
  <2>1. n < 0 => (-n) * BurstSize >= BurstSize
    BY <1>2, <1>3, AtLeastOnce
  <2>2. (-n) * BurstSize = -(n * BurstSize)
    BY <1>2, <1>3, SMTT(30)
  <2> QED
    BY <1>2, <1>3, <1>4, <2>1, <2>2
<1>8. d \in Bucket /\ d.tokens = b.tokens + n * BurstSize /\ d.last_time = b.last_time + n * RefillTime
  BY <1>3, <1>4 DEF Bucket
<1>9. n = 0 => d = b
  BY <1>3, <1>5 DEF Bucket
<1> HIDE DEF d
<1>10. CASE d.tokens >= BurstSize
  <2>1. Refill(b, now) = FullBucket(now)
    BY <1>1, <1>10
  <2>2. n > 0
    BY <1>2, <1>3, <1>4, <1>5, <1>7, <1>8, <1>10
  <2> QED
    BY <2>1, <2>2 DEF n
<1>11. CASE ~(d.tokens >= BurstSize)
  <2>1. Refill(b, now) = d /\ d.tokens < BurstSize
    BY <1>1, <1>3, <1>4, <1>8, <1>11
  <2>2. n > 0 => b.tokens < 0
    BY <2>1, <1>2, <1>3, <1>4, <1>6, <1>8
  <2>3. n < 0 => d.tokens < 0
    BY <1>2, <1>3, <1>4, <1>7, <1>8
  <2> QED
    BY <1>8, <1>9, <2>1, <2>2, <2>3 DEF n
<1> QED
  BY <1>10, <1>11

\* What is known of a bucket at a time, given the latest time the limiter has seen
\* and the times g at which the bucket was asked for a token and gave one.  The
\* bucket has given BurstSize - tokens since its time, at most BurstSize in the
\* refill period before it, and has no more debt than passing time has made up for.
Fits(b, g, now, top) ==
    /\ b \in Bucket /\ b.tokens < BurstSize /\ b.last_time \in 1..top
    /\ b.tokens + ((top - b.last_time) \div RefillTime) * BurstSize >= 0
    /\ b.tokens < 0 => g = << >>
    /\ now <= b.last_time - RefillTime => g = << >>
    /\ b.last_time > now => Len(g) <= BurstSize - b.tokens
    /\ \A i \in 1..(Len(g) - (BurstSize - b.tokens)) : g[i] <= b.last_time
    /\ \A i \in 1..(Len(g) - (BurstSize - b.tokens) - BurstSize) : g[i] <= b.last_time - RefillTime

Windowed(g) ==
    \A i \in 1..(Len(g) - 2 * BurstSize) : g[i + 2 * BurstSize] - g[i] >= RefillTime

\* Taking a token from the bucket that Refill leaves.
LEMMA Taken ==
    ASSUME NEW b, NEW now, Refill(b, now) \in Bucket
    PROVE  LET r == Refill(b, now)
               a == AllowN(b, 1, now)
           IN  /\ a.allowed <=> r.tokens >= 1
               /\ a.bucket \in Bucket /\ a.bucket.last_time = r.last_time
               /\ a.bucket.tokens = IF r.tokens >= 1 THEN r.tokens - 1 ELSE r.tokens
               /\ r.tokens < 1 => a.bucket = r
<1> DEFINE r == Refill(b, now)
           c == [r EXCEPT !.tokens = @ - 1]
<1>1. AllowN(b, 1, now) = IF 1 > r.tokens THEN [allowed |-> FALSE, bucket |-> r] ELSE [allowed |-> TRUE, bucket |-> c]
  BY DEF AllowN
<1>2. r \in Bucket /\ r.tokens \in Int
  BY DEF Bucket
<1> HIDE DEF r
<1>3. c \in Bucket /\ c.tokens = r.tokens - 1 /\ c.last_time = r.last_time
  BY <1>2 DEF Bucket
<1> HIDE DEF c
<1> DEFINE a == AllowN(b, 1, now)
<1>4. CASE r.tokens >= 1
  <2>1. a = [allowed |-> TRUE, bucket |-> c]
    BY <1>1, <1>2, <1>4
  <2>2. a.allowed /\ a.bucket = c
    BY <2>1
  <2> QED
    BY <1>2, <1>3, <1>4, <2>2 DEF r
<1>5. CASE ~(r.tokens >= 1)
  <2>1. a = [allowed |-> FALSE, bucket |-> r]
    BY <1>1, <1>2, <1>5
  <2>2. ~a.allowed /\ a.bucket = r
    BY <2>1
  <2> QED
    BY <1>2, <1>5, <2>2 DEF r
<1> QED
  BY <1>4, <1>5

\* The debt of a bucket in use is bounded by the periods that have passed.
LEMMA NoDebt ==
    ASSUME NEW t \in Nat, NEW T \in Nat, NEW top \in Nat, T <= top
    PROVE  t + ((top - T) \div RefillTime) * BurstSize >= 0
<1> DEFINE q == (top - T) \div RefillTime
<1>1. top - T \in Nat /\ RefillTime \in Nat \ {0} /\ BurstSize \in Nat
  BY LimitAssumption
<1>2. q \in Nat
  BY <1>1, Quotient
<1> HIDE DEF q
<1>3. q * BurstSize \in Nat
  BY <1>1, <1>2
<1>4. t + q * BurstSize >= 0
  BY <1>3
<1> QED
  BY <1>4 DEF q

\* A full bucket gives one token.
LEMMA FullFits ==
    ASSUME NEW b, NEW now \in Nat, NEW top \in Nat, 1 <= now, now <= top,
           NEW g \in Seq(Nat), \A i \in 1..Len(g) : g[i] <= now,
           \A i \in 1..(Len(g) - BurstSize) : g[i] <= now - RefillTime,
           Windowed(g), Refill(b, now) = FullBucket(now)
    PROVE  LET a == AllowN(b, 1, now) IN
           a.allowed /\ Fits(a.bucket, Append(g, now), now, top) /\ Windowed(Append(g, now))
<1> DEFINE a == AllowN(b, 1, now)
           c == a.bucket
           h == Append(g, now)
<1>1. BurstSize \in Nat \ {0} /\ RefillTime \in Nat \ {0}
  BY LimitAssumption
<1>2. FullBucket(now) \in Bucket /\ FullBucket(now).tokens = BurstSize /\ FullBucket(now).last_time = now
  BY <1>1 DEF FullBucket, Bucket
<1>3. a.allowed /\ c \in Bucket /\ c.tokens = BurstSize - 1 /\ c.last_time = now
  BY <1>1, <1>2, Taken
<1>4. Len(h) = Len(g) + 1 /\ h[Len(g) + 1] = now /\ \A i \in 1..Len(g) : h[i] = g[i]
  OBVIOUS
<1>5. Len(g) \in Nat /\ \A i \in 1..Len(g) : g[i] \in Nat
  OBVIOUS
<1> HIDE DEF a, h
<1>6. c.tokens + ((top - c.last_time) \div RefillTime) * BurstSize >= 0
  <2>1. BurstSize - 1 \in Nat
    BY <1>1
  <2> QED
    BY <1>3, <2>1, NoDebt
<1>7. Fits(c, h, now, top)
  <2>3. Len(h) - (BurstSize - c.tokens) = Len(g)
    BY <1>1, <1>3, <1>4, <1>5
  <2>1. \A i \in 1..Len(g) : h[i] <= c.last_time
    BY <1>3, <1>4
  <2>2. ASSUME NEW i \in 1..(Len(g) - BurstSize)
        PROVE  h[i] <= c.last_time - RefillTime
    <3>1. i \in 1..Len(g)
      BY <1>1, <1>5
    <3>2. h[i] = g[i]
      BY <3>1, <1>4
    <3>3. g[i] <= now - RefillTime
      OBVIOUS
    <3> QED
      BY <3>2, <3>3, <1>3
  <2>4. /\ c.tokens < BurstSize /\ c.last_time \in 1..top /\ ~(c.tokens < 0)
        /\ ~(now <= c.last_time - RefillTime) /\ ~(c.last_time > now)
    BY <1>1, <1>3
  <2> QED
    BY <1>3, <1>6, <2>1, <2>2, <2>3, <2>4, Zenon DEF Fits
<1>8. Windowed(h)
  <2> SUFFICES ASSUME NEW i \in 1..(Len(h) - 2 * BurstSize)
               PROVE  h[i + 2 * BurstSize] - h[i] >= RefillTime
    BY DEF Windowed
  <2>3. i \in Nat /\ 1 <= i /\ i + 2 * BurstSize <= Len(g) + 1
    BY <1>1, <1>4, <1>5
  <2>1. CASE i + 2 * BurstSize = Len(g) + 1
    <3>1. i \in 1..Len(g) /\ i \in 1..(Len(g) - BurstSize)
      BY <2>1, <1>1, <1>5
    <3>2. h[i] = g[i] /\ g[i] \in Nat /\ g[i] <= now - RefillTime
      BY <3>1, <1>4, <1>5
    <3> QED
      BY <3>2, <2>1, <1>1, <1>4
  <2>2. CASE i + 2 * BurstSize # Len(g) + 1
    <3>1. i \in 1..Len(g) /\ i + 2 * BurstSize \in 1..Len(g) /\ i \in 1..(Len(g) - 2 * BurstSize)
      <4>1. 2 * BurstSize \in Nat
        BY <1>1
      <4> QED
        BY <2>2, <2>3, <4>1, <1>5, Within, SMTT(60)
    <3> QED
      BY <3>1, <1>4 DEF Windowed
  <2> QED
    BY <2>1, <2>2
<1> QED
  BY <1>3, <1>7, <1>8 DEF a, h

\* A bucket that Refill leaves as it is gives a token if it has one.
LEMMA SameFits ==
    ASSUME NEW b, NEW now \in Nat, NEW top \in Nat, 1 <= now, now <= top,
           NEW g \in Seq(Nat), Fits(b, g, now, top), Windowed(g),
           Refill(b, now) = b, b.last_time < now + RefillTime
    PROVE  LET a == AllowN(b, 1, now)
               h == IF a.allowed THEN Append(g, now) ELSE g
           IN  Fits(a.bucket, h, now, top) /\ Windowed(h)
<1> DEFINE a == AllowN(b, 1, now)
           c == a.bucket
           h == Append(g, now)
<1>1. BurstSize \in Nat \ {0} /\ RefillTime \in Nat \ {0}
  BY LimitAssumption
<1>2. b \in Bucket /\ b.tokens \in Int /\ b.tokens < BurstSize /\ b.last_time \in Nat /\ b.last_time \in 1..top
  BY DEF Fits, Bucket
<1>3. CASE b.tokens < 1
  <2>1. ~a.allowed /\ c = b
    BY <1>2, <1>3, Taken
  <2> QED
    BY <2>1
<1>4. CASE b.tokens >= 1
  <2>1. a.allowed /\ c \in Bucket /\ c.tokens = b.tokens - 1 /\ c.last_time = b.last_time
    BY <1>2, <1>4, Taken
  <2>2. Len(h) = Len(g) + 1 /\ h[Len(g) + 1] = now /\ \A i \in 1..Len(g) : h[i] = g[i]
    OBVIOUS
  <2>3. Len(g) \in Nat /\ \A i \in 1..Len(g) : g[i] \in Nat
    OBVIOUS
  <2> HIDE DEF a, h
  <2>4. c.tokens + ((top - c.last_time) \div RefillTime) * BurstSize >= 0
    <3>1. b.tokens - 1 \in Nat
      BY <1>2, <1>4
    <3> QED
      BY <1>2, <2>1, <3>1, NoDebt
  <2> DEFINE u == Len(g) - (BurstSize - b.tokens)
  <2>5. Len(h) - (BurstSize - c.tokens) = u /\ u \in Int /\ u < Len(g)
    <3> DEFINE n == Len(g)
    <3>1. n \in Nat /\ Len(h) = n + 1 /\ u = n - (BurstSize - b.tokens)
      BY <2>2, <2>3
    <3> HIDE DEF n, u
    <3>2. u \in Int /\ u < n
      BY <3>1, <1>1, <1>2
    <3>3. (n + 1) - (BurstSize - (b.tokens - 1)) = u
      BY <3>1, <1>1, <1>2, OneMore, ZenonT(60)
    <3> QED
      BY <3>1, <3>2, <3>3, <2>1 DEF n
  <2>6. /\ \A i \in 1..u : g[i] <= b.last_time
        /\ \A i \in 1..(u - BurstSize) : g[i] <= b.last_time - RefillTime
        /\ b.last_time > now => Len(g) <= BurstSize - b.tokens
    BY DEF Fits
  <2> HIDE DEF u
  <2>7. (\A i \in 1..u : i \in 1..Len(g)) /\ \A i \in 1..(u - BurstSize) : i \in 1..Len(g)
    BY <1>1, <2>3, <2>5
  <2>8. /\ \A i \in 1..u : h[i] <= c.last_time
        /\ \A i \in 1..(u - BurstSize) : h[i] <= c.last_time - RefillTime
    BY <2>1, <2>2, <2>6, <2>7
  <2>9. /\ c.tokens < BurstSize /\ c.last_time \in 1..top /\ ~(c.tokens < 0)
        /\ ~(now <= c.last_time - RefillTime)
        /\ c.last_time > now => Len(h) <= BurstSize - c.tokens
    BY <1>1, <1>2, <1>4, <2>1, <2>2, <2>3, <2>6, SMTT(60)
  <2>10. Fits(c, h, now, top)
    BY <2>1, <2>4, <2>5, <2>8, <2>9, Zenon DEF Fits
  <2>11. Windowed(h)
    <3> SUFFICES ASSUME NEW i \in 1..(Len(h) - 2 * BurstSize)
                 PROVE  h[i + 2 * BurstSize] - h[i] >= RefillTime
      BY DEF Windowed
    <3>1. i \in Nat /\ 1 <= i /\ i + 2 * BurstSize <= Len(g) + 1 /\ 2 * BurstSize \in Nat
      BY <1>1, <2>2, <2>3
    <3>2. CASE i + 2 * BurstSize = Len(g) + 1
      <4>1. i \in 1..Len(g) /\ i <= u - BurstSize
        <5>1. i <= Len(g) /\ i <= (Len(g) - (BurstSize - b.tokens)) - BurstSize
          BY <3>1, <3>2, <1>1, <1>2, <1>4, <2>3, OneMore, ZenonT(60)
        <5> QED
          BY <5>1, <3>1, <2>3 DEF u
      <4>2. i \in 1..(u - BurstSize)
        BY <3>1, <4>1, <1>1, <2>5
      <4>3. h[i] = g[i] /\ g[i] \in Nat /\ g[i] <= b.last_time - RefillTime
        BY <4>1, <4>2, <2>2, <2>3, <2>6
      <4>4. b.last_time <= now
        BY <1>1, <1>2, <1>4, <2>3, <2>6, <3>1, <3>2
      <4> QED
        BY <4>3, <4>4, <3>2, <1>1, <1>2, <2>2, SMTT(60)
    <3>3. CASE i + 2 * BurstSize # Len(g) + 1
      <4>1. i \in 1..Len(g) /\ i + 2 * BurstSize \in 1..Len(g) /\ i \in 1..(Len(g) - 2 * BurstSize)
        BY <3>1, <3>3, <2>3, Within, ZenonT(60)
      <4> QED
        BY <4>1, <2>2, SMTT(60) DEF Windowed
    <3> QED
      BY <3>2, <3>3
  <2> QED
    BY <2>1, <2>10, <2>11 DEF a, h
<1> QED
  BY <1>2, <1>3, <1>4

\* A bucket that Refill moves, which has given nothing since, gives a token if it
\* has one now.
LEMMA MovedFits ==
    ASSUME NEW b, NEW now \in Nat, NEW top \in Nat, 1 <= now, now <= top,
           NEW r, Refill(b, now) = r, r \in Bucket, r.tokens < BurstSize,
           r.last_time \in 1..top, r.last_time < now + RefillTime,
           r.tokens + ((top - r.last_time) \div RefillTime) * BurstSize >= 0
    PROVE  LET a == AllowN(b, 1, now)
               h == IF a.allowed THEN Append(<< >>, now) ELSE << >>
           IN  Fits(a.bucket, h, now, top) /\ Windowed(h)
<1> DEFINE a == AllowN(b, 1, now)
           c == a.bucket
<1>1. BurstSize \in Nat \ {0} /\ RefillTime \in Nat \ {0}
  BY LimitAssumption
<1>2. r.tokens \in Int /\ r.last_time \in Nat
  BY DEF Bucket
<1>3. CASE r.tokens < 1
  <2>1. ~a.allowed /\ c = r
    BY <1>2, <1>3, Taken
  <2> DEFINE e == << >>
  <2>2. Len(e) = 0 /\ e = << >>
    OBVIOUS
  <2> HIDE DEF e
  <2>3. 1..(Len(e) - (BurstSize - r.tokens)) = {} /\ 1..(Len(e) - (BurstSize - r.tokens) - BurstSize) = {}
    BY <1>1, <1>2, <2>2, SMTT(60)
  <2>4. Len(e) <= BurstSize - r.tokens /\ 1..(Len(e) - 2 * BurstSize) = {}
    BY <1>1, <1>2, <2>2
  <2>5. Fits(r, e, now, top)
    BY <2>2, <2>3, <2>4, Zenon DEF Fits
  <2>6. Windowed(e)
    BY <2>4 DEF Windowed
  <2> QED
    BY <2>1, <2>2, <2>5, <2>6
<1>4. CASE r.tokens >= 1
  <2>1. a.allowed /\ c \in Bucket /\ c.tokens = r.tokens - 1 /\ c.last_time = r.last_time
    BY <1>2, <1>4, Taken
  <2> DEFINE h == Append(<< >>, now)
  <2>2. Len(h) = 1
    OBVIOUS
  <2> HIDE DEF a, h
  <2>3. c.tokens + ((top - c.last_time) \div RefillTime) * BurstSize >= 0
    <3>1. r.tokens - 1 \in Nat
      BY <1>2, <1>4
    <3> QED
      BY <1>2, <2>1, <3>1, NoDebt
  <2>4. 1..(Len(h) - (BurstSize - c.tokens)) = {} /\ 1..(Len(h) - (BurstSize - c.tokens) - BurstSize) = {}
    BY <1>1, <1>2, <2>1, <2>2
  <2>5. Len(h) <= BurstSize - c.tokens /\ 1..(Len(h) - 2 * BurstSize) = {}
    BY <1>1, <1>2, <2>1, <2>2
  <2>6. /\ c.tokens < BurstSize /\ c.last_time \in 1..top /\ ~(c.tokens < 0)
        /\ ~(now <= c.last_time - RefillTime)
    BY <1>1, <1>2, <1>4, <2>1
  <2>7. Fits(c, h, now, top)
    BY <2>1, <2>3, <2>4, <2>5, <2>6, Zenon DEF Fits
  <2>8. Windowed(h)
    BY <2>5 DEF Windowed
  <2> QED
    BY <2>1, <2>7, <2>8 DEF a, h
<1> QED
  BY <1>2, <1>3, <1>4

\* Moving a bucket by whole periods changes its tokens by as much as the debt
\* that is allowed.
LEMMA DebtMoves ==
    ASSUME NEW t \in Int, NEW T \in Nat, NEW top \in Nat, T <= top, NEW n \in Int,
           T + n * RefillTime <= top, t + ((top - T) \div RefillTime) * BurstSize >= 0
    PROVE  (t + n * BurstSize) + ((top - (T + n * RefillTime)) \div RefillTime) * BurstSize >= 0
<1> DEFINE q == (top - T) \div RefillTime
           e == n * RefillTime
<1>1. top - T \in Nat /\ RefillTime \in Nat \ {0} /\ BurstSize \in Nat
  BY LimitAssumption
<1>2. q \in Nat /\ e \in Int
  BY <1>1, Quotient
<1>3. (top - T) - e \in Nat
  <2> HIDE DEF e
  <2> QED
    BY <1>2, <1>1 DEF e
<1>4. ((top - T) - e) \div RefillTime = q - n
  BY <1>1, <1>3, QuotientShift, ZenonT(60)
<1>5. top - (T + e) = (top - T) - e
  <2> HIDE DEF e
  <2> QED
    BY <1>2
<1>6. (t + n * BurstSize) + (q - n) * BurstSize = t + q * BurstSize
  <2> HIDE DEF q
  <2> QED
    BY <1>1, <1>2, SMTT(30)
<1> QED
  BY <1>4, <1>5, <1>6

\* What is known of a bucket stays true of it when it is asked for a token.
LEMMA AllowFits ==
    ASSUME NEW b, NEW now \in Nat, NEW top \in Nat, 1 <= now, now <= top,
           NEW g \in Seq(Nat), \A i \in 1..Len(g) : g[i] <= now,
           Fits(b, g, now, top), Windowed(g)
    PROVE  LET a == AllowN(b, 1, now)
               h == IF a.allowed THEN Append(g, now) ELSE g
           IN  Fits(a.bucket, h, now, top) /\ Windowed(h)
<1> DEFINE n == RefillCount(b, now)
           r == Refill(b, now)
           T == b.last_time
           t == b.tokens
<1>1. BurstSize \in Nat \ {0} /\ RefillTime \in Nat \ {0}
  BY LimitAssumption
<1>2. b \in Bucket /\ t \in Int /\ t < BurstSize /\ T \in Nat /\ 1 <= T /\ T <= top
  BY DEF Fits, Bucket
<1>3. /\ n \in Int
      /\ n > 0 => T + n * RefillTime <= now
      /\ n = 0 => now < T + RefillTime /\ T < now + RefillTime
      /\ n < 0 => /\ now <= T + n * RefillTime
                  /\ T + n * RefillTime < now + RefillTime
                  /\ now <= T - RefillTime
  BY <1>2, RefillCountBounds
<1>4. \/ r = FullBucket(now) /\ n > 0
      \/ /\ r \in Bucket /\ r.tokens < BurstSize
         /\ r.tokens = t + n * BurstSize /\ r.last_time = T + n * RefillTime
         /\ n > 0 => t < 0
         /\ n = 0 => r = b
         /\ n < 0 => r.tokens < 0
  BY <1>2, Refilled
<1>5. /\ t < 0 => g = << >>
      /\ now <= T - RefillTime => g = << >>
      /\ \A i \in 1..(Len(g) - (BurstSize - t)) : g[i] <= T
      /\ t + ((top - T) \div RefillTime) * BurstSize >= 0
  BY DEF Fits
<1>6. Len(g) \in Nat /\ \A i \in 1..Len(g) : g[i] \in Nat
  OBVIOUS
<1>7. r = Refill(b, now) /\ t = b.tokens /\ T = b.last_time
  OBVIOUS
<1>8. n > 0 => n * RefillTime >= RefillTime
  BY <1>1, <1>3, AtLeastOnce
<1>9. n * RefillTime \in Int /\ n * BurstSize \in Int
  BY <1>1, <1>3
<1> HIDE DEF n, r, t, T
<1>10. CASE r = FullBucket(now) /\ n > 0
  <2>1. T <= now - RefillTime
    BY <1>1, <1>2, <1>3, <1>8, <1>9, <1>10
  <2>2. ASSUME NEW i \in 1..(Len(g) - BurstSize)
        PROVE  g[i] <= now - RefillTime
    <3>1. i \in 1..Len(g) /\ Len(g) # 0
      BY <1>1, <1>6
    <3>2. t >= 0
      <4>1. g # << >>
        BY <3>1, <1>6
      <4> QED
        BY <4>1, <1>2, <1>5
    <3>3. i \in 1..(Len(g) - (BurstSize - t))
      BY <1>1, <1>2, <1>6, <3>1, <3>2
    <3>4. g[i] <= T /\ g[i] \in Nat
      BY <3>1, <3>3, <1>5, <1>6
    <3> QED
      BY <2>1, <3>4, <1>1, <1>2
  <2>3. Refill(b, now) = FullBucket(now)
    BY <1>7, <1>10
  <2>4. LET a == AllowN(b, 1, now) IN
        a.allowed /\ Fits(a.bucket, Append(g, now), now, top) /\ Windowed(Append(g, now))
    BY <2>2, <2>3, FullFits
  <2> QED
    BY <2>4
<1>11. CASE /\ r \in Bucket /\ r.tokens < BurstSize
            /\ r.tokens = t + n * BurstSize /\ r.last_time = T + n * RefillTime
            /\ n > 0 => t < 0
            /\ n = 0 => r = b
            /\ n < 0 => r.tokens < 0
  <2>1. CASE n = 0
    <3>1. Refill(b, now) = b /\ b.last_time < now + RefillTime
      BY <1>3, <1>7, <1>11, <2>1
    <3> QED
      BY <3>1, SameFits
  <2>2. CASE n # 0
    <3>1. g = << >>
      BY <1>2, <1>3, <1>5, <1>11, <2>2
    <3>2. n < 0 => n * RefillTime <= 0
      BY <1>1, <1>3, SMTT(30)
    <3>3. r.last_time \in 1..top /\ r.last_time < now + RefillTime /\ T + n * RefillTime <= top
      BY <1>1, <1>2, <1>3, <1>8, <1>9, <1>11, <2>2, <3>2
    <3>4. r.tokens + ((top - r.last_time) \div RefillTime) * BurstSize >= 0
      BY <1>2, <1>3, <1>5, <1>11, <3>3, DebtMoves
    <3>5. LET a == AllowN(b, 1, now)
              h == IF a.allowed THEN Append(<< >>, now) ELSE << >>
          IN  Fits(a.bucket, h, now, top) /\ Windowed(h)
      BY <1>7, <1>11, <3>3, <3>4, MovedFits
    <3> QED
      BY <3>1, <3>5
  <2> QED
    BY <2>1, <2>2
<1> QED
  BY <1>4, <1>10, <1>11

LEMMA QuotientGrows ==
    ASSUME NEW a \in Nat, NEW c \in Nat, a <= c
    PROVE  (a \div RefillTime) * BurstSize <= (c \div RefillTime) * BurstSize
<1> DEFINE p == a \div RefillTime
           q == c \div RefillTime
<1>1. RefillTime \in Nat \ {0} /\ BurstSize \in Nat
  BY LimitAssumption
<1>2. p \in Nat /\ p * RefillTime <= a /\ q \in Nat /\ c < q * RefillTime + RefillTime
  BY <1>1, Quotient
<1> HIDE DEF p, q
<1>3. p * RefillTime < (q + 1) * RefillTime
  BY <1>1, <1>2, SMTT(30)
<1>4. p <= q
  BY <1>1, <1>2, <1>3, SMTT(30)
<1>5. p * BurstSize <= q * BurstSize
  BY <1>1, <1>2, <1>4, SMTT(30)
<1> QED
  BY <1>5 DEF p, q

\* Time passes.
LEMMA LaterFits ==
    ASSUME NEW b, NEW g \in Seq(Nat), NEW now \in Nat, NEW top \in Nat, Fits(b, g, now, top),
           NEW later \in Nat, now <= later, NEW ltop \in Nat, top <= ltop
    PROVE  Fits(b, g, later, ltop)
<1> DEFINE T == b.last_time
           t == b.tokens
<1>1. T \in Nat /\ t \in Int /\ T <= top /\ RefillTime \in Nat \ {0} /\ BurstSize \in Nat
      /\ t + ((top - T) \div RefillTime) * BurstSize >= 0
  BY LimitAssumption DEF Fits, Bucket
<1> HIDE DEF T, t
<1>2. top - T \in Nat /\ ltop - T \in Nat /\ top - T <= ltop - T
  BY <1>1
<1>3. ((top - T) \div RefillTime) * BurstSize <= ((ltop - T) \div RefillTime) * BurstSize
  BY <1>2, QuotientGrows
<1>4. (top - T) \div RefillTime \in Nat /\ (ltop - T) \div RefillTime \in Nat
  BY <1>1, <1>2, Quotient
<1>5. t + ((ltop - T) \div RefillTime) * BurstSize >= 0
  <2> DEFINE x == ((top - T) \div RefillTime) * BurstSize
             y == ((ltop - T) \div RefillTime) * BurstSize
  <2>1. x \in Int /\ y \in Int
    BY <1>1, <1>4
  <2>2. t + x >= 0 /\ x <= y
    BY <1>1, <1>3
  <2> HIDE DEF x, y
  <2>3. t + y >= 0
    BY <2>1, <2>2, <1>1
  <2> QED
    BY <2>3 DEF y
<1>6. later <= T - RefillTime => now <= T - RefillTime
  BY <1>1
<1>7. T > later => T > now
  BY <1>1
<1>8. T \in 1..ltop
  BY <1>1 DEF Fits, T
<1> QED
  BY <1>5, <1>6, <1>7, <1>8, Zenon DEF Fits, T, t

\* The clock is set to any time, and what was given is forgotten.
LEMMA SetBackFits ==
    ASSUME NEW b, NEW g, NEW now, NEW top \in Nat, Fits(b, g, now, top), NEW t \in Nat
    PROVE  Fits(b, << >>, t, top) /\ Windowed(<< >>)
<1> DEFINE e == << >>
<1>1. Len(e) = 0 /\ e = << >>
  OBVIOUS
<1>2. b.tokens \in Int /\ b.tokens < BurstSize /\ BurstSize \in Nat
  BY LimitAssumption DEF Fits, Bucket
<1> HIDE DEF e
<1>3. /\ 1..(Len(e) - (BurstSize - b.tokens)) = {} /\ 1..(Len(e) - (BurstSize - b.tokens) - BurstSize) = {}
      /\ 1..(Len(e) - 2 * BurstSize) = {}
      /\ Len(e) <= BurstSize - b.tokens
  BY <1>1, <1>2
<1>4. Fits(b, e, t, top)
  BY <1>1, <1>3, Zenon DEF Fits
<1>5. Windowed(e)
  BY <1>3 DEF Windowed
<1> QED
  BY <1>1, <1>4, <1>5

\* A new key starts with a full bucket.
LEMMA NewFits ==
    ASSUME NEW now \in Nat, NEW top \in Nat, 1 <= now, now <= top
    PROVE  LET a == AllowN(EmptyBucket, 1, now) IN
           a.allowed /\ Fits(a.bucket, Append(<< >>, now), now, top) /\ Windowed(Append(<< >>, now))
<1>1. BurstSize \in Nat \ {0} /\ RefillTime \in Nat \ {0}
  BY LimitAssumption
<1>2. RefillCount(FullBucket(now), now) = 0
  <2>1. now - FullBucket(now).last_time = 0
    BY DEF FullBucket
  <2>2. 0 \div RefillTime = 0
    BY <1>1, QuotientUnique
  <2> QED
    BY <2>1, <2>2 DEF RefillCount, Truncated
<1>3. 0 * BurstSize = 0 /\ 0 * RefillTime = 0
  BY <1>1
<1>4. EmptyBucket.last_time = 0
  BY DEF EmptyBucket
<1>5. Refill(EmptyBucket, now) = FullBucket(now)
  <2>1. FullBucket(now).tokens + 0 * BurstSize = BurstSize
    BY <1>1, <1>3 DEF FullBucket
  <2> QED
    BY <1>1, <1>2, <1>4, <2>1 DEF Refill
<1> DEFINE g == << >>
<1>6. g \in Seq(Nat) /\ Len(g) = 0
  OBVIOUS
<1> HIDE DEF g
<1>7. 1..Len(g) = {} /\ 1..(Len(g) - BurstSize) = {} /\ 1..(Len(g) - 2 * BurstSize) = {}
  BY <1>1, <1>6
<1>8. Windowed(g)
  BY <1>7 DEF Windowed
<1>9. LET a == AllowN(EmptyBucket, 1, now) IN
      a.allowed /\ Fits(a.bucket, Append(g, now), now, top) /\ Windowed(Append(g, now))
  BY <1>5, <1>6, <1>7, <1>8, FullFits, ZenonT(60)
<1> QED
  BY <1>9 DEF g

\* No bucket has more debt than one more refill period makes up for.
LEMMA FitsRecovers ==
    ASSUME NEW b, NEW g, NEW now, NEW top \in Nat, Fits(b, g, now, top)
    PROVE  AllowN(b, 1, top + RefillTime).allowed
<1> DEFINE q == (top - b.last_time) \div RefillTime
           later == top + RefillTime
           n == RefillCount(b, later)
<1>1. BurstSize \in Nat \ {0} /\ RefillTime \in Nat \ {0} /\ b \in Bucket /\ b.last_time \in Nat
      /\ b.last_time <= top /\ b.last_time # 0 /\ b.tokens \in Int
  BY LimitAssumption DEF Fits, Bucket
<1>2. b.tokens + q * BurstSize >= 0 /\ b.tokens < BurstSize
  BY DEF Fits
<1>3. top - b.last_time \in Nat /\ q \in Nat
  BY <1>1, Quotient
<1>4. n = q + 1
  <2> DEFINE m == -1
             a == top - b.last_time
  <2>1. m \in Int /\ a \in Nat /\ m * RefillTime = -RefillTime /\ a - m * RefillTime \in Nat
        /\ later - b.last_time = a - m * RefillTime /\ later - b.last_time >= 0
    BY <1>1, <1>3
  <2>2. n = (a - m * RefillTime) \div RefillTime
    BY <2>1 DEF RefillCount, Truncated
  <2> HIDE DEF m, a, n
  <2>3. n = (a \div RefillTime) - m
    BY <2>1, <2>2, <1>1, QuotientShift, ZenonT(60)
  <2> QED
    BY <2>3, <1>3 DEF m, a, q
<1> HIDE DEF q
<1>5. later \in Nat
  BY <1>1
<1>6. \/ Refill(b, later) = FullBucket(later)
      \/ Refill(b, later).tokens < BurstSize /\ Refill(b, later).tokens = b.tokens + n * BurstSize
  BY <1>1, <1>2, <1>5, Refilled
<1> HIDE DEF n, later
<1>7. (q + 1) * BurstSize = q * BurstSize + BurstSize
  BY <1>1, <1>3, SMTT(30)
<1>8. b.tokens + n * BurstSize >= BurstSize
  <2> DEFINE x == q * BurstSize
  <2>1. x \in Int /\ b.tokens + x >= 0 /\ n * BurstSize = x + BurstSize
    BY <1>1, <1>2, <1>3, <1>4, <1>7
  <2> HIDE DEF x
  <2> QED
    BY <2>1, <1>1
<1>9. Refill(b, later) = FullBucket(later)
  <2>1. n * BurstSize \in Int
    BY <1>1, <1>3, <1>4
  <2> QED
    BY <2>1, <1>1, <1>6, <1>8
<1>10. FullBucket(later) \in Bucket /\ FullBucket(later).tokens >= 1
  BY <1>1, <1>5 DEF FullBucket, Bucket
<1>11. AllowN(b, 1, later).allowed
  BY <1>9, <1>10, Taken
<1> QED
  BY <1>11 DEF later

-----------------------------------------------------------------------------
(***************************************************************************)
(* The cache.                                                              *)
(***************************************************************************)

\* The inductive invariant: every bucket in the cache fits its history, and a key
\* that is not in the cache has none.
LimiterInv ==
    /\ clock \in 1..MaxClock /\ latest \in clock..MaxClock
    /\ DOMAIN cache \subseteq Keys /\ IsFiniteSet(DOMAIN cache) /\ Cardinality(DOMAIN cache) <= Capacity
    /\ granted \in [Keys -> Seq(1..MaxClock)]
    /\ \A k \in Keys : Windowed(granted[k])
    /\ \A k \in Keys : \A i \in 1..Len(granted[k]) : granted[k][i] <= clock
    /\ \A k \in Keys \ DOMAIN cache : granted[k] = << >>
    /\ \A k \in DOMAIN cache : Fits(cache[k], granted[k], clock, latest)

\* The cache and the histories right after a flush.
LEMMA EmptyHistory ==
    ASSUME granted' = [k \in Keys |-> << >>]
    PROVE  /\ granted' \in [Keys -> Seq(1..MaxClock)]
           /\ \A k \in Keys : granted'[k] = << >> /\ Windowed(granted'[k])
           /\ \A k \in Keys : 1..Len(granted'[k]) = {}
<1> DEFINE e == << >>
<1>1. e \in Seq(1..MaxClock) /\ Len(e) = 0
  OBVIOUS
<1>2. granted' = [k \in Keys |-> e]
  OBVIOUS
<1> HIDE DEF e
<1>3. Windowed(e) /\ 1..Len(e) = {}
  BY <1>1, LimitAssumption DEF Windowed
<1>4. /\ granted' \in [Keys -> Seq(1..MaxClock)]
      /\ \A k \in Keys : granted'[k] = e /\ Windowed(granted'[k])
      /\ \A k \in Keys : 1..Len(granted'[k]) = {}
  BY <1>1, <1>2, <1>3
<1> QED
  BY <1>4 DEF e

LEMMA EmptyCache == DOMAIN << >> = {}
  OBVIOUS

LEMMA InitLimiter == LimiterInit => LimiterInv
<1> SUFFICES ASSUME LimiterInit PROVE LimiterInv
  OBVIOUS
<1>1. clock \in 1..MaxClock /\ latest \in clock..MaxClock
  BY ClockAssumption DEF LimiterInit
<1>2. DOMAIN cache = {}
  BY EmptyCache DEF LimiterInit
<1>3. DOMAIN cache \subseteq Keys /\ IsFiniteSet(DOMAIN cache) /\ Cardinality(DOMAIN cache) <= Capacity
  BY <1>2, FS_EmptySet, LimitAssumption
<1> DEFINE e == << >>
<1>4. e \in Seq(1..MaxClock) /\ Len(e) = 0 /\ granted = [k \in Keys |-> e]
  BY DEF LimiterInit
<1>5. \A k \in Keys : granted[k] = << >>
  BY DEF LimiterInit
<1> HIDE DEF e
<1>6. Windowed(e) /\ 1..Len(e) = {}
  BY <1>4, LimitAssumption DEF Windowed
<1>7. /\ granted \in [Keys -> Seq(1..MaxClock)]
      /\ \A k \in Keys : Windowed(granted[k])
      /\ \A k \in Keys : \A i \in 1..Len(granted[k]) : granted[k][i] <= clock
  BY <1>4, <1>6
<1> QED
  BY <1>1, <1>2, <1>3, <1>5, <1>7 DEF LimiterInv

LEMMA Times ==
    ASSUME LimiterInv, NEW k \in Keys
    PROVE  granted[k] \in Seq(Nat)
<1>1. granted[k] \in Seq(1..MaxClock)
  BY DEF LimiterInv
<1>2. Len(granted[k]) \in Nat /\ granted[k] = [i \in 1..Len(granted[k]) |-> granted[k][i]]
  BY <1>1
<1>3. \A i \in 1..Len(granted[k]) : granted[k][i] \in Nat
  BY <1>1, ClockAssumption
<1> QED
  BY <1>2, <1>3

LEMMA TickLimiter == LimiterInv /\ Tick => LimiterInv'
<1> SUFFICES ASSUME LimiterInv, Tick PROVE LimiterInv'
  OBVIOUS
<1>1. /\ clock \in Nat /\ latest \in Nat /\ clock' \in Nat /\ latest' \in Nat
      /\ clock <= clock' /\ latest <= latest'
      /\ clock' \in 1..MaxClock /\ latest' \in clock'..MaxClock
  BY ClockAssumption DEF LimiterInv, Tick
<1>2. cache' = cache /\ granted' = granted
  BY DEF Tick
<1>3. ASSUME NEW k \in DOMAIN cache
      PROVE  Fits(cache[k], granted[k], clock', latest')
  <2>1. granted[k] \in Seq(Nat) /\ Fits(cache[k], granted[k], clock, latest)
    BY Times DEF LimiterInv
  <2> QED
    BY <1>1, <2>1, LaterFits
<1>4. ASSUME NEW k \in Keys, NEW i \in 1..Len(granted[k])
      PROVE  granted[k][i] <= clock'
  BY <1>1, ClockAssumption DEF LimiterInv
<1> QED
  BY <1>1, <1>2, <1>3, <1>4 DEF LimiterInv

LEMMA SetBackLimiter == LimiterInv /\ SetBack => LimiterInv'
<1> SUFFICES ASSUME LimiterInv, SetBack PROVE LimiterInv'
  OBVIOUS
<1>1. /\ latest \in Nat /\ clock' \in Nat /\ latest' = latest /\ cache' = cache
      /\ clock' \in 1..MaxClock /\ latest' \in clock'..MaxClock
  BY ClockAssumption DEF LimiterInv, SetBack
<1>2. granted' = [k \in Keys |-> << >>]
  BY DEF SetBack
<1>3. /\ granted' \in [Keys -> Seq(1..MaxClock)]
      /\ \A k \in Keys : granted'[k] = << >> /\ Windowed(granted'[k])
      /\ \A k \in Keys : 1..Len(granted'[k]) = {}
  BY <1>2, EmptyHistory
<1>4. ASSUME NEW k \in DOMAIN cache
      PROVE  Fits(cache[k], << >>, clock', latest)
  <2>1. Fits(cache[k], granted[k], clock, latest)
    BY DEF LimiterInv
  <2> QED
    BY <1>1, <2>1, SetBackFits
<1> QED
  BY <1>1, <1>3, <1>4, Zenon DEF LimiterInv

LEMMA AllowLimiter == ASSUME LimiterInv, NEW k \in Keys, Allow(k) PROVE LimiterInv'
<1> DEFINE r == CacheAllow(cache, k, clock)
           full == k \notin DOMAIN cache /\ Cardinality(DOMAIN cache) = Capacity
           b == IF k \in DOMAIN cache THEN cache[k] ELSE EmptyBucket
           a == AllowN(b, 1, clock)
           D == DOMAIN cache \cup {k}
<1>1. /\ cache' = r.cache /\ clock' = clock /\ latest' = latest
      /\ granted' = [j \in Keys |->
                       IF r.flushed THEN << >>
                       ELSE IF j = k /\ r.allowed THEN Append(granted[j], clock) ELSE granted[j]]
  BY DEF Allow
<1>2. /\ clock \in Nat /\ latest \in Nat /\ 1 <= clock /\ clock <= latest
      /\ clock \in 1..MaxClock /\ latest \in clock..MaxClock
  BY ClockAssumption DEF LimiterInv
<1>3. CASE full
  <2>1. r = [allowed |-> TRUE, cache |-> << >>, flushed |-> TRUE]
    BY <1>3 DEF CacheAllow
  <2>2. r.cache = << >> /\ r.flushed
    BY <2>1
  <2> HIDE DEF r
  <2>3. DOMAIN cache' = {} /\ granted' = [j \in Keys |-> << >>]
    BY <1>1, <2>2, EmptyCache
  <2>4. DOMAIN cache' \subseteq Keys /\ IsFiniteSet(DOMAIN cache') /\ Cardinality(DOMAIN cache') <= Capacity
    BY <2>3, FS_EmptySet, LimitAssumption
  <2>5. /\ granted' \in [Keys -> Seq(1..MaxClock)]
        /\ \A j \in Keys : granted'[j] = << >> /\ Windowed(granted'[j])
        /\ \A j \in Keys : 1..Len(granted'[j]) = {}
    BY <2>3, EmptyHistory
  <2> QED
    BY <1>1, <1>2, <2>3, <2>4, <2>5, Zenon DEF LimiterInv
<1>4. CASE ~full
  <2>1. r = [allowed |-> a.allowed, cache |-> [j \in D |-> IF j = k THEN a.bucket ELSE cache[j]], flushed |-> FALSE]
    BY <1>4 DEF CacheAllow
  <2>2. ~r.flushed /\ r.allowed = a.allowed /\ r.cache = [j \in D |-> IF j = k THEN a.bucket ELSE cache[j]]
    BY <2>1
  <2> DEFINE h == IF a.allowed THEN Append(granted[k], clock) ELSE granted[k]
  <2>3. h \in Seq(1..MaxClock) /\ \A i \in 1..Len(h) : h[i] <= clock
    <3>1. granted[k] \in Seq(1..MaxClock) /\ \A i \in 1..Len(granted[k]) : granted[k][i] <= clock
      BY DEF LimiterInv
    <3> DEFINE g == granted[k]
               p == Append(g, clock)
    <3>2. /\ p \in Seq(1..MaxClock) /\ Len(p) = Len(g) + 1 /\ Len(g) \in Nat
          /\ p[Len(g) + 1] = clock /\ \A i \in 1..Len(g) : p[i] = g[i]
      BY <3>1, <1>2
    <3>3. h = IF a.allowed THEN p ELSE g
      OBVIOUS
    <3> HIDE DEF g, p, h, a
    <3>4. \A i \in 1..Len(p) : p[i] <= clock
      <4> TAKE i \in 1..Len(p)
      <4>1. CASE i = Len(g) + 1
        BY <4>1, <3>2, <1>2
      <4>2. CASE i # Len(g) + 1
        <5>1. i \in 1..Len(g)
          BY <4>2, <3>2, SMTT(60)
        <5> QED
          BY <5>1, <3>1, <3>2 DEF g
      <4> QED
        BY <4>1, <4>2
    <3> QED
      BY <3>1, <3>2, <3>3, <3>4 DEF g
  <2>4. Fits(a.bucket, h, clock, latest) /\ Windowed(h)
    <3>1. CASE k \in DOMAIN cache
      <4>1. b = cache[k] /\ Fits(cache[k], granted[k], clock, latest)
        BY <3>1 DEF LimiterInv
      <4>2. /\ granted[k] \in Seq(Nat) /\ Windowed(granted[k])
            /\ \A i \in 1..Len(granted[k]) : granted[k][i] <= clock
        BY Times DEF LimiterInv
      <4> HIDE DEF b
      <4> QED
        BY <4>1, <4>2, <1>2, AllowFits
    <3>2. CASE k \notin DOMAIN cache
      <4>1. b = EmptyBucket /\ granted[k] = << >>
        BY <3>2 DEF LimiterInv
      <4> HIDE DEF b
      <4>2. a.allowed /\ Fits(a.bucket, Append(<< >>, clock), clock, latest) /\ Windowed(Append(<< >>, clock))
        BY <4>1, <1>2, NewFits
      <4> QED
        BY <4>1, <4>2
    <3> QED
      BY <3>1, <3>2
  <2> HIDE DEF r, a
  <2>5. /\ DOMAIN cache' = D /\ cache'[k] = a.bucket
        /\ \A j \in D : j # k => cache'[j] = cache[j]
    BY <1>1, <2>2
  <2>6. granted' = [granted EXCEPT ![k] = h]
    <3>1. granted' = [j \in Keys |-> IF j = k /\ a.allowed THEN Append(granted[j], clock) ELSE granted[j]]
      BY <1>1, <2>2
    <3>2. granted = [j \in Keys |-> granted[j]]
      BY DEF LimiterInv
    <3> QED
      BY <3>1, <3>2, ZenonT(60)
  <2> HIDE DEF h
  <2>7. granted' \in [Keys -> Seq(1..MaxClock)] /\ granted'[k] = h /\ \A j \in Keys : j # k => granted'[j] = granted[j]
    BY <2>3, <2>6 DEF LimiterInv
  <2>8. D \subseteq Keys /\ IsFiniteSet(D) /\ Cardinality(D) <= Capacity
    <3>1. /\ IsFiniteSet(D)
          /\ Cardinality(D) = IF k \in DOMAIN cache THEN Cardinality(DOMAIN cache) ELSE Cardinality(DOMAIN cache) + 1
      BY FS_AddElement DEF LimiterInv
    <3>2. Cardinality(DOMAIN cache) \in Nat /\ Cardinality(DOMAIN cache) <= Capacity /\ Capacity \in Nat
      BY FS_CardinalityType, LimitAssumption DEF LimiterInv
    <3>3. D \subseteq Keys
      BY DEF LimiterInv
    <3> HIDE DEF D
    <3> QED
      BY <3>1, <3>2, <3>3, <1>4
  <2>9. \A j \in Keys : Windowed(granted'[j]) /\ \A i \in 1..Len(granted'[j]) : granted'[j][i] <= clock
    BY <2>3, <2>4, <2>7 DEF LimiterInv
  <2>10. \A j \in Keys \ D : granted'[j] = << >>
    BY <2>7 DEF LimiterInv
  <2>11. ASSUME NEW j \in D
         PROVE  Fits(cache'[j], granted'[j], clock, latest)
    <3>1. CASE j = k
      BY <3>1, <2>4, <2>5, <2>7
    <3>2. CASE j # k
      <4>1. j \in DOMAIN cache /\ j \in Keys
        BY <3>2 DEF LimiterInv
      <4> QED
        BY <3>2, <4>1, <2>5, <2>7 DEF LimiterInv
    <3> QED
      BY <3>1, <3>2
  <2> HIDE DEF D
  <2> QED
    BY <1>1, <1>2, <2>5, <2>7, <2>8, <2>9, <2>10, <2>11, Zenon DEF LimiterInv
<1> QED
  BY <1>3, <1>4

LEMMA LimiterInvSound == LimiterInv => LimiterSound
<1> SUFFICES ASSUME LimiterInv PROVE LimiterSound
  OBVIOUS
<1>1. ASSUME NEW k \in DOMAIN cache
      PROVE  cache[k] \in Bucket /\ cache[k].tokens <= BurstSize /\ AllowN(cache[k], 1, latest + RefillTime).allowed
  <2>1. Fits(cache[k], granted[k], clock, latest) /\ latest \in Nat
    BY ClockAssumption DEF LimiterInv
  <2>2. cache[k] \in Bucket /\ cache[k].tokens \in Int /\ cache[k].tokens < BurstSize
    BY <2>1 DEF Fits, Bucket
  <2>3. cache[k].tokens <= BurstSize
    BY <2>2, LimitAssumption
  <2> QED
    BY <2>1, <2>2, <2>3, FitsRecovers
<1>2. LimiterTypeOK
  BY <1>1 DEF LimiterInv, LimiterTypeOK
<1>3. WindowBound
  BY DEF LimiterInv, WindowBound, Windowed
<1>4. RecoversFromSetBack
  BY <1>1 DEF RecoversFromSetBack
<1> QED
  BY <1>2, <1>3, <1>4 DEF LimiterSound

\* The rate limiter of duplicate process signals, for any number of keys, capacity,
\* burst and refill time, and a clock that may be set back at any point: between two
\* flushes no key is allowed more than two bursts in a refill period during which the
\* clock only runs forward, a clock that was set back locks no key out for longer
\* than one refill period after the latest time seen, and the cache keeps to its
\* capacity (TimeLimiter::AllowN, RateLimitCache::Allow).
THEOREM LimiterLimits == LimiterSpec => []LimiterSound
<1>1. LimiterInit => LimiterInv
  BY InitLimiter
<1>2. LimiterInv /\ [LimiterNext]_rateVars => LimiterInv'
  <2> SUFFICES ASSUME LimiterInv, [LimiterNext]_rateVars PROVE LimiterInv'
    OBVIOUS
  <2>1. CASE Tick
    BY <2>1, TickLimiter
  <2>2. CASE SetBack
    BY <2>2, SetBackLimiter
  <2>3. ASSUME NEW k \in Keys, Allow(k)
        PROVE  LimiterInv'
    BY <2>3, AllowLimiter
  <2>4. CASE UNCHANGED rateVars
    BY <2>4 DEF rateVars, LimiterInv
  <2> QED
    BY <2>1, <2>2, <2>3, <2>4 DEF LimiterNext
<1> QED
  BY <1>1, <1>2, LimiterInvSound, PTL DEF LimiterSpec

-----------------------------------------------------------------------------
(***************************************************************************)
(* The pipeline: the inductive invariant.                                  *)
(***************************************************************************)

Records ==
    /\ DOMAIN et = {"pc", "ev", "hi", "phase", "todo", "cur", "res"}
    /\ DOMAIN service = {"handlers", "timed_out", "table", "cache", "events"}
    /\ DOMAIN client = {"pc", "should_stop", "stream_active", "first_write", "writer", "context", "up", "streams"}
    /\ DOMAIN past = {"known", "excused", "skipped", "unheard"}

\* What PipelineTypeOK says, and where the event thread is in the list of handlers.
Types ==
    /\ control \in {"RUN", "STOP"}
    /\ et.ev \in [kind : {"none", "exec", "network", "check"}, proc : Process]
    /\ et.hi \in Nat \ {0}
    /\ et.phase \in {"first", "existing", "retry"} /\ et.todo \subseteq Process /\ et.cur \in Process
    /\ et.res \in {"IGNORED", "ERROR", "NEEDS_REFRESH", "PROCESSED"}
    /\ service.table \subseteq Process
    /\ past.known \subseteq Process /\ past.excused \subseteq Process /\ past.unheard \subseteq Process

\* A cache keeps to its keys and its capacity.
Bounded(c) == DOMAIN c \subseteq Keys /\ IsFiniteSet(DOMAIN c) /\ Cardinality(DOMAIN c) <= Capacity

Stopping == {"stop_join", "stop_cancel", "stopped", "crashed"}

\* Who may use the writer: only the event thread marks an active stream inactive,
\* and only the stream thread an inactive one active, when it has made a writer and
\* asked for a refresh.
Threads ==
    /\ et.pc \in {"write", "reset", "deactivate"} => client.stream_active
    /\ client.should_stop => et.pc \in Stopping
    /\ client.pc = "done" => client.should_stop
    /\ client.stream_active => client.pc \in {"test", "block", "wait", "done"}
    /\ client.stream_active /\ et.pc # "deactivate" => client.writer
    /\ client.pc \in {"starting", "started", "activate"} => client.writer
    /\ client.pc = "activate" => client.first_write

\* A handler is in the list once, the self checks that have finished are not, and
\* the process signal handler is there until the service is stopped.
Handlers ==
    /\ service.handlers \in Seq({"SelfCheckProcess", "SelfCheckNetwork", "Process", "Network"})
    /\ \A i, j \in 1..Len(service.handlers) : service.handlers[i] = service.handlers[j] => i = j
    /\ et.pc # "stopped" => \E i \in 1..Len(service.handlers) : service.handlers[i] = "Process"
    /\ \A s \in past.skipped, i \in 1..Len(service.handlers) : s.handler # service.handlers[i]
    /\ SelfCheckCostsOneEvent

Refreshed == client.stream_active /\ ~client.first_write

\* The processes of the thread table that Sensor should have and does not.
Missing == service.table \ (past.known \cup past.excused \cup Skipped \cup past.unheard)

ToBeOffered ==
    et.ev.kind = "exec" /\ \E i \in 1..Len(service.handlers) : i >= et.hi /\ service.handlers[i] = "Process"

\* On a stream that was refreshed, what is missing is what the event thread is about
\* to send; while it sends the existing processes, the stream stays refreshed.
Refreshing ==
    /\ et.pc = "poll" /\ Refreshed => Missing = {}
    /\ et.pc = "offer" /\ Refreshed => Missing \subseteq {et.ev.proc} /\ (Missing = {} \/ ToBeOffered)
    /\ et.pc \in {"signal", "write"} /\ Refreshed => Missing \subseteq {et.cur} \cup et.todo
    /\ et.pc = "result" /\ et.res # "NEEDS_REFRESH" /\ Refreshed => Missing \subseteq et.todo
    /\ et.pc = "existing" => Missing \subseteq et.todo
    /\ et.pc = "notify" \/ (et.pc = "result" /\ et.res = "ERROR") => ~Refreshed
    /\ et.pc = "existing" => et.phase = "existing"
    /\ et.phase # "first" /\ et.pc \in {"existing", "signal", "write"} => Refreshed
    /\ et.phase # "first" /\ et.pc = "result" /\ et.res # "ERROR" => Refreshed
    /\ et.pc = "result" /\ et.res = "NEEDS_REFRESH" => et.phase = "first" /\ Refreshed
    /\ et.phase # "existing" \/ et.pc \in {"poll", "offer"} => et.todo = {}

PipelineInv == Records /\ Types /\ Bounded(service.cache) /\ Threads /\ Handlers /\ Refreshing

-----------------------------------------------------------------------------
(***************************************************************************)
(* The pipeline: the first state, and what steps leave alone.              *)
(***************************************************************************)

LEMMA InitPipeline == PipelineInit => PipelineInv
<1> SUFFICES ASSUME PipelineInit PROVE PipelineInv
  OBVIOUS
<1>1. PICK t \in SUBSET (Process \ {SelfCheck}) :
        service = [handlers |-> AllHandlers, timed_out |-> FALSE, table |-> t, cache |-> << >>, events |-> 0]
  BY ZenonT(60) DEF PipelineInit
<1>2. /\ service.handlers = AllHandlers /\ service.table = t /\ service.cache = << >>
      /\ DOMAIN service = {"handlers", "timed_out", "table", "cache", "events"}
  BY <1>1
<1>3. /\ et.pc = "poll" /\ et.ev = NullEvent /\ et.hi = 1 /\ et.phase = "first" /\ et.todo = {}
      /\ et.cur = SelfCheck /\ et.res = "IGNORED"
      /\ DOMAIN et = {"pc", "ev", "hi", "phase", "todo", "cur", "res"}
  BY DEF PipelineInit
<1>4. /\ client.pc = "test" /\ ~client.should_stop /\ ~client.stream_active
      /\ DOMAIN client = {"pc", "should_stop", "stream_active", "first_write", "writer", "context", "up", "streams"}
  BY DEF PipelineInit
<1>5. /\ past.known = {} /\ past.excused = {} /\ past.skipped = {} /\ past.unheard = {}
      /\ DOMAIN past = {"known", "excused", "skipped", "unheard"}
  BY DEF PipelineInit
<1>6. Records
  BY <1>2, <1>3, <1>4, <1>5 DEF Records
<1>7. Types
  <2>1. NullEvent \in [kind : {"none", "exec", "network", "check"}, proc : Process]
    BY ProcessAssumption DEF NullEvent
  <2>2. control \in {"RUN", "STOP"}
    BY DEF PipelineInit
  <2> QED
    BY <1>2, <1>3, <1>5, <2>1, <2>2, ProcessAssumption DEF Types
<1>8. Bounded(service.cache)
  BY <1>2, EmptyCache, FS_EmptySet, LimitAssumption DEF Bounded
<1>9. Threads
  BY <1>3, <1>4 DEF Threads
<1>10. Handlers
  <2>1. /\ AllHandlers \in Seq({"SelfCheckProcess", "SelfCheckNetwork", "Process", "Network"})
        /\ Len(AllHandlers) = 4 /\ AllHandlers[3] = "Process"
    BY DEF AllHandlers
  <2>2. \A i, j \in 1..4 : AllHandlers[i] = AllHandlers[j] => i = j
    BY DEF AllHandlers
  <2>3. SelfCheckCostsOneEvent
    BY <1>5 DEF SelfCheckCostsOneEvent
  <2> QED
    BY <1>2, <1>5, <2>1, <2>2, <2>3 DEF Handlers
<1>11. Refreshing
  BY <1>3, <1>4 DEF Refreshing, Refreshed
<1> QED
  BY <1>6, <1>7, <1>8, <1>9, <1>10, <1>11, SMTT(60) DEF PipelineInv

LEMMA KeepHandlers ==
    ASSUME Handlers, service'.handlers = service.handlers, past'.skipped = past.skipped,
           et'.pc = "stopped" \/ et.pc # "stopped"
    PROVE  Handlers'
  BY DEF Handlers, SelfCheckCostsOneEvent

LEMMA KeepMissing ==
    ASSUME service'.table = service.table, past'.skipped = past.skipped,
           past'.known = past.known, past'.excused = past.excused, past'.unheard = past.unheard
    PROVE  Missing' = Missing
  BY DEF Missing, Skipped

\* A step of the stream thread, or of the stream, that leaves Refreshed alone or
\* makes it false while nothing depends on it.
LEMMA KeepRefreshing ==
    ASSUME Refreshing, et' = et, service' = service, past' = past, Refreshed' <=> Refreshed
    PROVE  Refreshing'
<1>1. Missing' = Missing
  BY KeepMissing
<1>2. ToBeOffered' <=> ToBeOffered
  BY DEF ToBeOffered
<1> QED
  BY <1>1, <1>2 DEF Refreshing

LEMMA KeepTypes ==
    ASSUME Types, Bounded(service.cache), et' = et, service' = service, past' = past, control' = control
    PROVE  Types' /\ Bounded(service'.cache)
  BY DEF Types

-----------------------------------------------------------------------------
(***************************************************************************)
(* The pipeline: the stream thread and the stream.                         *)
(***************************************************************************)

\* A step of the stream thread that neither activates the stream nor asks for a
\* refresh.
LEMMA StreamKeeps ==
    ASSUME PipelineInv, UNCHANGED <<control, et, service, past>>, DOMAIN client' = DOMAIN client,
           client'.stream_active = client.stream_active, client'.first_write = client.first_write,
           Threads'
    PROVE  PipelineInv'
<1>1. Records'
  BY DEF PipelineInv, Records
<1>2. Types' /\ Bounded(service'.cache)
  BY KeepTypes DEF PipelineInv
<1>3. Handlers'
  BY DEF PipelineInv, Handlers, SelfCheckCostsOneEvent
<1>4. Refreshed' <=> Refreshed
  BY DEF Refreshed
<1>5. Refreshing'
  BY <1>4, KeepRefreshing DEF PipelineInv
<1> QED
  BY <1>1, <1>2, <1>3, <1>5 DEF PipelineInv

LEMMA TestStep == PipelineInv /\ (Test \/ Block \/ SpuriousWakeup) => PipelineInv'
<1> SUFFICES ASSUME PipelineInv, Test \/ Block \/ SpuriousWakeup PROVE PipelineInv'
  OBVIOUS
<1> DEFINE to == CASE client.should_stop -> "done"
                   [] ~client.should_stop /\ ~client.stream_active -> "channel"
                   [] OTHER -> "block"
<1>0. \/ to = "done" /\ client.should_stop
      \/ to = "channel" /\ ~client.stream_active
      \/ to = "block"
  OBVIOUS
<1>1. /\ UNCHANGED <<control, et, service, past>>
      /\ \/ client.pc = "test" /\ client' = [client EXCEPT !.pc = to]
         \/ client.pc = "block" /\ client' = [client EXCEPT !.pc = "wait"]
         \/ client.pc = "wait" /\ client' = [client EXCEPT !.pc = "test"]
  BY DEF Test, Block, SpuriousWakeup, StreamStep
<1> HIDE DEF to
<1>2. /\ DOMAIN client' = DOMAIN client
      /\ client'.stream_active = client.stream_active /\ client'.first_write = client.first_write
      /\ client'.should_stop = client.should_stop /\ client'.writer = client.writer
      /\ client'.pc \in {to, "wait", "test"} /\ (client'.pc = to => client.pc = "test" \/ to \in {"wait", "test"})
  BY <1>1 DEF PipelineInv, Records
<1>3. Threads'
  BY <1>0, <1>1, <1>2 DEF PipelineInv, Threads
<1> QED
  BY <1>1, <1>2, <1>3, StreamKeeps

LEMMA OpenStep == PipelineInv /\ (ChannelReady \/ OpenStream \/ Starting) => PipelineInv'
<1> SUFFICES ASSUME PipelineInv, ChannelReady \/ OpenStream \/ Starting PROVE PipelineInv'
  OBVIOUS
<1>1. UNCHANGED <<control, et, service, past>>
  BY DEF ChannelReady, OpenStream, Starting, StreamStep
<1>2. CASE ChannelReady
  <2>1. /\ client.pc = "channel"
        /\ \/ client.should_stop /\ client' = [client EXCEPT !.pc = "done"]
           \/ client' = [client EXCEPT !.pc = "connected"]
    BY <1>2 DEF ChannelReady, StreamStep
  <2>2. /\ DOMAIN client' = DOMAIN client
        /\ client'.stream_active = client.stream_active /\ client'.first_write = client.first_write
        /\ client'.should_stop = client.should_stop /\ client'.writer = client.writer
        /\ client'.pc = "connected" \/ (client'.pc = "done" /\ client.should_stop)
    BY <2>1 DEF PipelineInv, Records
  <2>3. Threads'
    BY <1>1, <2>1, <2>2 DEF PipelineInv, Threads
  <2> QED
    BY <1>1, <2>2, <2>3, StreamKeeps
<1>3. CASE OpenStream
  <2>1. /\ client.pc = "connected"
        /\ \/ client.should_stop /\ client' = [client EXCEPT !.pc = "done"]
           \/ client' = [client EXCEPT !.pc = "starting", !.context = TRUE, !.writer = TRUE, !.up = TRUE,
                                       !.streams = @ + 1]
    BY <1>3 DEF OpenStream, StreamStep
  <2>2. /\ DOMAIN client' = DOMAIN client
        /\ client'.stream_active = client.stream_active /\ client'.first_write = client.first_write
        /\ client'.should_stop = client.should_stop
        /\ \/ client'.pc = "starting" /\ client'.writer
           \/ client'.pc = "done" /\ client.should_stop /\ client'.writer = client.writer
    BY <2>1, ZenonT(60) DEF PipelineInv, Records
  <2>3. Threads'
    BY <1>1, <2>1, <2>2 DEF PipelineInv, Threads
  <2> QED
    BY <1>1, <2>2, <2>3, StreamKeeps
<1>4. CASE Starting
  <2>1. /\ client.pc = "starting"
        /\ \/ client' = [client EXCEPT !.pc = "started"]
           \/ client' = [client EXCEPT !.pc = "test", !.writer = FALSE]
    BY <1>4 DEF Starting, StreamStep
  <2>2. /\ DOMAIN client' = DOMAIN client
        /\ client'.stream_active = client.stream_active /\ client'.first_write = client.first_write
        /\ client'.should_stop = client.should_stop
        /\ client'.pc = "test" \/ (client'.pc = "started" /\ client'.writer = client.writer)
    BY <2>1, ZenonT(60) DEF PipelineInv, Records
  <2>3. Threads'
    BY <1>1, <2>1, <2>2 DEF PipelineInv, Threads
  <2> QED
    BY <1>1, <2>2, <2>3, StreamKeeps
<1> QED
  BY <1>2, <1>3, <1>4

LEMMA BreakStep == PipelineInv /\ StreamBreaks => PipelineInv'
<1> SUFFICES ASSUME PipelineInv, StreamBreaks PROVE PipelineInv'
  OBVIOUS
<1>1. UNCHANGED <<control, et, service, past>> /\ client' = [client EXCEPT !.up = FALSE]
  BY DEF StreamBreaks
<1>2. /\ DOMAIN client' = DOMAIN client
      /\ client'.stream_active = client.stream_active /\ client'.first_write = client.first_write
      /\ client'.should_stop = client.should_stop /\ client'.writer = client.writer /\ client'.pc = client.pc
  BY <1>1 DEF PipelineInv, Records
<1>3. Threads'
  BY <1>1, <1>2 DEF PipelineInv, Threads
<1> QED
  BY <1>1, <1>2, <1>3, StreamKeeps

\* A stream becomes active with a request for a refresh, so that what the last
\* stream has had does not count any more.
LEMMA ActivateStep == PipelineInv /\ (SetFirstWrite \/ Activate) => PipelineInv'
<1> SUFFICES ASSUME PipelineInv, SetFirstWrite \/ Activate PROVE PipelineInv'
  OBVIOUS
<1>1. UNCHANGED <<control, et, service>>
  BY DEF SetFirstWrite, Activate, StreamStep
<1>2. \/ /\ client.pc = "started" /\ client' = [client EXCEPT !.pc = "activate", !.first_write = TRUE]
         /\ past' = past
      \/ /\ client.pc = "activate" /\ client' = [client EXCEPT !.pc = "test", !.stream_active = TRUE]
         /\ past' = [past EXCEPT !.known = {}, !.excused = {}]
  BY DEF SetFirstWrite, Activate, StreamStep
<1>3. /\ DOMAIN client' = DOMAIN client
      /\ client'.should_stop = client.should_stop /\ client'.writer = client.writer
      /\ \/ /\ client.pc = "started" /\ client'.pc = "activate" /\ client'.first_write
            /\ client'.stream_active = client.stream_active
         \/ /\ client.pc = "activate" /\ client'.pc = "test" /\ client'.first_write = client.first_write
            /\ client'.stream_active
  BY <1>2, ZenonT(60) DEF PipelineInv, Records
<1>4. /\ DOMAIN past' = DOMAIN past /\ past'.skipped = past.skipped /\ past'.unheard = past.unheard
      /\ past'.known = past.known \/ past'.known = {}
      /\ past'.excused = past.excused \/ past'.excused = {}
  BY <1>2, ZenonT(60) DEF PipelineInv, Records
<1>5. ~client.stream_active /\ client'.first_write
  BY <1>3 DEF PipelineInv, Threads
<1>6. ~Refreshed /\ ~Refreshed'
  BY <1>5 DEF Refreshed
<1>7. Records'
  BY <1>1, <1>3, <1>4 DEF PipelineInv, Records
<1>8. Types' /\ Bounded(service'.cache)
  BY <1>1, <1>4 DEF PipelineInv, Types
<1>9. Threads'
  BY <1>1, <1>3, <1>5, ZenonT(60) DEF PipelineInv, Threads
<1>10. Handlers'
  BY <1>1, <1>4 DEF PipelineInv, Handlers, SelfCheckCostsOneEvent
<1>11. Refreshing'
  <2>1. et.pc # "existing"
    BY <1>6 DEF PipelineInv, Refreshing
  <2> QED
    BY <1>1, <1>6, <2>1 DEF PipelineInv, Refreshing
<1> QED
  BY <1>7, <1>8, <1>9, <1>10, <1>11 DEF PipelineInv

-----------------------------------------------------------------------------
(***************************************************************************)
(* The pipeline: events and handlers.                                      *)
(***************************************************************************)

LEMMA GetNextStep ==
    ASSUME PipelineInv, NEW e \in [kind : {"exec", "network", "check"}, proc : Process], GetNext(e)
    PROVE  PipelineInv'
<1> DEFINE x == e.proc
<1>1. /\ et.pc = "poll" /\ UNCHANGED <<control, client>>
      /\ et' = [et EXCEPT !.pc = "offer", !.ev = e, !.hi = 1]
      /\ \/ /\ e.kind = "exec"
            /\ service' = [service EXCEPT !.events = @ + 1, !.table = @ \cup {x}]
            /\ past' = [past EXCEPT !.known = @ \ {x}, !.excused = @ \ {x}, !.unheard = @ \ {x}]
         \/ e.kind # "exec" /\ service' = [service EXCEPT !.events = @ + 1] /\ past' = past
  BY DEF GetNext
<1> HIDE DEF x
<1>2. /\ DOMAIN et' = DOMAIN et
      /\ et'.pc = "offer" /\ et'.ev = e /\ et'.hi = 1 /\ et'.phase = et.phase /\ et'.todo = et.todo
      /\ et'.cur = et.cur /\ et'.res = et.res
  BY <1>1 DEF PipelineInv, Records
<1>3. /\ DOMAIN service' = DOMAIN service /\ service'.handlers = service.handlers /\ service'.cache = service.cache
      /\ service'.table = IF e.kind = "exec" THEN service.table \cup {x} ELSE service.table
  BY <1>1 DEF PipelineInv, Records
<1>a. /\ DOMAIN past' = DOMAIN past /\ past'.skipped = past.skipped
      /\ \/ /\ e.kind = "exec" /\ past'.known = past.known \ {x} /\ past'.excused = past.excused \ {x}
            /\ past'.unheard = past.unheard \ {x}
         \/ e.kind # "exec" /\ past' = past
  BY <1>1, ZenonT(60) DEF PipelineInv, Records
<1>4. Records'
  BY <1>1, <1>2, <1>3, <1>a DEF PipelineInv, Records
<1>5. Types' /\ Bounded(service'.cache)
  BY <1>1, <1>2, <1>3, <1>a DEF PipelineInv, Types, x
<1>6. Threads'
  BY <1>1, <1>2 DEF PipelineInv, Threads, Stopping
<1>7. Handlers'
  BY <1>1, <1>2, <1>3, <1>a, KeepHandlers DEF PipelineInv
<1>8. Refreshing'
  <2>1. Refreshed' <=> Refreshed
    BY <1>1 DEF Refreshed
  <2>2. Skipped' = Skipped
    BY <1>a DEF Skipped
  <2>3. Refreshed => Missing = {}
    BY <1>1 DEF PipelineInv, Refreshing
  <2>4. Refreshed => IF e.kind = "exec" THEN Missing' \subseteq {x} ELSE Missing' = {}
    BY <1>3, <1>a, <2>2, <2>3 DEF Missing
  <2>5. e.kind = "exec" => ToBeOffered'
    <3>1. PICK i \in 1..Len(service.handlers) : service.handlers[i] = "Process"
      BY <1>1 DEF PipelineInv, Handlers
    <3>2. i >= 1
      OBVIOUS
    <3> QED
      BY <1>2, <1>3, <3>1, <3>2 DEF ToBeOffered
  <2>6. et.todo = {}
    BY <1>1 DEF PipelineInv, Refreshing
  <2> QED
    BY <1>2, <2>1, <2>4, <2>5, <2>6 DEF Refreshing, x
<1> QED
  BY <1>4, <1>5, <1>6, <1>7, <1>8 DEF PipelineInv

\* What enters the table unheard is not missed before the next refresh.
LEMMA UnheardStep == ASSUME PipelineInv, NEW p \in Process, GetNextUnheard(p) PROVE PipelineInv'
<1>1. /\ et.pc = "poll" /\ UNCHANGED <<control, et, client>>
      /\ service' = [service EXCEPT !.events = @ + 1, !.table = @ \cup {p}]
      /\ past' = [past EXCEPT !.known = @ \ {p}, !.excused = @ \ {p}, !.unheard = @ \cup {p}]
  BY DEF GetNextUnheard
<1>2. /\ DOMAIN service' = DOMAIN service /\ service'.handlers = service.handlers /\ service'.cache = service.cache
      /\ service'.table = service.table \cup {p}
  BY <1>1 DEF PipelineInv, Records
<1>3. /\ DOMAIN past' = DOMAIN past /\ past'.skipped = past.skipped /\ past'.known = past.known \ {p}
      /\ past'.excused = past.excused \ {p} /\ past'.unheard = past.unheard \cup {p}
  BY <1>1 DEF PipelineInv, Records
<1>4. Records' /\ Types' /\ Bounded(service'.cache) /\ Threads'
  BY <1>1, <1>2, <1>3 DEF PipelineInv, Records, Types, Threads
<1>5. Handlers'
  BY <1>1, <1>2, <1>3, KeepHandlers DEF PipelineInv
<1>6. Refreshing'
  <2>1. Refreshed' <=> Refreshed
    BY <1>1 DEF Refreshed
  <2>2. Missing' \subseteq Missing
    BY <1>2, <1>3 DEF Missing, Skipped
  <2> QED
    BY <1>1, <2>1, <2>2 DEF PipelineInv, Refreshing
<1> QED
  BY <1>4, <1>5, <1>6 DEF PipelineInv

LEMMA ExitStep == ASSUME PipelineInv, NEW p \in Process, Exit(p) PROVE PipelineInv'
<1>1. /\ et.pc = "poll" /\ UNCHANGED <<control, et, client, past>>
      /\ service' = [service EXCEPT !.table = @ \ {p}]
  BY DEF Exit
<1>2. /\ DOMAIN service' = DOMAIN service /\ service'.handlers = service.handlers /\ service'.cache = service.cache
      /\ service'.table = service.table \ {p}
  BY <1>1 DEF PipelineInv, Records
<1>3. Records' /\ Types' /\ Bounded(service'.cache) /\ Threads'
  BY <1>1, <1>2 DEF PipelineInv, Records, Types, Threads
<1>4. Handlers'
  BY <1>1, <1>2, KeepHandlers DEF PipelineInv
<1>5. Refreshing'
  <2>1. Refreshed' <=> Refreshed
    BY <1>1 DEF Refreshed
  <2>2. Missing' \subseteq Missing
    BY <1>1, <1>2 DEF Missing, Skipped
  <2> QED
    BY <1>1, <2>1, <2>2 DEF PipelineInv, Refreshing
<1> QED
  BY <1>3, <1>4, <1>5 DEF PipelineInv

LEMMA SignalStep == PipelineInv /\ (ShutdownSignal \/ SelfCheckTimeout) => PipelineInv'
<1> SUFFICES ASSUME PipelineInv, ShutdownSignal \/ SelfCheckTimeout PROVE PipelineInv'
  OBVIOUS
<1>1. /\ UNCHANGED <<et, client, past>> /\ control' \in {control, "STOP"}
      /\ service' = service \/ service' = [service EXCEPT !.timed_out = TRUE]
  BY DEF ShutdownSignal, SelfCheckTimeout
<1>2. /\ DOMAIN service' = DOMAIN service /\ service'.handlers = service.handlers /\ service'.cache = service.cache
      /\ service'.table = service.table
  BY <1>1 DEF PipelineInv, Records
<1>3. Records' /\ Types' /\ Bounded(service'.cache) /\ Threads'
  BY <1>1, <1>2 DEF PipelineInv, Records, Types, Threads
<1>4. Handlers'
  BY <1>1, <1>2, KeepHandlers DEF PipelineInv
<1>5. Refreshing'
  <2>1. Refreshed' <=> Refreshed
    BY <1>1 DEF Refreshed
  <2>2. Missing' = Missing
    BY <1>1, <1>2, KeepMissing
  <2>3. ToBeOffered' <=> ToBeOffered
    BY <1>1, <1>2 DEF ToBeOffered
  <2> QED
    BY <1>1, <2>1, <2>2, <2>3 DEF PipelineInv, Refreshing
<1> QED
  BY <1>3, <1>4, <1>5 DEF PipelineInv

\* No element occurs twice.
Once(q) == \A j, k \in 1..Len(q) : q[j] = q[k] => j = k

\* z has the elements of q but x.
Without(z, q, x) ==
    /\ \A j \in 1..Len(z) : z[j] # x /\ \E k \in 1..Len(q) : z[j] = q[k]
    /\ \A j \in 1..Len(q) : q[j] # x => \E k \in 1..Len(z) : z[k] = q[j]

LEMMA ErasedOnce ==
    ASSUME NEW S, NEW q \in Seq(S), NEW i \in 1..Len(q), Once(q)
    PROVE  Erase(q, i) \in Seq(S) /\ Once(Erase(q, i)) /\ Without(Erase(q, i), q, q[i])
<1> DEFINE n == Len(q) - 1
           z == Erase(q, i)
<1>1. Len(q) \in Nat /\ n \in Nat /\ \A j \in 1..Len(q) : q[j] \in S
  OBVIOUS
<1>2. z = [j \in 1..n |-> IF j < i THEN q[j] ELSE q[j + 1]]
  BY DEF Erase
<1> HIDE DEF z
<1>3. \A j \in 1..n : /\ j < i => z[j] = q[j] /\ j \in 1..Len(q)
                      /\ ~(j < i) => z[j] = q[j + 1] /\ j + 1 \in 1..Len(q)
  BY <1>1, <1>2
<1>4. z \in Seq(S) /\ Len(z) = n
  BY <1>1, <1>2
<1> HIDE DEF n
<1>a. \A j, k \in 1..Len(q) : q[j] = q[k] => j = k
  BY DEF Once
<1>5. \A j, k \in 1..n : z[j] = z[k] => j = k
  BY <1>1, <1>3, <1>a
<1>6. ASSUME NEW j \in 1..n
      PROVE  z[j] # q[i] /\ \E k \in 1..Len(q) : z[j] = q[k]
  <2>1. CASE j < i
    BY <2>1, <1>1, <1>3, <1>a
  <2>2. CASE ~(j < i)
    <3>1. j + 1 # i /\ z[j] = q[j + 1] /\ j + 1 \in 1..Len(q)
      BY <2>2, <1>1, <1>3
    <3> QED
      BY <3>1, <1>a
  <2> QED
    BY <2>1, <2>2
<1>7. ASSUME NEW j \in 1..Len(q), q[j] # q[i]
      PROVE  \E k \in 1..n : z[k] = q[j]
  <2>1. CASE j < i
    <3>1. j \in 1..n
      BY <2>1, <1>1 DEF n
    <3> QED
      BY <2>1, <3>1, <1>3
  <2>2. CASE j > i
    <3>1. j - 1 \in 1..n /\ ~(j - 1 < i) /\ (j - 1) + 1 = j
      BY <2>2, <1>1 DEF n
    <3> QED
      BY <3>1, <1>3
  <2>3. j # i
    BY <1>7
  <2> QED
    BY <2>1, <2>2, <2>3
<1> QED
  BY <1>4, <1>5, <1>6, <1>7, SMTT(60) DEF z, Once, Without

\* A self check that has finished leaves the list for good, and the event it kept
\* to itself is excused.
LEMMA FinishedStep ==
    ASSUME PipelineInv, et.pc = "offer", et.hi \in 1..Len(service.handlers), Finished(service.handlers[et.hi])
    PROVE  PipelineInv'
<1> DEFINE h == service.handlers[et.hi]
           q == service.handlers
           z == Erase(q, et.hi)
           x == [handler |-> h, ev |-> et.ev, n |-> service.events]
           S == {"SelfCheckProcess", "SelfCheckNetwork", "Process", "Network"}
<1>1. /\ SelfCheckFinished(h) /\ UNCHANGED <<control, client>>
      /\ service' = [service EXCEPT !.handlers = z]
      /\ past' = [past EXCEPT !.skipped = @ \cup {x}]
      /\ et' = [et EXCEPT !.pc = "poll", !.ev = NullEvent]
  BY DEF Finished
<1>2. h # "Process"
  BY <1>1 DEF SelfCheckFinished, IsSelfCheck
<1>3. /\ DOMAIN et' = DOMAIN et
      /\ et'.pc = "poll" /\ et'.ev = NullEvent /\ et'.hi = et.hi /\ et'.phase = et.phase /\ et'.todo = et.todo
      /\ et'.cur = et.cur /\ et'.res = et.res
  BY <1>1 DEF PipelineInv, Records
<1>4. x.handler = h /\ x.ev = et.ev
  OBVIOUS
<1> HIDE DEF x
<1>5. /\ DOMAIN past' = DOMAIN past /\ past'.known = past.known /\ past'.excused = past.excused
      /\ past'.unheard = past.unheard /\ past'.skipped = past.skipped \cup {x}
  BY <1>1 DEF PipelineInv, Records
<1>6. /\ q \in Seq(S)
      /\ \A i, j \in 1..Len(q) : q[i] = q[j] => i = j
      /\ \E i \in 1..Len(q) : q[i] = "Process"
      /\ \A s \in past.skipped, i \in 1..Len(q) : s.handler # q[i]
      /\ SelfCheckCostsOneEvent
  BY DEF PipelineInv, Handlers
<1>7. /\ z \in Seq(S)
      /\ \A j, k \in 1..Len(z) : z[j] = z[k] => j = k
      /\ \A j \in 1..Len(z) : z[j] # q[et.hi] /\ \E k \in 1..Len(q) : z[j] = q[k]
      /\ \A j \in 1..Len(q) : q[j] # q[et.hi] => \E k \in 1..Len(z) : z[k] = q[j]
  <2>1. Once(q)
    BY <1>6 DEF Once
  <2>2. z \in Seq(S) /\ Once(z) /\ Without(z, q, q[et.hi])
    <3> HIDE DEF S
    <3> QED
      BY <1>6, <2>1, ErasedOnce
  <2> HIDE DEF z
  <2> QED
    BY <2>2 DEF Once, Without
<1> HIDE DEF z
<1>8. /\ DOMAIN service' = DOMAIN service /\ service'.handlers = z /\ service'.table = service.table
      /\ service'.cache = service.cache
  BY <1>1 DEF PipelineInv, Records
<1>9. Records'
  BY <1>3, <1>5, <1>8, <1>1 DEF PipelineInv, Records
<1>10. Types' /\ Bounded(service'.cache)
  <2>1. NullEvent \in [kind : {"none", "exec", "network", "check"}, proc : Process]
    BY ProcessAssumption DEF NullEvent
  <2> QED
    BY <1>1, <1>3, <1>5, <1>8, <2>1 DEF PipelineInv, Types
<1>11. Threads'
  BY <1>1, <1>3 DEF PipelineInv, Threads, Stopping
<1>12. Handlers'
  <2>1. \E i \in 1..Len(z) : z[i] = "Process"
    <3>1. PICK j \in 1..Len(q) : q[j] = "Process"
      BY <1>6, Zenon
    <3>2. q[j] # q[et.hi]
      BY <1>2, <3>1, Zenon
    <3>3. PICK k \in 1..Len(z) : z[k] = q[j]
      BY <1>7, <3>2, Zenon
    <3> QED
      BY <3>1, <3>3, Zenon
  <2>2. \A s \in past.skipped \cup {x}, i \in 1..Len(z) : s.handler # z[i]
    BY <1>4, <1>6, <1>7
  <2>3. \A s, t \in past.skipped \cup {x} : s.handler = t.handler => s = t
    <3>1. \A s \in past.skipped : s.handler # h
      BY <1>6
    <3> QED
      BY <1>4, <1>6, <3>1 DEF SelfCheckCostsOneEvent
  <2>4. SelfCheckCostsOneEvent'
    BY <1>5, <2>3 DEF SelfCheckCostsOneEvent
  <2> QED
    BY <1>5, <1>7, <1>8, <2>1, <2>2, <2>4, SMTT(60) DEF Handlers
<1>13. Refreshing'
  <2>1. Refreshed' <=> Refreshed
    BY <1>1 DEF Refreshed
  <2>2. Skipped \subseteq Skipped' /\ (et.ev.kind = "exec" => et.ev.proc \in Skipped')
    BY <1>4, <1>5 DEF Skipped
  <2>3. Refreshed => Missing \subseteq {et.ev.proc} /\ (Missing = {} \/ et.ev.kind = "exec")
    BY DEF PipelineInv, Refreshing, ToBeOffered
  <2>4. Refreshed => Missing' = {}
    BY <1>5, <1>8, <2>2, <2>3 DEF Missing
  <2>5. et.todo = {}
    BY DEF PipelineInv, Refreshing
  <2> QED
    BY <1>3, <2>1, <2>4, <2>5 DEF Refreshing
<1> QED
  BY <1>9, <1>10, <1>11, <1>12, <1>13 DEF PipelineInv

\* A step of the event thread alone.
LEMMA EventThreadKeeps ==
    ASSUME PipelineInv, UNCHANGED <<control, service, client, past>>, DOMAIN et' = DOMAIN et,
           Types', et'.pc \notin {"write", "reset", "deactivate", "stopped"},
           et.pc \notin Stopping \cup {"deactivate"}, Refreshing'
    PROVE  PipelineInv'
<1>1. Records'
  BY DEF PipelineInv, Records
<1>2. Bounded(service'.cache)
  BY DEF PipelineInv
<1>3. Threads'
  BY DEF PipelineInv, Threads
<1>4. Handlers'
  BY KeepHandlers DEF PipelineInv, Stopping
<1> QED
  BY <1>1, <1>2, <1>3, <1>4 DEF PipelineInv

LEMMA OfferStep == PipelineInv /\ (Offer \/ Offered) => PipelineInv'
<1> SUFFICES ASSUME PipelineInv, Offer \/ Offered PROVE PipelineInv'
  OBVIOUS
<1> DEFINE q == service.handlers
           h == q[et.hi]
<1>1. et.pc = "offer" /\ et.hi \in Nat /\ Len(q) \in Nat /\ et.todo = {}
  BY DEF Offer, Offered, PipelineInv, Types, Refreshing, Handlers
<1>2. Refreshed => Missing \subseteq {et.ev.proc} /\ (Missing = {} \/ ToBeOffered)
  BY <1>1 DEF PipelineInv, Refreshing
<1>3. CASE Offer /\ Finished(h)
  <2>1. et.hi \in 1..Len(q) \/ et.hi = 0
    BY <1>1, <1>3 DEF Offer
  <2>2. et.hi # 0
    BY DEF PipelineInv, Types
  <2> QED
    BY <1>1, <1>3, <2>1, <2>2, FinishedStep
<1>4. CASE Offer /\ Ignored(h)
  <2>1. /\ UNCHANGED <<control, service, client, past>> /\ et' = [et EXCEPT !.hi = @ + 1]
        /\ ~(ShouldHandle(h) /\ h = "Process")
    BY <1>4 DEF Ignored
  <2>2. /\ DOMAIN et' = DOMAIN et /\ et'.pc = et.pc /\ et'.ev = et.ev /\ et'.hi = et.hi + 1
        /\ et'.phase = et.phase /\ et'.todo = et.todo /\ et'.cur = et.cur /\ et'.res = et.res
    BY <2>1 DEF PipelineInv, Records
  <2>3. Types'
    BY <2>1, <2>2, <1>1 DEF PipelineInv, Types
  <2>4. ToBeOffered => ToBeOffered'
    <3> SUFFICES ASSUME ToBeOffered PROVE ToBeOffered'
      OBVIOUS
    <3>1. PICK i \in 1..Len(q) : i >= et.hi /\ q[i] = "Process"
      BY DEF ToBeOffered
    <3>2. i # et.hi
      BY <3>1, <2>1 DEF ToBeOffered, ShouldHandle
    <3>3. i >= et.hi + 1
      BY <1>1, <3>1, <3>2
    <3> QED
      BY <2>1, <2>2, <3>1, <3>3 DEF ToBeOffered
  <2>5. (Refreshed' <=> Refreshed) /\ Missing' = Missing
    BY <2>1, KeepMissing DEF Refreshed
  <2>6. Refreshing'
    BY <1>1, <1>2, <2>2, <2>4, <2>5 DEF Refreshing
  <2> QED
    BY <1>1, <2>1, <2>2, <2>3, <2>6, EventThreadKeeps DEF Stopping
<1>5. CASE Offer /\ Handled(h)
  <2>1. /\ UNCHANGED <<control, service, client, past>>
        /\ et' = [et EXCEPT !.pc = "signal", !.phase = "first", !.cur = et.ev.proc]
    BY <1>5 DEF Handled
  <2>2. /\ DOMAIN et' = DOMAIN et /\ et'.pc = "signal" /\ et'.ev = et.ev /\ et'.hi = et.hi
        /\ et'.phase = "first" /\ et'.todo = et.todo /\ et'.cur = et.ev.proc /\ et'.res = et.res
    BY <2>1 DEF PipelineInv, Records
  <2>3. Types'
    BY <2>1, <2>2, <1>1 DEF PipelineInv, Types
  <2>5. (Refreshed' <=> Refreshed) /\ Missing' = Missing
    BY <2>1, KeepMissing DEF Refreshed
  <2>6. Refreshing'
    BY <1>1, <1>2, <2>2, <2>5 DEF Refreshing
  <2> QED
    BY <1>1, <2>1, <2>2, <2>3, <2>6, EventThreadKeeps DEF Stopping
<1>6. CASE Offered
  <2>1. /\ UNCHANGED <<control, service, client, past>> /\ et.hi > Len(q)
        /\ et' = [et EXCEPT !.pc = "poll", !.ev = NullEvent]
    BY <1>6 DEF Offered
  <2>2. /\ DOMAIN et' = DOMAIN et /\ et'.pc = "poll" /\ et'.ev = NullEvent /\ et'.hi = et.hi
        /\ et'.phase = et.phase /\ et'.todo = et.todo /\ et'.cur = et.cur /\ et'.res = et.res
    BY <2>1 DEF PipelineInv, Records
  <2>3. Types'
    <3>1. NullEvent \in [kind : {"none", "exec", "network", "check"}, proc : Process]
      BY ProcessAssumption DEF NullEvent
    <3> QED
      BY <2>1, <2>2, <3>1 DEF PipelineInv, Types
  <2>4. ~ToBeOffered
    BY <1>1, <2>1 DEF ToBeOffered
  <2>5. (Refreshed' <=> Refreshed) /\ Missing' = Missing
    BY <2>1, KeepMissing DEF Refreshed
  <2>6. Refreshing'
    BY <1>1, <1>2, <2>2, <2>4, <2>5 DEF Refreshing
  <2> QED
    BY <1>1, <2>1, <2>2, <2>3, <2>6, EventThreadKeeps DEF Stopping
<1> QED
  BY <1>3, <1>4, <1>5, <1>6 DEF Offer

-----------------------------------------------------------------------------
(***************************************************************************)
(* The pipeline: signals.                                                  *)
(***************************************************************************)

LEMMA ResultStep == PipelineInv /\ Result => PipelineInv'
<1> SUFFICES ASSUME PipelineInv, Result PROVE PipelineInv'
  OBVIOUS
<1> DEFINE refresh == et.phase = "first" /\ et.res = "NEEDS_REFRESH"
           more == et.phase = "existing" /\ et.res \notin {"ERROR", "NEEDS_REFRESH"}
<1>1. et.pc = "result" /\ UNCHANGED <<control, service, client>>
  BY DEF Result
<1>2. /\ Refreshed' <=> Refreshed
      /\ past' = past => Missing' = Missing
  BY <1>1, KeepMissing DEF Refreshed
<1>3. /\ et.res # "NEEDS_REFRESH" /\ Refreshed => Missing \subseteq et.todo
      /\ et.res = "ERROR" => ~Refreshed
      /\ et.phase # "first" /\ et.res # "ERROR" => Refreshed
      /\ et.res = "NEEDS_REFRESH" => et.phase = "first" /\ Refreshed
      /\ et.phase # "existing" => et.todo = {}
  BY <1>1 DEF PipelineInv, Refreshing
<1>4. CASE refresh
  <2>1. /\ et' = [et EXCEPT !.pc = "existing", !.phase = "existing", !.todo = service.table]
        /\ past' = [past EXCEPT !.unheard = {}]
    BY <1>4 DEF Result
  <2>2. /\ DOMAIN et' = DOMAIN et /\ et'.pc = "existing" /\ et'.ev = et.ev /\ et'.hi = et.hi
        /\ et'.phase = "existing" /\ et'.todo = service.table /\ et'.cur = et.cur /\ et'.res = et.res
        /\ DOMAIN past' = DOMAIN past /\ past'.known = past.known /\ past'.excused = past.excused
        /\ past'.skipped = past.skipped /\ past'.unheard = {}
    BY <2>1 DEF PipelineInv, Records
  <2>3. Records' /\ Types' /\ Bounded(service'.cache)
    BY <1>1, <2>2 DEF PipelineInv, Records, Types
  <2>4. Missing' \subseteq service.table
    BY <1>1 DEF Missing
  <2>5. Refreshing'
    BY <1>2, <1>3, <1>4, <2>2, <2>4 DEF Refreshing
  <2>6. Threads'
    BY <1>1, <2>2 DEF PipelineInv, Threads, Stopping
  <2>7. Handlers'
    BY <1>1, <2>2, KeepHandlers DEF PipelineInv
  <2> QED
    BY <2>3, <2>5, <2>6, <2>7 DEF PipelineInv
<1>5. CASE more
  <2>1. et' = [et EXCEPT !.pc = "existing"] /\ past' = past
    BY <1>5 DEF Result
  <2>2. /\ DOMAIN et' = DOMAIN et /\ et'.pc = "existing" /\ et'.ev = et.ev /\ et'.hi = et.hi
        /\ et'.phase = et.phase /\ et'.todo = et.todo /\ et'.cur = et.cur /\ et'.res = et.res
    BY <2>1 DEF PipelineInv, Records
  <2>3. Types'
    BY <1>1, <2>1, <2>2 DEF PipelineInv, Types
  <2>5. Refreshing'
    BY <1>2, <1>3, <1>5, <2>1, <2>2, SMTT(60) DEF Refreshing
  <2> QED
    BY <1>1, <2>1, <2>2, <2>3, <2>5, EventThreadKeeps DEF Stopping
<1>6. CASE ~refresh /\ ~more
  <2>1. et' = [et EXCEPT !.pc = "offer", !.hi = @ + 1, !.todo = {}] /\ past' = past
    BY <1>6 DEF Result, NextHandler
  <2>2. /\ DOMAIN et' = DOMAIN et /\ et'.pc = "offer" /\ et'.ev = et.ev /\ et'.hi = et.hi + 1
        /\ et'.phase = et.phase /\ et'.todo = {} /\ et'.cur = et.cur /\ et'.res = et.res
    BY <2>1 DEF PipelineInv, Records
  <2>3. Types'
    BY <1>1, <2>1, <2>2 DEF PipelineInv, Types
  <2>4. Refreshed => Missing = {}
    BY <1>3, <1>6
  <2>5. Refreshing'
    BY <1>2, <2>1, <2>2, <2>4, SMTT(60) DEF Refreshing
  <2> QED
    BY <1>1, <2>1, <2>2, <2>3, <2>5, EventThreadKeeps DEF Stopping
<1> QED
  BY <1>4, <1>5, <1>6

LEMMA NextExistingStep == PipelineInv /\ NextExisting => PipelineInv'
<1> SUFFICES ASSUME PipelineInv, NextExisting PROVE PipelineInv'
  OBVIOUS
<1>1. et.pc = "existing" /\ UNCHANGED <<control, service, client, past>>
  BY ZenonT(60) DEF NextExisting
<1>2. (Refreshed' <=> Refreshed) /\ Missing' = Missing
  BY <1>1, KeepMissing DEF Refreshed
<1>3. Missing \subseteq et.todo /\ et.phase = "existing" /\ Refreshed
  BY <1>1 DEF PipelineInv, Refreshing
<1>4. ASSUME NEW p \in et.todo, et' = [et EXCEPT !.pc = "signal", !.cur = p, !.todo = @ \ {p}]
      PROVE  PipelineInv'
  <2>2. /\ DOMAIN et' = DOMAIN et /\ et'.pc = "signal" /\ et'.ev = et.ev /\ et'.hi = et.hi
        /\ et'.phase = et.phase /\ et'.todo = et.todo \ {p} /\ et'.cur = p /\ et'.res = et.res
    BY <1>4 DEF PipelineInv, Records
  <2>3. Types'
    BY <1>1, <2>2 DEF PipelineInv, Types
  <2>5. Refreshing'
    BY <1>2, <1>3, <2>2 DEF Refreshing
  <2> QED
    BY <1>1, <2>2, <2>3, <2>5, EventThreadKeeps DEF Stopping
<1>5. CASE et.todo = {} /\ et' = [et EXCEPT !.pc = "signal", !.phase = "retry", !.cur = et.ev.proc]
  <2>2. /\ DOMAIN et' = DOMAIN et /\ et'.pc = "signal" /\ et'.ev = et.ev /\ et'.hi = et.hi
        /\ et'.phase = "retry" /\ et'.todo = et.todo /\ et'.cur = et.ev.proc /\ et'.res = et.res
    BY <1>5 DEF PipelineInv, Records
  <2>3. Types'
    BY <1>1, <2>2 DEF PipelineInv, Types
  <2>5. Refreshing'
    BY <1>2, <1>3, <1>5, <2>2 DEF Refreshing
  <2> QED
    BY <1>1, <2>2, <2>3, <2>5, EventThreadKeeps DEF Stopping
<1> QED
  BY <1>4, <1>5, ZenonT(60) DEF NextExisting

LEMMA CacheBounded ==
    ASSUME NEW c, Bounded(c), NEW k \in Keys, NEW now
    PROVE  Bounded(CacheAllow(c, k, now).cache)
<1> DEFINE r == CacheAllow(c, k, now)
           full == k \notin DOMAIN c /\ Cardinality(DOMAIN c) = Capacity
           D == DOMAIN c \cup {k}
<1>1. CASE full
  <2>1. r.cache = << >>
    BY <1>1 DEF CacheAllow
  <2> QED
    BY <2>1, EmptyCache, FS_EmptySet, LimitAssumption, SMTT(60) DEF Bounded
<1>2. CASE ~full
  <2>1. DOMAIN r.cache = D
    BY <1>2 DEF CacheAllow
  <2>2. /\ IsFiniteSet(D)
        /\ Cardinality(D) = IF k \in DOMAIN c THEN Cardinality(DOMAIN c) ELSE Cardinality(DOMAIN c) + 1
    BY FS_AddElement DEF Bounded
  <2>3. Cardinality(DOMAIN c) \in Nat /\ Cardinality(DOMAIN c) <= Capacity /\ Capacity \in Nat
    BY FS_CardinalityType, LimitAssumption DEF Bounded
  <2>4. D \subseteq Keys
    BY DEF Bounded
  <2> HIDE DEF D, r
  <2>5. Cardinality(D) <= Capacity
    BY <2>2, <2>3, <1>2
  <2> QED
    BY <2>1, <2>2, <2>4, <2>5, SMTT(60) DEF Bounded, r
<1> QED
  BY <1>1, <1>2

\* A signal is dropped by the formatter or the limiter, or written, or turned down
\* because there is no stream or because the stream needs a refresh first.
LEMMA HandleSignalStep == PipelineInv /\ HandleSignal => PipelineInv'
<1> SUFFICES ASSUME PipelineInv, HandleSignal PROVE PipelineInv'
  OBVIOUS
<1> DEFINE r == CacheAllow(service.cache, KeyOf[et.cur], 1)
           c == r.cache
           pushed == et.cur \notin Unresolvable /\ r.allowed
           start == PushStart
<1>1. /\ et.pc = "signal" /\ control' = control
      /\ service' = [service EXCEPT !.cache = c] \/ service' = service
      /\ \/ /\ et' = [et EXCEPT !.pc = "result", !.res = "IGNORED"]
            /\ past' = [past EXCEPT !.excused = @ \cup {et.cur}]
            /\ client' = client
         \/ /\ start = "write" /\ et' = [et EXCEPT !.pc = "write"]
            /\ client' = client /\ past' = past
         \/ /\ start # "write" /\ et' = [et EXCEPT !.pc = "result", !.res = start]
            /\ client' = IF start = "NEEDS_REFRESH" THEN [client EXCEPT !.first_write = FALSE] ELSE client
            /\ past' = past
  BY DEF HandleSignal
<1>2. \/ start = "ERROR" /\ ~client.stream_active
      \/ start = "NEEDS_REFRESH" /\ client.stream_active /\ client.first_write
      \/ start = "write" /\ client.stream_active /\ ~client.first_write
  BY DEF PushStart
<1>3. Bounded(c)
  <2>1. et.cur \in Process
    BY DEF PipelineInv, Types
  <2>2. KeyOf[et.cur] \in Keys
    BY <2>1, ProcessAssumption
  <2> QED
    BY <2>2, CacheBounded DEF PipelineInv
<1> HIDE DEF c, start
<1>4. /\ DOMAIN service' = DOMAIN service /\ service'.handlers = service.handlers
      /\ service'.table = service.table /\ service'.cache \in {service.cache, c}
  BY <1>1 DEF PipelineInv, Records
<1>5. Bounded(service'.cache)
  BY <1>3, <1>4 DEF PipelineInv
<1>6. /\ Refreshed => Missing \subseteq {et.cur} \cup et.todo
      /\ et.phase # "first" => Refreshed
      /\ et.phase # "existing" => et.todo = {}
  BY <1>1 DEF PipelineInv, Refreshing
<1>7. CASE /\ et' = [et EXCEPT !.pc = "result", !.res = "IGNORED"]
           /\ past' = [past EXCEPT !.excused = @ \cup {et.cur}]
           /\ client' = client
  <2>1. /\ DOMAIN et' = DOMAIN et /\ et'.pc = "result" /\ et'.ev = et.ev /\ et'.hi = et.hi
        /\ et'.phase = et.phase /\ et'.todo = et.todo /\ et'.cur = et.cur /\ et'.res = "IGNORED"
    BY <1>7 DEF PipelineInv, Records
  <2>2. /\ DOMAIN past' = DOMAIN past /\ past'.known = past.known /\ past'.skipped = past.skipped
        /\ past'.excused = past.excused \cup {et.cur} /\ past'.unheard = past.unheard
    BY <1>7 DEF PipelineInv, Records
  <2>3. Records' /\ Types'
    BY <1>1, <1>4, <1>7, <2>1, <2>2 DEF PipelineInv, Records, Types
  <2>4. Threads'
    BY <1>1, <1>7, <2>1 DEF PipelineInv, Threads, Stopping
  <2>5. Handlers'
    BY <1>1, <1>4, <2>2, <2>1, KeepHandlers DEF PipelineInv
  <2>6. Missing' = Missing \ {et.cur}
    BY <1>4, <2>2 DEF Missing, Skipped
  <2>7. Refreshed' <=> Refreshed
    BY <1>7 DEF Refreshed
  <2>8. Refreshing'
    BY <1>6, <2>1, <2>6, <2>7, SMTT(60) DEF Refreshing
  <2> QED
    BY <1>5, <2>3, <2>4, <2>5, <2>8 DEF PipelineInv
<1>8. CASE start = "write" /\ et' = [et EXCEPT !.pc = "write"] /\ client' = client /\ past' = past
  <2>1. /\ DOMAIN et' = DOMAIN et /\ et'.pc = "write" /\ et'.ev = et.ev /\ et'.hi = et.hi
        /\ et'.phase = et.phase /\ et'.todo = et.todo /\ et'.cur = et.cur /\ et'.res = et.res
    BY <1>8 DEF PipelineInv, Records
  <2>3. Records' /\ Types'
    BY <1>1, <1>4, <1>8, <2>1 DEF PipelineInv, Records, Types
  <2>4. Threads'
    BY <1>1, <1>2, <1>8, <2>1 DEF PipelineInv, Threads, Stopping
  <2>5. Handlers'
    BY <1>1, <1>4, <1>8, <2>1, KeepHandlers DEF PipelineInv
  <2>6. Missing' = Missing
    BY <1>4, <1>8, KeepMissing
  <2>7. Refreshed' <=> Refreshed
    BY <1>8 DEF Refreshed
  <2>8. Refreshing'
    BY <1>6, <2>1, <2>6, <2>7, SMTT(60) DEF Refreshing
  <2> QED
    BY <1>5, <2>3, <2>4, <2>5, <2>8 DEF PipelineInv
<1>9. CASE /\ start # "write" /\ et' = [et EXCEPT !.pc = "result", !.res = start]
           /\ client' = IF start = "NEEDS_REFRESH" THEN [client EXCEPT !.first_write = FALSE] ELSE client
           /\ past' = past
  <2>1. /\ DOMAIN et' = DOMAIN et /\ et'.pc = "result" /\ et'.ev = et.ev /\ et'.hi = et.hi
        /\ et'.phase = et.phase /\ et'.todo = et.todo /\ et'.cur = et.cur /\ et'.res = start
    BY <1>9 DEF PipelineInv, Records
  <2>2. /\ DOMAIN client' = DOMAIN client /\ client'.pc = client.pc /\ client'.should_stop = client.should_stop
        /\ client'.stream_active = client.stream_active /\ client'.writer = client.writer
        /\ IF start = "NEEDS_REFRESH" THEN ~client'.first_write ELSE client'.first_write = client.first_write
    BY <1>9 DEF PipelineInv, Records
  <2>3. Records' /\ Types'
    BY <1>1, <1>2, <1>4, <1>9, <2>1, <2>2 DEF PipelineInv, Records, Types
  <2>4. Threads'
    <3>1. start = "NEEDS_REFRESH" => client.pc # "activate"
      BY <1>2 DEF PipelineInv, Threads
    <3> QED
      BY <1>1, <2>1, <2>2, <3>1 DEF PipelineInv, Threads, Stopping
  <2>5. Handlers'
    BY <1>1, <1>4, <1>9, <2>1, KeepHandlers DEF PipelineInv
  <2>6. ~Refreshed /\ et.phase = "first"
    BY <1>2, <1>6, <1>9 DEF Refreshed
  <2>7. IF start = "NEEDS_REFRESH" THEN Refreshed' ELSE ~Refreshed'
    BY <1>2, <1>9, <2>2 DEF Refreshed
  <2>8. start \in {"ERROR", "NEEDS_REFRESH"}
    BY <1>2, <1>9, SMTT(60)
  <2>9. Refreshing'
    BY <1>6, <2>1, <2>6, <2>7, <2>8 DEF Refreshing
  <2> QED
    BY <1>5, <2>3, <2>4, <2>5, <2>9 DEF PipelineInv
<1> QED
  BY <1>1, <1>7, <1>8, <1>9

LEMMA WriteStep == PipelineInv /\ Write => PipelineInv'
<1> SUFFICES ASSUME PipelineInv, Write PROVE PipelineInv'
  OBVIOUS
<1>1. /\ et.pc = "write" /\ UNCHANGED <<control, service, client>>
      /\ \/ /\ et' = [et EXCEPT !.pc = "result", !.res = "PROCESSED"]
            /\ past' = [past EXCEPT !.known = @ \cup {et.cur}]
         \/ et' = [et EXCEPT !.pc = "reset"] /\ past' = past
  BY DEF Write
<1>2. /\ DOMAIN et' = DOMAIN et /\ et'.ev = et.ev /\ et'.hi = et.hi
      /\ et'.phase = et.phase /\ et'.todo = et.todo /\ et'.cur = et.cur
      /\ DOMAIN past' = DOMAIN past /\ past'.excused = past.excused /\ past'.skipped = past.skipped
      /\ past'.unheard = past.unheard
      /\ \/ et'.pc = "result" /\ et'.res = "PROCESSED" /\ past'.known = past.known \cup {et.cur}
         \/ et'.pc = "reset" /\ et'.res = et.res /\ past'.known = past.known
  BY <1>1, ZenonT(60) DEF PipelineInv, Records
<1>3. Records' /\ Types' /\ Bounded(service'.cache)
  BY <1>1, <1>2 DEF PipelineInv, Records, Types
<1>4. Threads'
  BY <1>1, <1>2 DEF PipelineInv, Threads, Stopping
<1>5. Handlers'
  BY <1>1, <1>2, KeepHandlers DEF PipelineInv
<1>6. Refreshing'
  <2>1. /\ Refreshed => Missing \subseteq {et.cur} \cup et.todo
        /\ et.phase # "first" => Refreshed
        /\ et.phase # "existing" => et.todo = {}
    BY <1>1 DEF PipelineInv, Refreshing
  <2>2. et'.pc = "result" => Missing' = Missing \ {et.cur}
    BY <1>1, <1>2 DEF Missing, Skipped
  <2>3. Refreshed' <=> Refreshed
    BY <1>1 DEF Refreshed
  <2> QED
    BY <1>2, <2>1, <2>2, <2>3 DEF Refreshing
<1> QED
  BY <1>3, <1>4, <1>5, <1>6 DEF PipelineInv

\* A failed write gives up the writer, then the stream, then wakes the stream thread.
LEMMA FailedWriteStep == PipelineInv /\ (ResetWriter \/ Deactivate \/ Notify) => PipelineInv'
<1> SUFFICES ASSUME PipelineInv, ResetWriter \/ Deactivate \/ Notify PROVE PipelineInv'
  OBVIOUS
<1>1. /\ UNCHANGED <<control, service, past>>
      /\ \/ /\ et.pc = "reset" /\ et' = [et EXCEPT !.pc = "deactivate"]
            /\ client' = [client EXCEPT !.writer = FALSE]
         \/ /\ et.pc = "deactivate" /\ et' = [et EXCEPT !.pc = "notify"]
            /\ client' = [client EXCEPT !.stream_active = FALSE]
         \/ /\ et.pc = "notify" /\ et' = [et EXCEPT !.pc = "result", !.res = "ERROR"]
            /\ client' = [client EXCEPT !.pc = IF @ = "wait" THEN "test" ELSE @]
  BY DEF ResetWriter, Deactivate, Notify, Notified
<1>2. /\ DOMAIN et' = DOMAIN et /\ et'.ev = et.ev /\ et'.hi = et.hi
      /\ et'.phase = et.phase /\ et'.todo = et.todo /\ et'.cur = et.cur
      /\ DOMAIN client' = DOMAIN client /\ client'.should_stop = client.should_stop
      /\ client'.first_write = client.first_write
  BY <1>1, ZenonT(60) DEF PipelineInv, Records
<1>3. \/ /\ et.pc = "reset" /\ et'.pc = "deactivate" /\ et'.res = et.res
         /\ client'.pc = client.pc /\ client'.stream_active = client.stream_active
      \/ /\ et.pc = "deactivate" /\ et'.pc = "notify" /\ et'.res = et.res
         /\ client'.pc = client.pc /\ client'.writer = client.writer /\ ~client'.stream_active
      \/ /\ et.pc = "notify" /\ et'.pc = "result" /\ et'.res = "ERROR"
         /\ client'.pc = (IF client.pc = "wait" THEN "test" ELSE client.pc)
         /\ client'.stream_active = client.stream_active /\ client'.writer = client.writer
  BY <1>1, ZenonT(60) DEF PipelineInv, Records
<1>4. Records' /\ Types' /\ Bounded(service'.cache)
  <2>1. et'.res \in {et.res, "ERROR"}
    BY <1>3
  <2> QED
    BY <1>1, <1>2, <2>1 DEF PipelineInv, Records, Types
<1>5. Threads'
  BY <1>2, <1>3 DEF PipelineInv, Threads, Stopping
<1>6. Handlers'
  BY <1>1, <1>3, KeepHandlers, SMTT(60) DEF PipelineInv
<1>7. Refreshing'
  <2>1. (et.phase # "existing" => et.todo = {}) /\ (et.pc = "notify" => ~Refreshed)
    BY DEF PipelineInv, Refreshing
  <2>2. et'.pc \in {"notify", "result"} => ~Refreshed'
    BY <1>2, <1>3, <2>1 DEF Refreshed
  <2> QED
    BY <1>2, <1>3, <2>1, <2>2, SMTT(60) DEF Refreshing
<1> QED
  BY <1>4, <1>5, <1>6, <1>7 DEF PipelineInv

-----------------------------------------------------------------------------
(***************************************************************************)
(* The pipeline: stopping.                                                 *)
(***************************************************************************)

LEMMA StopStepKeeps == PipelineInv /\ (LeaveRun \/ StopNotify \/ StopFlag \/ StopJoin) => PipelineInv'
<1> SUFFICES ASSUME PipelineInv, LeaveRun \/ StopNotify \/ StopFlag \/ StopJoin PROVE PipelineInv'
  OBVIOUS
<1> DEFINE n == [client EXCEPT !.pc = IF @ = "wait" THEN "test" ELSE @]
           f == [client EXCEPT !.should_stop = TRUE]
<1>1. /\ UNCHANGED <<control, service, past>>
      /\ \/ et.pc = "poll" /\ et' = [et EXCEPT !.pc = "stop_notify"] /\ client' = client
         \/ et.pc = "stop_notify" /\ et' = [et EXCEPT !.pc = "stop_flag"] /\ client' = n
         \/ et.pc = "stop_flag" /\ et' = [et EXCEPT !.pc = "stop_join"] /\ client' = f
         \/ et.pc = "stop_join" /\ et' = [et EXCEPT !.pc = "stop_cancel"] /\ client' = client
  BY DEF LeaveRun, StopNotify, StopFlag, StopJoin, StopStep, Notified
<1>2. /\ DOMAIN et' = DOMAIN et /\ et'.ev = et.ev /\ et'.hi = et.hi
      /\ et'.phase = et.phase /\ et'.todo = et.todo /\ et'.cur = et.cur /\ et'.res = et.res
      /\ DOMAIN client' = DOMAIN client /\ client'.writer = client.writer
      /\ client'.first_write = client.first_write /\ client'.stream_active = client.stream_active
      /\ client'.pc = client.pc \/ (client.pc = "wait" /\ client'.pc = "test")
  BY <1>1 DEF PipelineInv, Records
<1>3. \/ et.pc = "poll" /\ et'.pc = "stop_notify" /\ client'.should_stop = client.should_stop
      \/ et.pc = "stop_notify" /\ et'.pc = "stop_flag" /\ client'.should_stop = client.should_stop
      \/ et.pc = "stop_flag" /\ et'.pc = "stop_join" /\ client'.should_stop
      \/ et.pc = "stop_join" /\ et'.pc = "stop_cancel" /\ client'.should_stop = client.should_stop
  BY <1>1 DEF PipelineInv, Records
<1>4. Records' /\ Types' /\ Bounded(service'.cache)
  BY <1>1, <1>2, SMTT(60) DEF PipelineInv, Records, Types
<1>5. Threads'
  BY <1>2, <1>3 DEF PipelineInv, Threads, Stopping
<1>6. Handlers'
  BY <1>1, <1>3, KeepHandlers, SMTT(60) DEF PipelineInv
<1>7. Refreshing'
  BY <1>2, <1>3 DEF PipelineInv, Refreshing
<1> QED
  BY <1>4, <1>5, <1>6, <1>7 DEF PipelineInv

LEMMA StopCancelStep == PipelineInv /\ StopCancel => PipelineInv'
<1> SUFFICES ASSUME PipelineInv, StopCancel PROVE PipelineInv'
  OBVIOUS
<1>1. /\ et.pc = "stop_cancel" /\ UNCHANGED <<control, past>>
      /\ \/ /\ et' = [et EXCEPT !.pc = "stopped"]
            /\ client' = [client EXCEPT !.context = FALSE, !.up = FALSE]
            /\ service' = [service EXCEPT !.handlers = << >>]
         \/ et' = [et EXCEPT !.pc = "crashed"] /\ client' = client /\ service' = service
  BY DEF StopCancel
<1>2. /\ DOMAIN et' = DOMAIN et /\ et'.ev = et.ev /\ et'.hi = et.hi
      /\ et'.phase = et.phase /\ et'.todo = et.todo /\ et'.cur = et.cur /\ et'.res = et.res
      /\ DOMAIN client' = DOMAIN client /\ client'.writer = client.writer /\ client'.pc = client.pc
      /\ client'.should_stop = client.should_stop
      /\ client'.first_write = client.first_write /\ client'.stream_active = client.stream_active
  BY <1>1, ZenonT(60) DEF PipelineInv, Records
<1>3. /\ DOMAIN service' = DOMAIN service /\ service'.table = service.table /\ service'.cache = service.cache
      /\ \/ et'.pc = "stopped" /\ service'.handlers = << >>
         \/ et'.pc = "crashed" /\ service'.handlers = service.handlers
  BY <1>1 DEF PipelineInv, Records
<1>4. Records' /\ Types' /\ Bounded(service'.cache)
  BY <1>1, <1>2, <1>3 DEF PipelineInv, Records, Types
<1>5. Threads'
  BY <1>1, <1>2, <1>3 DEF PipelineInv, Threads, Stopping
<1>6. Handlers'
  <2>1. CASE et'.pc = "crashed" /\ service'.handlers = service.handlers
    BY <1>1, <2>1, KeepHandlers DEF PipelineInv
  <2>2. CASE et'.pc = "stopped" /\ service'.handlers = << >>
    <3> DEFINE e == << >>
    <3>1. e \in Seq({"SelfCheckProcess", "SelfCheckNetwork", "Process", "Network"}) /\ 1..Len(e) = {}
      OBVIOUS
    <3>2. service'.handlers = e /\ past' = past
      BY <1>1, <2>2
    <3> HIDE DEF e
    <3> QED
      BY <2>2, <3>1, <3>2 DEF PipelineInv, Handlers, SelfCheckCostsOneEvent
  <2> QED
    BY <1>3, <2>1, <2>2
<1>7. Refreshing'
  BY <1>1, <1>2, <1>3 DEF PipelineInv, Refreshing
<1> QED
  BY <1>4, <1>5, <1>6, <1>7 DEF PipelineInv

-----------------------------------------------------------------------------
(***************************************************************************)
(* The pipeline: the theorems.                                             *)
(***************************************************************************)

LEMMA KernelStep == PipelineInv /\ Kernel => PipelineInv'
<1> SUFFICES ASSUME PipelineInv, Kernel PROVE PipelineInv'
  OBVIOUS
<1>1. ASSUME NEW k \in {"exec", "network"}, NEW p \in Process, GetNext([kind |-> k, proc |-> p])
      PROVE  PipelineInv'
  BY <1>1, GetNextStep
<1>2. CASE GetNext([kind |-> "check", proc |-> SelfCheck])
  BY <1>2, ProcessAssumption, GetNextStep
<1>3. ASSUME NEW p \in Process, GetNextUnheard(p) \/ Exit(p)
      PROVE  PipelineInv'
  BY <1>3, UnheardStep, ExitStep
<1> QED
  BY <1>1, <1>2, <1>3, Zenon DEF Kernel

LEMMA PipelineStep == PipelineInv /\ [PipelineNext]_pipelineVars => PipelineInv'
<1> SUFFICES ASSUME PipelineInv, [PipelineNext]_pipelineVars PROVE PipelineInv'
  OBVIOUS
<1>1. CASE EventThread
  BY <1>1, OfferStep, HandleSignalStep, WriteStep, FailedWriteStep, ResultStep, NextExistingStep,
     StopStepKeeps, StopCancelStep DEF EventThread
<1>2. CASE StreamThread \/ SpuriousWakeup
  BY <1>2, TestStep, OpenStep, ActivateStep DEF StreamThread
<1>3. CASE Kernel
  BY <1>3, KernelStep
<1>4. CASE StreamBreaks \/ ShutdownSignal \/ SelfCheckTimeout
  BY <1>4, BreakStep, SignalStep
<1>5. CASE UNCHANGED pipelineVars
  <2>1. UNCHANGED <<control, et, service, client, past>>
    BY <1>5 DEF pipelineVars
  <2>2. Threads'
    BY <2>1 DEF PipelineInv, Threads
  <2> QED
    BY <2>1, <2>2, StreamKeeps
<1> QED
  BY <1>1, <1>2, <1>3, <1>4, <1>5 DEF PipelineNext

LEMMA PipelineAlways == PipelineSpec => []PipelineInv
  BY InitPipeline, PipelineStep, PTL DEF PipelineSpec

\* Whatever the stream and the two threads do, for any processes and any number of
\* streams: the event thread has a writer when it writes, and the stream thread does
\* not touch it then (SignalServiceClient.cpp:41, :80).
THEOREM WriterIsHandedOver == PipelineSpec => []WriterHandedOver
<1>1. PipelineInv => WriterHandedOver
  BY DEF PipelineInv, Threads, WriterHandedOver, Stopping
<1> QED
  BY <1>1, PipelineAlways, PTL

\* However often the self checks run and time out, each of them keeps one event at
\* most from the handlers after it (Service.cpp:274).
THEOREM SelfChecksCostOneEvent == PipelineSpec => []SelfCheckCostsOneEvent
<1>1. PipelineInv => SelfCheckCostsOneEvent
  BY DEF PipelineInv, Handlers
<1> QED
  BY <1>1, PipelineAlways, PTL

\* For any processes, any limiter and any number of streams that break at any point:
\* once a stream is active and refreshed, between two events, Sensor has been told of
\* every process in the thread table that was there at the refresh or that an exec told
\* of since, and that was not dropped for a reason, and only the first signal of a
\* stream asks for a refresh (Service.cpp:269-273, :305, SignalServiceClient.cpp:68).
THEOREM RefreshIsSound == PipelineSpec => []RefreshSound
<1>1. PipelineInv => PipelineTypeOK
  BY SMTT(60) DEF PipelineInv, Types, Bounded, PipelineTypeOK
<1>2. PipelineInv => TableComplete
  BY DEF PipelineInv, Refreshing, Refreshed, Missing, TableComplete
<1>3. PipelineInv => RefreshNotRequestedTwice
  BY DEF PipelineInv, Refreshing, RefreshNotRequestedTwice
<1>4. PipelineInv => RefreshSound
  BY <1>1, <1>2, <1>3 DEF RefreshSound
<1> QED
  BY <1>4, PipelineAlways, PTL

=============================================================================
