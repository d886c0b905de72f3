-------------------------- MODULE RateLimitProofs --------------------------
(***************************************************************************)
(* The limits hold for every rate, burst, number of requests, keys and     *)
(* shards.  The argument is the same for the global bucket and for the     *)
(* bucket of a client: what the bucket still holds, together with what it  *)
(* let through since any of its admissions, is no more than the burst and  *)
(* what the rate has added since (Backed).  For a client there is the      *)
(* eviction besides: a bucket that is swept while nobody uses it has had   *)
(* the time to refill, so a full one in its place gives nothing away       *)
(* (Faded).                                                                *)
(***************************************************************************)
EXTENDS RateLimit, TLAPS

Bucket == [tokens : Int, at : Int]
Entry == [key : Keys, last : Int, bucket : Bucket]

\* What a bucket holds and what it let through since log[i] fit the limit.
Backed(c, bucket, log) ==
    /\ bucket.tokens >= 0
    /\ \A i \in DOMAIN log :
         /\ log[i] <= bucket.at
         /\ (Len(log) - i + 1) * c.rps.den + bucket.tokens
              <= Burst(c) * c.rps.den + (bucket.at - log[i]) * c.rps.num
    /\ Conforms(c, log)

\* By time t the rate alone has made good all that was let through since log[i].
Faded(c, log, t) ==
    /\ \A i \in DOMAIN log :
         /\ log[i] <= t
         /\ (Len(log) - i + 1) * c.rps.den <= (t - log[i]) * c.rps.num
    /\ Conforms(c, log)

Types ==
    /\ now \in Int
    /\ global \in Bucket
    /\ entries \in Seq(Entry)
    /\ table \in [Keys -> 0 .. Len(entries)]
    /\ pc \in [Requests -> {"idle", "allowed", "rejected", "lookup", "create", "touch", "take"}]
    /\ req \in [Requests -> [key : Keys, entry : Nat]]
    /\ janitor \in [pc : {"off", "waiting", "sweeping", "exited"}, due : Int, cutoff : Int, shard : Int]
    /\ passed \in Seq(Int)
    /\ admitted \in [Keys -> Seq(Int)]

\* The buckets' clocks, and the janitor's, are not ahead.
Clocks ==
    /\ global.at <= now
    /\ \A e \in 1 .. Len(entries) : entries[e].bucket.at <= now
    /\ janitor.pc = "sweeping" => janitor.cutoff <= now - TTL

\* The table and the requests refer to entries of their own keys.
Owned ==
    /\ \A k \in Keys : table[k] # None => entries[table[k]].key = k
    /\ \A r \in Requests : pc[r] \in {"touch", "take"} =>
         req[r].entry \in 1 .. Len(entries) /\ entries[req[r].entry].key = req[r].key

\* Unless it was torn, an entry in use is the one in the table.
Single ==
    \A r \in Requests : pc[r] \in {"touch", "take"} /\ req[r].key \notin torn =>
        req[r].entry = table[req[r].key]

GlobalBacked == ~Unlimited(Global) => Backed(Global, global, passed)

ClientsBacked ==
    RefillsWithinTTL /\ ~Unlimited(Client) => \A k \in Keys \ torn :
        IF table[k] = None THEN Faded(Client, admitted[k], now)
        ELSE Backed(Client, entries[table[k]].bucket, admitted[k])

IInv == Types /\ Clocks /\ Owned /\ Single /\ GlobalBacked /\ ClientsBacked

-----------------------------------------------------------------------------
(* The bucket.                                                             *)

LEMMA BurstType ==
    ASSUME NEW c, Settings(c)
    PROVE  Burst(c) \in Int /\ Burst(c) >= 1
<1>1. c.rps.num \in Int /\ c.rps.den \in Nat \ {0} /\ c.burst \in Int
  BY DEF Settings
<1>2. Ceil(c.rps) \in Int
  BY <1>1, SMT DEF Ceil
<1> QED
  BY <1>1, <1>2, SMT DEF Burst

\* The limit in units of a token's fraction: what a full bucket holds.
LEMMA FullType ==
    ASSUME NEW c, Settings(c)
    PROVE  /\ c.rps.num \in Int /\ c.rps.den \in Int /\ c.rps.den >= 1
           /\ Burst(c) * c.rps.den \in Int /\ Burst(c) * c.rps.den >= 1
<1>1. c.rps.num \in Int /\ c.rps.den \in Int /\ c.rps.den >= 1
  BY SMT DEF Settings
<1>2. Burst(c) \in Int /\ Burst(c) >= 1
  BY BurstType
<1>3. \A x, y \in Int : x >= 1 /\ y >= 1 => x * y \in Int /\ x * y >= 1
  BY SMT
<1> QED
  BY <1>1, <1>2, <1>3

LEMMA RefilledType ==
    ASSUME NEW c, Settings(c), NEW bucket \in Bucket, NEW t \in Int
    PROVE  Refilled(c, bucket, t) \in Int
<1>1. bucket.tokens \in Int /\ bucket.at \in Int
  BY DEF Bucket
<1>2. (t - bucket.at) * c.rps.num \in Int
  BY <1>1, FullType, SMT
<1> DEFINE full == Burst(c) * c.rps.den
           gain == (t - bucket.at) * c.rps.num
<1>3. full \in Int /\ gain \in Int
  BY <1>2, FullType
<1>4. Refilled(c, bucket, t) = IF bucket.tokens + gain > full THEN full ELSE bucket.tokens + gain
  BY DEF Refilled
<1> HIDE DEF full, gain
<1> QED
  BY <1>1, <1>3, <1>4, SMT

LEMMA TakenType ==
    ASSUME NEW c, Settings(c), NEW bucket \in Bucket, NEW t \in Int
    PROVE  /\ Taken(c, bucket, t) \in Bucket
           /\ bucket.at <= t => Taken(c, bucket, t).at <= t
<1>1. Refilled(c, bucket, t) \in Int
  BY RefilledType
<1>2. c.rps.den \in Int
  BY FullType
<1>3. CASE Unlimited(c)
  BY <1>3 DEF Taken
<1>4. CASE ~Unlimited(c)
  <2> DEFINE have == Refilled(c, bucket, t)
             left == IF have >= c.rps.den THEN have - c.rps.den ELSE have
  <2>1. left \in Int
    BY <1>1, <1>2, SMT
  <2>2. Taken(c, bucket, t) = [tokens |-> left, at |-> t]
    BY <1>4 DEF Taken
  <2> HIDE DEF left
  <2> QED
    BY <2>1, <2>2, SMT DEF Bucket
<1> QED
  BY <1>3, <1>4

LEMMA NewLimiterType ==
    ASSUME NEW c, Settings(c), NEW t \in Int
    PROVE  NewLimiter(c, t) \in Bucket /\ NewLimiter(c, t).at = t
<1> DEFINE full == Burst(c) * c.rps.den
<1>1. full \in Int /\ NewLimiter(c, t) = [tokens |-> full, at |-> t]
  BY FullType DEF NewLimiter
<1> HIDE DEF full
<1> QED
  BY <1>1 DEF Bucket

\* Two stretches of time one after the other.
LEMMA Stretch ==
    ASSUME NEW num \in Int, NEW s \in Int, NEW t \in Int, NEW u \in Int
    PROVE  /\ (t - s) * num \in Int
           /\ (t - s) * num + (u - t) * num = (u - s) * num
  BY SMT

\* A longer stretch, at a rate that is not negative.
LEMMA Longer ==
    ASSUME NEW num \in Int, num >= 0, NEW x \in Int, NEW y \in Int, x <= y
    PROVE  x * num <= y * num
  BY SMT

\* One admission more.
LEMMA OneMore ==
    ASSUME NEW den \in Int, NEW m \in Int
    PROVE  m * den \in Int /\ (m + 1) * den = m * den + den
  BY SMT

\* The account of one admission: a let through before, x and y added since.
LEMMA Balance ==
    ASSUME NEW a \in Int, NEW x \in Int, NEW y \in Int, NEW b, NEW z, NEW den \in Int,
           NEW tokens \in Int, NEW full \in Int, NEW have \in Int, b = a + den, z = x + y,
           a + tokens <= full + x, have <= tokens + y, have >= den
    PROVE  b + (have - den) <= full + z /\ b <= full + z
  BY SMT

LEMMA Spent ==
    ASSUME NEW a \in Int, NEW x \in Int, NEW y \in Int, NEW z,
           NEW tokens \in Int, NEW full \in Int, NEW have \in Int, x + y = z,
           a + tokens <= full + x, have <= tokens + y
    PROVE  a + have <= full + z
  BY SMT

LEMMA Repaid ==
    ASSUME NEW a \in Int, NEW x \in Int, NEW y \in Int, NEW z, NEW w \in Int,
           NEW tokens \in Int, NEW full \in Int, x + y = z, tokens >= 0,
           a + tokens <= full + x, full <= w, w <= y
    PROVE  a <= z
  BY SMT

\* An admission at t for which the bucket has a token, and t is not before its
\* clock: the whole log still fits.
LEMMA AdmitBacked ==
    ASSUME NEW c, Settings(c), ~Unlimited(c), NEW bucket \in Bucket, NEW t \in Int,
           NEW log \in Seq(Int), bucket.at <= t, Backed(c, bucket, log),
           NEW have \in Int, have >= c.rps.den, have <= Burst(c) * c.rps.den,
           have <= bucket.tokens + (t - bucket.at) * c.rps.num
    PROVE  Backed(c, [tokens |-> have - c.rps.den, at |-> t], Append(log, t))
<1> DEFINE den == c.rps.den
           num == c.rps.num
           full == Burst(c) * c.rps.den
           new == Append(log, t)
<1>1. den \in Int /\ den >= 1 /\ num \in Int /\ full \in Int
  BY FullType
<1>2. bucket.tokens \in Int /\ bucket.at \in Int
  BY DEF Bucket
<1>3. /\ Len(log) \in Nat /\ Len(new) = Len(log) + 1 /\ DOMAIN new = 1 .. Len(log) + 1
      /\ DOMAIN log = 1 .. Len(log) /\ new[Len(log) + 1] = t
      /\ \A i \in 1 .. Len(log) : new[i] = log[i] /\ log[i] \in Int
  OBVIOUS
<1>4. have <= full /\ have >= den /\ have <= bucket.tokens + (t - bucket.at) * num
  OBVIOUS
<1>5. \A i \in 1 .. Len(log) : /\ log[i] <= bucket.at
                               /\ (Len(log) - i + 1) * den + bucket.tokens
                                    <= full + (bucket.at - log[i]) * num
  BY <1>3 DEF Backed
<1>6. \A j \in 1 .. Len(log) : \A i \in 1 .. j : (j - i + 1) * den <= full + (log[j] - log[i]) * num
  BY <1>3, Zenon DEF Backed, Conforms
<1> HIDE DEF den, num, full, new
<1>7. ASSUME NEW i \in 1 .. Len(log) + 1
      PROVE  /\ new[i] <= t
             /\ (Len(log) + 1 - i + 1) * den + (have - den) <= full + (t - new[i]) * num
             /\ (Len(log) + 1 - i + 1) * den <= full + (t - new[i]) * num
  <2>1. CASE i = Len(log) + 1
    <3>1. new[i] = t /\ (t - new[i]) * num = 0
      BY <1>1, <1>3, <2>1, SMT
    <3>2. (Len(log) + 1 - i + 1) * den = den
      BY <1>1, <1>3, <2>1, SMT
    <3> QED
      BY <1>1, <1>4, <3>1, <3>2, SMT
  <2>2. CASE i # Len(log) + 1
    <3>1. i \in 1 .. Len(log) /\ new[i] = log[i] /\ log[i] \in Int
      BY <1>3, <2>2, SMT
    <3> DEFINE m == Len(log) - i + 1
    <3>2. m \in Int /\ Len(log) + 1 - i + 1 = m + 1
      BY <1>3, <3>1, SMT
    <3>3. log[i] <= bucket.at /\ m * den + bucket.tokens <= full + (bucket.at - log[i]) * num
      BY <1>5, <3>1
    <3> HIDE DEF m
    <3>4. m * den \in Int /\ (m + 1) * den = m * den + den
      BY <1>1, <3>2, OneMore
    <3>5. /\ (bucket.at - log[i]) * num \in Int /\ (t - bucket.at) * num \in Int
          /\ (bucket.at - log[i]) * num + (t - bucket.at) * num = (t - log[i]) * num
      BY <1>1, <1>2, <3>1, Stretch, Zenon
    <3> DEFINE a == m * den
               x == (bucket.at - log[i]) * num
               y == (t - bucket.at) * num
               z == (t - log[i]) * num
               b == (m + 1) * den
    <3>6. /\ a \in Int /\ x \in Int /\ y \in Int /\ b = a + den /\ z = x + y
          /\ a + bucket.tokens <= full + x /\ have <= bucket.tokens + y /\ have >= den
      BY <1>4, <3>3, <3>4, <3>5
    <3> HIDE DEF a, x, y, z, b
    <3>7. b + (have - den) <= full + z /\ b <= full + z
      BY <1>1, <1>2, <3>6, Balance, SMTT(60)
    <3>8. new[i] <= t
      BY <1>2, <3>1, <3>3, SMT
    <3> QED
      BY <3>1, <3>2, <3>7, <3>8 DEF b, z
  <2> QED
    BY <2>1, <2>2
<1>8. ASSUME NEW j \in 1 .. Len(log) + 1, NEW i \in 1 .. j
      PROVE  (j - i + 1) * den <= full + (new[j] - new[i]) * num
  <2>1. CASE j = Len(log) + 1
    BY <1>3, <1>7, <2>1
  <2>2. CASE j # Len(log) + 1
    <3>1. j \in 1 .. Len(log) /\ i \in 1 .. Len(log)
      BY <1>3, <2>2, SMT
    <3> QED
      BY <1>3, <1>6, <3>1
  <2> QED
    BY <2>1, <2>2
<1>9. Conforms(c, new)
  BY <1>3, <1>8 DEF Conforms, den, num, full
<1>10. have - den >= 0
  BY <1>1, <1>4, SMT
<1> DEFINE after == [tokens |-> have - den, at |-> t]
<1>11. after.tokens = have - den /\ after.at = t
  OBVIOUS
<1> HIDE DEF after
<1>12. Backed(c, after, new)
  BY <1>3, <1>7, <1>9, <1>10, <1>11 DEF Backed, den, num, full
<1> QED
  BY <1>12 DEF after, new, den

\* A refused admission only moves the bucket's clock.
LEMMA RefuseBacked ==
    ASSUME NEW c, Settings(c), ~Unlimited(c), NEW bucket \in Bucket, NEW t \in Int,
           NEW log \in Seq(Int), bucket.at <= t, Backed(c, bucket, log),
           NEW have \in Int, have >= 0, have <= bucket.tokens + (t - bucket.at) * c.rps.num
    PROVE  Backed(c, [tokens |-> have, at |-> t], log)
<1> DEFINE den == c.rps.den
           num == c.rps.num
           full == Burst(c) * c.rps.den
           after == [tokens |-> have, at |-> t]
<1>1. den \in Int /\ num \in Int /\ full \in Int
  BY FullType
<1>2. bucket.tokens \in Int /\ bucket.at \in Int
  BY DEF Bucket
<1>3. Len(log) \in Nat /\ DOMAIN log = 1 .. Len(log) /\ \A i \in 1 .. Len(log) : log[i] \in Int
  OBVIOUS
<1>4. have <= bucket.tokens + (t - bucket.at) * num
  OBVIOUS
<1>5. \A i \in 1 .. Len(log) : /\ log[i] <= bucket.at
                               /\ (Len(log) - i + 1) * den + bucket.tokens
                                    <= full + (bucket.at - log[i]) * num
  BY <1>3 DEF Backed
<1>6. after.tokens = have /\ after.at = t
  OBVIOUS
<1> HIDE DEF den, num, full, after
<1>7. ASSUME NEW i \in 1 .. Len(log)
      PROVE  log[i] <= t /\ (Len(log) - i + 1) * den + have <= full + (t - log[i]) * num
  <2> DEFINE m == Len(log) - i + 1
             a == m * den
             x == (bucket.at - log[i]) * num
             y == (t - bucket.at) * num
             z == (t - log[i]) * num
  <2>1. log[i] \in Int /\ m \in Int
    BY <1>3, SMT
  <2>2. a \in Int
    BY <1>1, <2>1, OneMore
  <2>3. x \in Int /\ y \in Int /\ x + y = z
    BY <1>1, <1>2, <2>1, Stretch
  <2>4. log[i] <= bucket.at /\ a + bucket.tokens <= full + x /\ have <= bucket.tokens + y
    BY <1>4, <1>5
  <2>5. log[i] <= t
    BY <1>2, <2>1, <2>4, SMT
  <2> HIDE DEF a, x, y, z
  <2>6. a + have <= full + z
    BY <1>1, <1>2, <2>2, <2>3, <2>4, Spent
  <2> QED
    BY <2>5, <2>6 DEF a, z
<1>8. Backed(c, after, log)
  BY <1>3, <1>6, <1>7 DEF Backed, den, num, full
<1> QED
  BY <1>8 DEF after

\* Allow of rate.Limiter, with or without a token: what the bucket has let through
\* still fits.
LEMMA TakenBacked ==
    ASSUME NEW c, Settings(c), ~Unlimited(c), NEW bucket \in Bucket, NEW t \in Int,
           NEW log \in Seq(Int), bucket.at <= t, Backed(c, bucket, log)
    PROVE  Backed(c, Taken(c, bucket, t), IF HasToken(c, bucket, t) THEN Append(log, t) ELSE log)
<1> DEFINE have == Refilled(c, bucket, t)
           full == Burst(c) * c.rps.den
           gain == (t - bucket.at) * c.rps.num
<1>1. bucket.tokens \in Int /\ bucket.at \in Int /\ bucket.tokens >= 0
  BY DEF Bucket, Backed
<1>2. c.rps.num \in Int /\ c.rps.num >= 0 /\ c.rps.den \in Int /\ full \in Int /\ full >= 1
  BY FullType, SMT DEF Unlimited
<1>3. gain \in Int /\ gain >= 0
  <2>1. \A u, v \in Int : u >= 0 /\ v >= 0 => u * v \in Int /\ u * v >= 0
    BY SMT
  <2>2. t - bucket.at \in Int /\ t - bucket.at >= 0
    BY <1>1, SMT
  <2> QED
    BY <1>2, <2>1, <2>2
<1>4. have \in Int /\ have = IF bucket.tokens + gain > full THEN full ELSE bucket.tokens + gain
  BY RefilledType DEF Refilled
<1> HIDE DEF have, full, gain
<1>5. have >= 0 /\ have <= full /\ have <= bucket.tokens + gain
  BY <1>1, <1>2, <1>3, <1>4, SMT
<1>6. HasToken(c, bucket, t) <=> have >= c.rps.den
  BY DEF HasToken, have
<1>7. CASE have >= c.rps.den
  <2>1. Taken(c, bucket, t) = [tokens |-> have - c.rps.den, at |-> t]
    BY <1>7 DEF Taken, have
  <2>2. Backed(c, [tokens |-> have - c.rps.den, at |-> t], Append(log, t))
    BY <1>4, <1>5, <1>7, AdmitBacked DEF full, gain
  <2> QED
    BY <1>6, <1>7, <2>1, <2>2
<1>8. CASE ~(have >= c.rps.den)
  <2>1. Taken(c, bucket, t) = [tokens |-> have, at |-> t]
    BY <1>8 DEF Taken, have
  <2>2. Backed(c, [tokens |-> have, at |-> t], log)
    BY <1>4, <1>5, RefuseBacked DEF gain
  <2> QED
    BY <1>6, <1>8, <2>1, <2>2
<1> QED
  BY <1>7, <1>8

\* A bucket whose clock is a TTL back has refilled.
LEMMA BackedFades ==
    ASSUME NEW c, Settings(c), ~Unlimited(c), NEW bucket \in Bucket, NEW t \in Int,
           NEW log \in Seq(Int), Backed(c, bucket, log), NEW ttl \in Int,
           Burst(c) * c.rps.den <= ttl * c.rps.num, bucket.at <= t - ttl
    PROVE  bucket.at <= t => Faded(c, log, t)
<1> DEFINE den == c.rps.den
           num == c.rps.num
           full == Burst(c) * c.rps.den
<1>1. den \in Int /\ num \in Int /\ num >= 0 /\ full \in Int
  BY FullType, SMT DEF Unlimited
<1>2. bucket.tokens \in Int /\ bucket.at \in Int /\ bucket.tokens >= 0
  BY DEF Bucket, Backed
<1>3. Len(log) \in Nat /\ DOMAIN log = 1 .. Len(log) /\ \A i \in 1 .. Len(log) : log[i] \in Int
  OBVIOUS
<1>4. \A i \in 1 .. Len(log) : /\ log[i] <= bucket.at
                               /\ (Len(log) - i + 1) * den + bucket.tokens
                                    <= full + (bucket.at - log[i]) * num
  BY <1>3 DEF Backed
<1>5. full <= ttl * num
  OBVIOUS
<1> HIDE DEF den, num, full
<1>6. ttl \in Int /\ t - bucket.at \in Int /\ ttl <= t - bucket.at
  BY <1>2, SMT
<1>7. ttl * num <= (t - bucket.at) * num
  BY <1>1, <1>6, Longer, Zenon
<1>8. SUFFICES ASSUME bucket.at <= t, NEW i \in 1 .. Len(log)
               PROVE  log[i] <= t /\ (Len(log) - i + 1) * den <= (t - log[i]) * num
  BY <1>3 DEF Faded, Backed, den, num
<1> DEFINE m == Len(log) - i + 1
           a == m * den
           x == (bucket.at - log[i]) * num
           y == (t - bucket.at) * num
           z == (t - log[i]) * num
           w == ttl * num
<1>9. log[i] \in Int /\ m \in Int
  BY <1>3, SMT
<1>10. a \in Int /\ w \in Int
  BY <1>1, <1>9, OneMore
<1>11. x \in Int /\ y \in Int /\ x + y = z
  BY <1>1, <1>2, <1>9, Stretch, Zenon
<1>12. log[i] <= bucket.at /\ a + bucket.tokens <= full + x /\ full <= w /\ w <= y
  BY <1>4, <1>5, <1>7
<1>13. log[i] <= t
  BY <1>2, <1>8, <1>9, <1>12, SMT
<1> HIDE DEF a, x, y, z, w
<1>14. a <= z
  BY <1>1, <1>2, <1>10, <1>11, <1>12, Repaid
<1> QED
  BY <1>13, <1>14 DEF a, z

LEMMA FadedLater ==
    ASSUME NEW c, Settings(c), ~Unlimited(c), NEW log \in Seq(Int), NEW t \in Int, NEW u \in Int,
           t <= u, Faded(c, log, t)
    PROVE  Faded(c, log, u)
<1>1. c.rps.den \in Int /\ c.rps.num \in Int /\ c.rps.num >= 0
  BY FullType, SMT DEF Unlimited
<1>2. Len(log) \in Nat /\ DOMAIN log = 1 .. Len(log) /\ \A i \in 1 .. Len(log) : log[i] \in Int
  OBVIOUS
<1>3. SUFFICES ASSUME NEW i \in 1 .. Len(log)
               PROVE  /\ log[i] <= u
                      /\ (Len(log) - i + 1) * c.rps.den <= (u - log[i]) * c.rps.num
  BY <1>2 DEF Faded
<1> DEFINE m == Len(log) - i + 1
           a == m * c.rps.den
           x == (t - log[i]) * c.rps.num
           y == (u - log[i]) * c.rps.num
<1>4. log[i] <= t /\ a <= x
  BY <1>2 DEF Faded
<1>5. log[i] \in Int /\ m \in Int /\ t - log[i] \in Int /\ u - log[i] \in Int /\ t - log[i] <= u - log[i]
  BY <1>2, SMT
<1>6. x <= y
  BY <1>1, <1>5, Longer, Zenon
<1>7. a \in Int /\ x \in Int /\ y \in Int
  BY <1>1, <1>5, OneMore, Zenon
<1>8. log[i] <= u
  BY <1>4, <1>5, SMT
<1> HIDE DEF a, x, y
<1>9. a <= y
  BY <1>4, <1>6, <1>7, SMT
<1> QED
  BY <1>8, <1>9 DEF a, y

\* Once all of it is made good, a full bucket may take over.
LEMMA FreshBacked ==
    ASSUME NEW c, Settings(c), ~Unlimited(c), NEW log \in Seq(Int), NEW t \in Int, Faded(c, log, t)
    PROVE  Backed(c, NewLimiter(c, t), log)
<1> DEFINE full == Burst(c) * c.rps.den
<1>1. full \in Int /\ full >= 1 /\ c.rps.den \in Int /\ c.rps.num \in Int
  BY FullType
<1>2. NewLimiter(c, t).tokens = full /\ NewLimiter(c, t).at = t
  BY DEF NewLimiter
<1>3. Len(log) \in Nat /\ DOMAIN log = 1 .. Len(log) /\ \A i \in 1 .. Len(log) : log[i] \in Int
  OBVIOUS
<1>4. full >= 0
  BY <1>1, SMT
<1> HIDE DEF full
<1>5. ASSUME NEW i \in 1 .. Len(log)
      PROVE  /\ log[i] <= t
             /\ (Len(log) - i + 1) * c.rps.den + full <= full + (t - log[i]) * c.rps.num
  <2> DEFINE m == Len(log) - i + 1
             a == m * c.rps.den
             x == (t - log[i]) * c.rps.num
  <2>1. log[i] <= t /\ a <= x
    BY <1>3 DEF Faded
  <2>2. m \in Int /\ t - log[i] \in Int
    BY <1>3, SMT
  <2>3. a \in Int /\ x \in Int
    BY <1>1, <2>2, OneMore
  <2> HIDE DEF a, x
  <2>4. a + full <= full + x
    BY <1>1, <2>1, <2>3, SMT
  <2> QED
    BY <2>1, <2>4 DEF a, x
<1> QED
  BY <1>2, <1>3, <1>4, <1>5 DEF Backed, Faded, full

LEMMA EmptyFaded ==
    ASSUME NEW c, NEW t \in Int
    PROVE  Faded(c, <<>>, t)
  BY DEF Faded, Conforms

-----------------------------------------------------------------------------
(* The steps.                                                              *)

LEMMA Limits == Settings(Global) /\ Settings(Client) /\ TTL \in Int /\ TTL >= 2
  BY RateLimitAssumption, SMT

LEMMA EntryTypes ==
    ASSUME NEW list \in Seq(Entry), NEW e \in 1 .. Len(list)
    PROVE  /\ list[e] \in Entry /\ list[e].bucket \in Bucket
           /\ list[e].bucket.tokens \in Int /\ list[e].bucket.at \in Int
<1>1. list[e] \in Entry
  OBVIOUS
<1>2. list[e].bucket \in Bucket
  BY <1>1 DEF Entry
<1> QED
  BY <1>1, <1>2 DEF Bucket

LEMMA InitIInv == Init => IInv
<1> SUFFICES ASSUME Init PROVE IInv
  OBVIOUS
<1> USE DEF Init
<1>1. now \in Int
  BY Limits, SMT DEF StartTime
<1>2. NewLimiter(Global, now) \in Bucket /\ NewLimiter(Global, now).at = now
  BY <1>1, Limits, NewLimiterType
<1>3. (CHOOSE k \in Keys : TRUE) \in Keys
  BY RateLimitAssumption
<1>4. now + TTL \div 2 \in Int
  BY <1>1, Limits, SMT
<1>5. Types
  <2>1. global \in Bucket
    BY <1>2
  <2>2. entries \in Seq(Entry) /\ Len(entries) = 0
    OBVIOUS
  <2>3. table \in [Keys -> 0 .. Len(entries)]
    BY <2>2, SMT DEF None
  <2>4. req \in [Requests -> [key : Keys, entry : Nat]]
    BY <1>3 DEF None
  <2>5. janitor \in [pc : {"off", "waiting", "sweeping", "exited"}, due : Int, cutoff : Int, shard : Int]
    BY <1>4
  <2>6. admitted \in [Keys -> Seq(Int)] /\ passed \in Seq(Int)
    OBVIOUS
  <2> QED
    BY <1>1, <2>1, <2>2, <2>3, <2>4, <2>5, <2>6 DEF Types
<1>6. Clocks
  BY <1>1, <1>2 DEF Clocks
<1>7. Owned /\ Single
  BY DEF Owned, Single, None
<1>8. GlobalBacked
  <2>1. ~Unlimited(Global) => Backed(Global, NewLimiter(Global, now), <<>>)
    <3>1. <<>> \in Seq(Int) /\ Faded(Global, <<>>, now)
      BY <1>1, EmptyFaded
    <3> QED
      BY <1>1, <3>1, Limits, FreshBacked, Zenon
  <2> QED
    BY <2>1 DEF GlobalBacked
<1>9. ClientsBacked
  BY <1>1, EmptyFaded DEF ClientsBacked, None
<1> QED
  BY <1>5, <1>6, <1>7, <1>8, <1>9 DEF IInv

LEMMA TickKeeps == IInv /\ Tick => IInv'
<1> SUFFICES ASSUME IInv, Tick PROVE IInv'
  OBVIOUS
<1> USE DEF IInv, requests, histories
<1>1. now \in Int /\ now' = now + 1 /\ now' \in Int /\ now <= now'
  BY SMT DEF Types, Tick
<1>2. Types'
  BY <1>1 DEF Types, Tick
<1>3. Clocks'
  <2>1. global.at \in Int /\ janitor.cutoff \in Int
    BY DEF Types, Bucket
  <2>2. \A e \in 1 .. Len(entries) : entries[e].bucket.at \in Int
    BY EntryTypes DEF Types
  <2>3. global.at <= now' /\ \A e \in 1 .. Len(entries) : entries[e].bucket.at <= now'
    BY <1>1, <2>1, <2>2, SMT DEF Clocks
  <2>4. janitor.pc = "sweeping" => janitor.cutoff <= now' - TTL
    BY <1>1, <2>1, Limits, SMT DEF Clocks
  <2> QED
    BY <2>3, <2>4 DEF Clocks, Tick
<1>4. Owned' /\ Single'
  BY DEF Owned, Single, Tick
<1>5. GlobalBacked'
  BY DEF GlobalBacked, Tick
<1>6. ClientsBacked'
  <2> SUFFICES ASSUME RefillsWithinTTL, ~Unlimited(Client), NEW k \in Keys, k \notin torn
               PROVE  IF table[k] = None THEN Faded(Client, admitted[k], now')
                      ELSE Backed(Client, entries[table[k]].bucket, admitted[k])
    BY DEF ClientsBacked, Tick
  <2>1. admitted[k] \in Seq(Int)
    BY DEF Types
  <2>2. CASE table[k] = None
    <3>1. Faded(Client, admitted[k], now)
      BY <2>2 DEF ClientsBacked
    <3> QED
      BY <1>1, <2>1, <2>2, <3>1, Limits, FadedLater, Zenon
  <2>3. CASE table[k] # None
    BY <2>3 DEF ClientsBacked
  <2> QED
    BY <2>2, <2>3
<1> QED
  BY <1>2, <1>3, <1>4, <1>5, <1>6

LEMMA AllowKeeps ==
    ASSUME IInv, NEW r \in Requests, NEW k \in Keys, Allow(r, k)
    PROVE  IInv'
<1> USE DEF IInv, requests, histories
<1>1. now \in Int /\ global \in Bucket /\ passed \in Seq(Int) /\ global.at <= now
  BY DEF Types, Clocks
<1>2. /\ Taken(Global, global, now) \in Bucket /\ Taken(Global, global, now).at <= now
  BY <1>1, Limits, TakenType
<1>3. \/ global' = global /\ passed' = passed
      \/ /\ global' = Taken(Global, global, now)
         /\ passed' = IF HasToken(Global, global, now) THEN Append(passed, now) ELSE passed
  BY DEF Allow
<1>4. /\ now' = now /\ entries' = entries /\ table' = table /\ janitor' = janitor
      /\ admitted' = admitted /\ torn' = torn
      /\ req' = [req EXCEPT ![r] = [key |-> k, entry |-> None]]
  BY DEF Allow
<1>5. \E to \in {"allowed", "rejected", "lookup"} : pc' = [pc EXCEPT ![r] = to]
  BY DEF Allow, Goto
<1>6. Types'
  <2>1. global' \in Bucket
    BY <1>1, <1>2, <1>3
  <2>2. passed' \in Seq(Int)
    BY <1>1, <1>3, SMTT(60)
  <2>3. pc' \in [Requests -> {"idle", "allowed", "rejected", "lookup", "create", "touch", "take"}]
    BY <1>5 DEF Types
  <2>4. req' \in [Requests -> [key : Keys, entry : Nat]]
    BY <1>4 DEF Types, None
  <2> QED
    BY <1>4, <2>1, <2>2, <2>3, <2>4 DEF Types
<1>7. Clocks'
  BY <1>1, <1>2, <1>3, <1>4 DEF Clocks
<1>8. \A q \in Requests : pc'[q] \in {"touch", "take"} => pc'[q] = pc[q] /\ req'[q] = req[q]
  BY <1>4, <1>5 DEF Types
<1>9. Owned' /\ Single'
  BY <1>4, <1>8, SMTT(60) DEF Owned, Single
<1>10. GlobalBacked'
  <2> SUFFICES ASSUME ~Unlimited(Global) PROVE Backed(Global, global', passed')
    BY DEF GlobalBacked
  <2>1. Backed(Global, global, passed)
    BY DEF GlobalBacked
  <2>2. Backed(Global, Taken(Global, global, now),
               IF HasToken(Global, global, now) THEN Append(passed, now) ELSE passed)
    BY <1>1, <2>1, Limits, TakenBacked
  <2> QED
    BY <1>3, <2>1, <2>2, Zenon
<1>11. ClientsBacked'
  BY <1>4 DEF ClientsBacked
<1> QED
  BY <1>6, <1>7, <1>9, <1>10, <1>11

LEMMA LookupKeeps ==
    ASSUME IInv, NEW r \in Requests, Lookup(r)
    PROVE  IInv'
<1> USE DEF IInv, requests, histories
<1> DEFINE e == table[req[r].key]
<1>1. /\ now' = now /\ global' = global /\ entries' = entries /\ table' = table
      /\ janitor' = janitor /\ passed' = passed /\ admitted' = admitted /\ torn' = torn
      /\ req' = [req EXCEPT ![r].entry = e]
      /\ pc' = [pc EXCEPT ![r] = IF e = None THEN "create" ELSE "touch"]
  BY DEF Lookup, Goto
<1>2. req[r] \in [key : Keys, entry : Nat] /\ req[r].key \in Keys /\ e \in 0 .. Len(entries) /\ e \in Nat
  <2>1. req[r].key \in Keys /\ req[r] \in [key : Keys, entry : Nat]
    BY DEF Types
  <2>2. e \in 0 .. Len(entries) /\ Len(entries) \in Nat
    BY <2>1 DEF Types
  <2> QED
    BY <2>1, <2>2, SMT
<1>3. e # None => e \in 1 .. Len(entries)
  BY <1>2, SMT DEF None
<1>4. /\ req'[r].key = req[r].key /\ req'[r].entry = e /\ req'[r] \in [key : Keys, entry : Nat]
      /\ \A q \in Requests : q # r => req'[q] = req[q] /\ pc'[q] = pc[q]
      /\ pc'[r] \in {"touch", "take"} => e # None
  BY <1>1, <1>2, Zenon DEF Types
<1> HIDE DEF e
<1>5. Types'
  <2>1. req' \in [Requests -> [key : Keys, entry : Nat]]
    BY <1>1, <1>2, Zenon DEF Types
  <2>2. pc' \in [Requests -> {"idle", "allowed", "rejected", "lookup", "create", "touch", "take"}]
    BY <1>1 DEF Types
  <2> QED
    BY <1>1, <2>1, <2>2 DEF Types
<1>6. Clocks' /\ GlobalBacked' /\ ClientsBacked'
  BY <1>1 DEF Clocks, GlobalBacked, ClientsBacked
<1>7. Owned'
  <2>1. e # None => entries[e].key = req[r].key
    BY <1>2 DEF Owned, e
  <2> QED
    BY <1>1, <1>3, <1>4, <2>1 DEF Owned
<1>8. Single'
  BY <1>1, <1>4 DEF Single, e
<1> QED
  BY <1>5, <1>6, <1>7, <1>8

LEMMA Amended ==
    ASSUME NEW list \in Seq(Entry), NEW e \in 1 .. Len(list), NEW new \in Entry
    PROVE  LET after == [list EXCEPT ![e] = new]
           IN /\ after \in Seq(Entry) /\ Len(after) = Len(list) /\ after[e] = new
              /\ \A i \in 1 .. Len(list) : i # e => after[i] = list[i]
  OBVIOUS

\* The second look under the write lock: a request whose key has no entry now is
\* the only one of it, and a full bucket may take over from the one swept.
LEMMA CreateKeeps ==
    ASSUME IInv, NEW r \in Requests, Create(r)
    PROVE  IInv'
<1> USE DEF IInv, requests, histories
<1> DEFINE k == req[r].key
           size == Len(entries)
<1>1. /\ now' = now /\ global' = global /\ janitor' = janitor /\ passed' = passed
      /\ admitted' = admitted /\ torn' = torn /\ pc' = [pc EXCEPT ![r] = "touch"]
  BY DEF Create, Goto
<1>2. now \in Int /\ req[r] \in [key : Keys, entry : Nat] /\ k \in Keys
  BY DEF Types
<1>3. entries \in Seq(Entry) /\ size \in Nat
  BY DEF Types
<1>4. table[k] \in 0 .. size
  BY <1>2 DEF Types
<1>5. pc' \in [Requests -> {"idle", "allowed", "rejected", "lookup", "create", "touch", "take"}]
  BY <1>1 DEF Types
<1>6. \A q \in Requests : q # r => pc'[q] = pc[q]
  BY <1>1 DEF Types
<1>7. CASE table[k] # None /\ req' = [req EXCEPT ![r].entry = table[k]] /\ UNCHANGED <<entries, table>>
  <2>1. table[k] \in 1 .. size /\ table[k] \in Nat
    BY <1>3, <1>4, <1>7, SMT DEF None
  <2>2. /\ req'[r].key = k /\ req'[r].entry = table[k] /\ req' \in [Requests -> [key : Keys, entry : Nat]]
        /\ \A q \in Requests : q # r => req'[q] = req[q]
    BY <1>2, <1>7, <2>1, Zenon DEF Types
  <2>3. Types'
    BY <1>1, <1>5, <1>7, <2>2, Zenon DEF Types
  <2>4. Clocks' /\ GlobalBacked' /\ ClientsBacked'
    BY <1>1, <1>7 DEF Clocks, GlobalBacked, ClientsBacked
  <2>5. Owned'
    <3>1. entries[table[k]].key = k
      BY <1>2, <1>7 DEF Owned
    <3> QED
      BY <1>6, <1>7, <2>1, <2>2, <3>1 DEF Owned
  <2>6. Single'
    BY <1>1, <1>6, <1>7, <2>2 DEF Single
  <2> QED
    BY <2>3, <2>4, <2>5, <2>6
<1>8. CASE table[k] = None /\ Insert(r)
  <2> DEFINE new == [key |-> k, last |-> 0, bucket |-> NewLimiter(Client, now)]
  <2>1. NewLimiter(Client, now) \in Bucket /\ NewLimiter(Client, now).at = now
    BY <1>2, Limits, NewLimiterType
  <2>2. new \in Entry /\ new.key = k /\ new.bucket = NewLimiter(Client, now)
    BY <1>2, <2>1 DEF Entry
  <2>3. entries' = Append(entries, new) /\ table' = [table EXCEPT ![k] = size + 1]
    BY <1>8 DEF Insert
  <2>4. req' = [req EXCEPT ![r].entry = size + 1]
    BY <1>8 DEF Insert
  <2> HIDE DEF new
  <2>5. /\ entries' \in Seq(Entry) /\ Len(entries') = size + 1 /\ entries'[size + 1] = new
        /\ \A i \in 1 .. size : entries'[i] = entries[i]
    BY <1>3, <2>2, <2>3
  <2>6. size + 1 \in Nat /\ size + 1 \in 1 .. size + 1 /\ size + 1 # None
    BY <1>3, SMT DEF None
  <2>7. /\ req'[r].key = k /\ req'[r].entry = size + 1 /\ req' \in [Requests -> [key : Keys, entry : Nat]]
        /\ \A q \in Requests : q # r => req'[q] = req[q]
    BY <1>2, <2>4, <2>6, Zenon DEF Types
  <2>8. /\ \A j \in Keys : table[j] \in 0 .. size
        /\ table'[k] = size + 1 /\ \A j \in Keys : j # k => table'[j] = table[j]
    BY <1>2, <2>3 DEF Types
  <2>9. table' \in [Keys -> 0 .. size + 1]
    <3>1. \A j \in 0 .. size : j \in 0 .. size + 1
      BY <1>3, SMT
    <3>2. size + 1 \in 0 .. size + 1
      BY <1>3, SMT
    <3> QED
      BY <2>3, <3>1, <3>2 DEF Types
  <2>10. Types'
    BY <1>1, <1>5, <2>5, <2>7, <2>9 DEF Types
  <2>11. \A i \in 1 .. size + 1 : i # size + 1 => i \in 1 .. size
    BY <1>3, SMT
  <2>12. Clocks'
    <3>1. \A i \in 1 .. size + 1 : entries'[i].bucket.at <= now
      <4>1. new.bucket.at <= now
        BY <1>2, <2>1, <2>2, SMT
      <4> QED
        BY <2>5, <2>11, <4>1 DEF Clocks
    <3> QED
      BY <1>1, <2>5, <3>1 DEF Clocks
  <2>13. \A j \in Keys : j # k /\ table[j] # None => table[j] \in 1 .. size
    BY <1>3, <2>8, SMT DEF None
  <2>14. Owned'
    <3>1. \A j \in Keys : table'[j] # None => entries'[table'[j]].key = j
      BY <2>2, <2>5, <2>8, <2>13 DEF Owned
    <3>2. ASSUME NEW q \in Requests, pc'[q] \in {"touch", "take"}
          PROVE  req'[q].entry \in 1 .. size + 1 /\ entries'[req'[q].entry].key = req'[q].key
      <4>1. CASE q = r
        BY <2>2, <2>5, <2>6, <2>7, <4>1
      <4>2. CASE q # r
        <5>1. req'[q] = req[q] /\ req[q].entry \in 1 .. size /\ entries[req[q].entry].key = req[q].key
          BY <1>6, <2>7, <3>2, <4>2 DEF Owned
        <5>2. req[q].entry \in 1 .. size + 1
          BY <1>3, <5>1, SMT
        <5> QED
          BY <2>5, <5>1, <5>2
      <4> QED
        BY <4>1, <4>2
    <3> QED
      BY <2>5, <3>1, <3>2 DEF Owned
  <2>15. Single'
    <3> SUFFICES ASSUME NEW q \in Requests, pc'[q] \in {"touch", "take"}, req'[q].key \notin torn
                 PROVE  req'[q].entry = table'[req'[q].key]
      BY <1>1 DEF Single
    <3>1. CASE q = r
      BY <2>7, <2>8, <3>1
    <3>2. CASE q # r
      <4>1. req'[q] = req[q] /\ pc[q] \in {"touch", "take"} /\ req[q].entry = table[req[q].key]
        BY <1>6, <2>7, <3>2 DEF Single
      <4>2. req[q].entry \in 1 .. size /\ req[q].key \in Keys
        BY <4>1 DEF Owned, Types
      <4>3. req[q].entry # None
        BY <1>3, <4>2, SMT DEF None
      <4> QED
        BY <1>8, <2>8, <4>1, <4>2, <4>3
    <3> QED
      BY <3>1, <3>2
  <2>16. GlobalBacked'
    BY <1>1 DEF GlobalBacked
  <2>17. ClientsBacked'
    <3> SUFFICES ASSUME RefillsWithinTTL, ~Unlimited(Client), NEW j \in Keys, j \notin torn
                 PROVE  IF table'[j] = None THEN Faded(Client, admitted[j], now)
                        ELSE Backed(Client, entries'[table'[j]].bucket, admitted[j])
      BY <1>1, Zenon DEF ClientsBacked
    <3>1. CASE j = k
      <4>1. Faded(Client, admitted[k], now) /\ admitted[k] \in Seq(Int)
        BY <1>2, <1>8, <3>1 DEF ClientsBacked, Types
      <4>2. Backed(Client, NewLimiter(Client, now), admitted[k])
        BY <1>2, <4>1, Limits, FreshBacked
      <4> QED
        BY <2>2, <2>5, <2>6, <2>8, <3>1, <4>2
    <3>2. CASE j # k
      BY <2>5, <2>8, <2>13, <3>2 DEF ClientsBacked
    <3> QED
      BY <3>1, <3>2
  <2> QED
    BY <2>10, <2>12, <2>14, <2>15, <2>16, <2>17
<1> QED
  BY <1>7, <1>8 DEF Create

LEMMA TouchKeeps ==
    ASSUME IInv, NEW r \in Requests, Touch(r)
    PROVE  IInv'
<1> USE DEF IInv, requests, histories
<1> DEFINE e == req[r].entry
           new == [entries[e] EXCEPT !.last = now]
<1>1. /\ now' = now /\ global' = global /\ janitor' = janitor /\ passed' = passed /\ table' = table
      /\ admitted' = admitted /\ torn' = torn /\ req' = req /\ pc' = [pc EXCEPT ![r] = "take"]
      /\ pc[r] = "touch"
  BY DEF Touch, Goto
<1>2. now \in Int /\ entries \in Seq(Entry) /\ e \in 1 .. Len(entries)
  BY <1>1 DEF Types, Owned
<1>3. entries[e] \in Entry
  BY <1>2, EntryTypes
<1>4. new \in Entry /\ new.key = entries[e].key /\ new.bucket = entries[e].bucket
  BY <1>2, <1>3, Zenon DEF Entry
<1>5. entries' = [entries EXCEPT ![e] = new]
  BY DEF Touch
<1> HIDE DEF new
<1>6. /\ entries' \in Seq(Entry) /\ Len(entries') = Len(entries) /\ entries'[e] = new
      /\ \A i \in 1 .. Len(entries) : i # e => entries'[i] = entries[i]
  BY <1>2, <1>4, <1>5, Amended
<1>7. \A i \in 1 .. Len(entries) : entries'[i].key = entries[i].key /\ entries'[i].bucket = entries[i].bucket
  BY <1>4, <1>6
<1>8. \A k \in Keys : table[k] # None => table[k] \in 1 .. Len(entries)
  BY <1>2, SMT DEF Types, None
<1>9. Types'
  <2>1. pc' \in [Requests -> {"idle", "allowed", "rejected", "lookup", "create", "touch", "take"}]
    BY <1>1 DEF Types
  <2> QED
    BY <1>1, <1>6, <2>1 DEF Types
<1>10. Clocks'
  BY <1>1, <1>6, <1>7 DEF Clocks
<1>11. \A q \in Requests : pc'[q] \in {"touch", "take"} => pc[q] \in {"touch", "take"}
  BY <1>1 DEF Types
<1>12. Owned'
  BY <1>1, <1>6, <1>7, <1>8, <1>11 DEF Owned
<1>13. Single'
  BY <1>1, <1>11 DEF Single
<1>14. GlobalBacked'
  BY <1>1 DEF GlobalBacked
<1>15. ClientsBacked'
  BY <1>1, <1>7, <1>8, Zenon DEF ClientsBacked
<1> QED
  BY <1>9, <1>10, <1>12, <1>13, <1>14, <1>15

\* The token is taken from the entry the request holds, whatever became of the
\* table; the entry is the key's own, and unless it was torn the one in the table.
LEMMA TakeKeeps ==
    ASSUME IInv, NEW r \in Requests, Take(r)
    PROVE  IInv'
<1> USE DEF IInv, requests, histories
<1> DEFINE e == req[r].entry
           k == req[r].key
           old == entries[e].bucket
           ok == HasToken(Client, old, now)
           new == [entries[e] EXCEPT !.bucket = Taken(Client, old, now)]
<1>1. /\ now' = now /\ global' = global /\ janitor' = janitor /\ passed' = passed /\ table' = table
      /\ torn' = torn /\ pc[r] = "take" /\ req' = [req EXCEPT ![r].entry = None]
      /\ pc' = [pc EXCEPT ![r] = IF ok THEN "allowed" ELSE "rejected"]
      /\ admitted' = IF ok THEN [admitted EXCEPT ![k] = Append(@, now)] ELSE admitted
  BY DEF Take, Goto
<1>2. now \in Int /\ entries \in Seq(Entry) /\ e \in 1 .. Len(entries) /\ entries[e].key = k
  BY <1>1 DEF Types, Owned
<1>3. entries[e] \in Entry /\ old \in Bucket /\ old.at <= now
  BY <1>2, EntryTypes DEF Clocks
<1>4. Taken(Client, old, now) \in Bucket /\ Taken(Client, old, now).at <= now
  BY <1>2, <1>3, Limits, TakenType, Zenon
<1>5. new \in Entry /\ new.key = k /\ new.bucket = Taken(Client, old, now)
  BY <1>2, <1>3, <1>4 DEF Entry
<1>6. entries' = [entries EXCEPT ![e] = new]
  BY DEF Take
<1>7. k \in Keys /\ req[r] \in [key : Keys, entry : Nat]
  BY DEF Types
<1> HIDE DEF new, ok
<1>8. /\ entries' \in Seq(Entry) /\ Len(entries') = Len(entries) /\ entries'[e] = new
      /\ \A i \in 1 .. Len(entries) : i # e => entries'[i] = entries[i]
  BY <1>2, <1>5, <1>6, Amended, SMTT(60)
<1>9. \A i \in 1 .. Len(entries) : entries'[i].key = entries[i].key
  BY <1>2, <1>5, <1>8
<1>10. \A j \in Keys : table[j] # None => table[j] \in 1 .. Len(entries)
  BY <1>2, SMT DEF Types, None
<1>11. \A j \in Keys : j # k => admitted'[j] = admitted[j]
  BY <1>1, <1>7 DEF Types
<1>12. admitted[k] \in Seq(Int) /\ admitted'[k] = IF ok THEN Append(admitted[k], now) ELSE admitted[k]
  BY <1>1, <1>7 DEF Types
<1>13. Types'
  <2>1. pc' \in [Requests -> {"idle", "allowed", "rejected", "lookup", "create", "touch", "take"}]
    BY <1>1 DEF Types
  <2>2. req' \in [Requests -> [key : Keys, entry : Nat]]
    BY <1>1, <1>7, Zenon DEF Types, None
  <2>3. admitted' \in [Keys -> Seq(Int)]
    <3>1. Append(admitted[k], now) \in Seq(Int)
      BY <1>2, <1>12
    <3> QED
      BY <1>1, <3>1 DEF Types
  <2> QED
    BY <1>1, <1>8, <2>1, <2>2, <2>3 DEF Types
<1>14. Clocks'
  <2>1. \A i \in 1 .. Len(entries) : entries'[i].bucket.at <= now
    BY <1>4, <1>5, <1>8 DEF Clocks
  <2> QED
    BY <1>1, <1>8, <2>1 DEF Clocks
<1>15. \A q \in Requests : pc'[q] \in {"touch", "take"} =>
         pc[q] \in {"touch", "take"} /\ req'[q] = req[q]
  BY <1>1 DEF Types
<1> HIDE DEF e, k, old
<1>16. table' = table /\ torn' = torn
  BY <1>1
<1>17. Owned' /\ Single'
  BY <1>8, <1>9, <1>10, <1>15, <1>16, SMTT(60) DEF Owned, Single
<1> USE DEF e, k, old
<1>18. GlobalBacked'
  BY <1>1 DEF GlobalBacked
<1>19. ClientsBacked'
  <2> SUFFICES ASSUME RefillsWithinTTL, ~Unlimited(Client), NEW j \in Keys, j \notin torn
               PROVE  IF table[j] = None THEN Faded(Client, admitted'[j], now)
                      ELSE Backed(Client, entries'[table[j]].bucket, admitted'[j])
    BY <1>1 DEF ClientsBacked
  <2>1. CASE j = k
    <3>1. e = table[k] /\ table[k] # None
      <4>1. e = table[k]
        BY <1>1, <2>1 DEF Single
      <4>2. e # None
        BY <1>2, SMT DEF None
      <4> QED
        BY <4>1, <4>2
    <3>2. Backed(Client, old, admitted[k])
      BY <1>7, <2>1, <3>1 DEF ClientsBacked
    <3>3. Backed(Client, Taken(Client, old, now), IF ok THEN Append(admitted[k], now) ELSE admitted[k])
      BY <1>2, <1>3, <1>12, <3>2, Limits, TakenBacked, Zenon DEF ok
    <3> QED
      BY <1>5, <1>8, <1>12, <2>1, <3>1, <3>3, Zenon
  <2>2. CASE j # k
    <3>1. table[j] # None => table[j] # e
      BY <1>2, <2>2 DEF Owned
    <3> QED
      BY <1>8, <1>10, <1>11, <2>2, <3>1, Zenon DEF ClientsBacked
  <2> QED
    BY <2>1, <2>2
<1> QED
  BY <1>13, <1>14, <1>17, <1>18, <1>19

LEMMA SweepBeginsKeeps == IInv /\ SweepBegins => IInv'
<1> SUFFICES ASSUME IInv, SweepBegins PROVE IInv'
  OBVIOUS
<1> USE DEF IInv, requests, histories
<1>1. now \in Int /\ now - TTL \in Int /\ now + TTL \div 2 \in Int /\ now - TTL <= now - TTL
  BY Limits, SMT DEF Types
<1>2. Types'
  <2>1. janitor' \in [pc : {"off", "waiting", "sweeping", "exited"}, due : Int, cutoff : Int, shard : Int]
    BY <1>1 DEF SweepBegins
  <2> QED
    BY <2>1 DEF Types, SweepBegins
<1>3. Clocks'
  <2>1. janitor'.cutoff = now - TTL
    BY DEF SweepBegins
  <2> QED
    BY <1>1, <2>1 DEF Clocks, SweepBegins
<1>4. Owned' /\ Single' /\ GlobalBacked' /\ ClientsBacked'
  BY Zenon DEF Owned, Single, GlobalBacked, ClientsBacked, SweepBegins
<1> QED
  BY <1>2, <1>3, <1>4

\* An entry that is swept while nobody uses it was last taken from before the
\* cutoff, a TTL ago or more: its bucket is full again.
LEMMA SweepShardKeeps == IInv /\ SweepShard => IInv'
<1> SUFFICES ASSUME IInv, SweepShard PROVE IInv'
  OBVIOUS
<1> USE DEF IInv, requests, histories
<1>1. /\ now' = now /\ global' = global /\ entries' = entries /\ pc' = pc /\ req' = req
      /\ passed' = passed /\ admitted' = admitted /\ janitor.pc = "sweeping"
      /\ table' = [k \in Keys |-> IF Idle(k) THEN None ELSE table[k]]
      /\ torn' = torn \cup {k \in Keys : Idle(k) /\ InUse(k)}
  BY DEF SweepShard
<1>2. now \in Int /\ entries \in Seq(Entry) /\ Len(entries) \in Nat /\ janitor.cutoff \in Int
  BY DEF Types
<1>3. \A k \in Keys : table'[k] = IF Idle(k) THEN None ELSE table[k]
  BY <1>1
<1>4. \A k \in Keys : k \notin torn' => k \notin torn /\ (Idle(k) => ~InUse(k))
  BY <1>1
<1>5. Types'
  <2>1. table' \in [Keys -> 0 .. Len(entries)]
    <3>1. None \in 0 .. Len(entries)
      BY <1>2, SMT DEF None
    <3> QED
      BY <1>1, <3>1 DEF Types
  <2>2. janitor' \in [pc : {"off", "waiting", "sweeping", "exited"}, due : Int, cutoff : Int, shard : Int]
    <3>1. janitor.shard + 1 \in Int
      BY SMT DEF Types
    <3> QED
      BY <3>1, Zenon DEF Types, SweepShard
  <2> QED
    BY <1>1, <2>1, <2>2 DEF Types
<1>6. Clocks'
  <2>1. janitor'.cutoff = janitor.cutoff
    BY DEF SweepShard, Types
  <2> QED
    BY <1>1, <2>1 DEF Clocks
<1>7. Owned'
  BY <1>1, <1>3 DEF Owned
<1>8. Single'
  <2> SUFFICES ASSUME NEW q \in Requests, pc[q] \in {"touch", "take"}, req[q].key \notin torn'
               PROVE  req[q].entry = table'[req[q].key]
    BY <1>1 DEF Single
  <2>1. req[q].key \in Keys
    BY DEF Types
  <2>2. req[q].entry = table[req[q].key]
    BY <1>4, <2>1 DEF Single
  <2>3. ~Idle(req[q].key)
    BY <1>4, <2>1, <2>2 DEF InUse
  <2> QED
    BY <1>3, <2>1, <2>2, <2>3
<1>9. GlobalBacked'
  BY <1>1 DEF GlobalBacked
<1>10. ClientsBacked'
  <2> SUFFICES ASSUME RefillsWithinTTL, ~Unlimited(Client), NEW k \in Keys, k \notin torn'
               PROVE  IF table'[k] = None THEN Faded(Client, admitted[k], now)
                      ELSE Backed(Client, entries[table'[k]].bucket, admitted[k])
    BY <1>1 DEF ClientsBacked
  <2>1. k \notin torn
    BY <1>4
  <2>2. CASE Idle(k)
    <3> DEFINE bucket == entries[table[k]].bucket
    <3>1. table[k] # None /\ table[k] \in 1 .. Len(entries)
      <4>1. table[k] # None /\ table[k] \in 0 .. Len(entries)
        BY <2>2 DEF Idle, Types
      <4> QED
        BY <1>2, <4>1, SMT DEF None
    <3>2. Backed(Client, bucket, admitted[k]) /\ admitted[k] \in Seq(Int)
      BY <2>1, <3>1 DEF ClientsBacked, Types
    <3>3. bucket \in Bucket /\ bucket.at \in Int /\ bucket.at <= now
      BY <1>2, <3>1, EntryTypes DEF Clocks
    <3>4. ~(bucket.at >= janitor.cutoff)
      BY <1>4, <2>2 DEF InUse
    <3>5. janitor.cutoff <= now - TTL
      BY <1>1 DEF Clocks
    <3> HIDE DEF bucket
    <3>6. bucket.at <= now - TTL
      BY <1>2, <3>3, <3>4, <3>5, Limits, SMT
    <3>7. Burst(Client) * Client.rps.den <= TTL * Client.rps.num
      BY DEF RefillsWithinTTL
    <3>8. Faded(Client, admitted[k], now)
      BY <1>2, <3>2, <3>3, <3>6, <3>7, Limits, BackedFades
    <3> QED
      BY <1>3, <2>2, <3>8
  <2>3. CASE ~Idle(k)
    BY <1>3, <2>1, <2>3 DEF ClientsBacked
  <2> QED
    BY <2>2, <2>3
<1> QED
  BY <1>5, <1>6, <1>7, <1>8, <1>9, <1>10

LEMMA JanitorExitsKeeps == IInv /\ JanitorExits => IInv'
<1> SUFFICES ASSUME IInv, JanitorExits PROVE IInv'
  OBVIOUS
<1> USE DEF IInv, requests, histories
<1>1. janitor' = [janitor EXCEPT !.pc = "exited"]
  BY DEF JanitorExits
<1>2. Types'
  BY <1>1, Zenon DEF Types, JanitorExits
<1>3. janitor'.pc = "exited"
  BY <1>1 DEF Types
<1>4. Clocks'
  BY <1>3 DEF Clocks, JanitorExits
<1>5. Owned' /\ Single' /\ GlobalBacked' /\ ClientsBacked'
  BY DEF Owned, Single, GlobalBacked, ClientsBacked, JanitorExits
<1> QED
  BY <1>2, <1>4, <1>5

\* Close changes nothing of this; neither does a step that changes nothing.
LEMMA CloseKeeps ==
    ASSUME IInv,
           UNCHANGED <<now, global, entries, table, pc, req, janitor, passed, admitted, torn>>
    PROVE  IInv'
  BY Zenon DEF IInv, Types, Clocks, Owned, Single, GlobalBacked, ClientsBacked

LEMMA NextKeeps == IInv /\ [Next]_vars => IInv'
<1> SUFFICES ASSUME IInv, [Next]_vars PROVE IInv'
  OBVIOUS
<1>1. CASE Tick
  BY <1>1, TickKeeps
<1>2. CASE SweepBegins
  BY <1>2, SweepBeginsKeeps
<1>3. CASE SweepShard
  BY <1>3, SweepShardKeeps
<1>4. CASE JanitorExits
  BY <1>4, JanitorExitsKeeps
<1>5. ASSUME NEW r \in Requests, NEW k \in Keys, Allow(r, k) PROVE IInv'
  BY <1>5, AllowKeeps
<1>6. ASSUME NEW r \in Requests, Lookup(r) \/ Create(r) \/ Touch(r) \/ Take(r) PROVE IInv'
  BY <1>6, LookupKeeps, CreateKeeps, TouchKeeps, TakeKeeps
<1>7. ASSUME NEW c \in Closers, Close(c) \/ CloseReturns(c) PROVE IInv'
  BY <1>7, CloseKeeps DEF Close, CloseReturns, requests, histories
<1>8. CASE UNCHANGED vars
  BY <1>8, CloseKeeps DEF vars, requests, histories
<1> QED
  BY <1>1, <1>2, <1>3, <1>4, <1>5, <1>6, <1>7, <1>8 DEF Next

LEMMA SpecIInv == Spec => []IInv
  BY InitIInv, NextKeeps, PTL DEF Spec

\* For every rate and burst, and however many requests race for it, the global
\* bucket lets through in any stretch of time no more than the burst and what
\* the rate adds (Allow's first check).
THEOREM GlobalLimitTheorem == Spec => []GlobalLimit
<1>1. IInv => GlobalLimit
  BY DEF IInv, GlobalBacked, Backed, GlobalLimit, Conforms
<1> QED
  BY <1>1, SpecIInv, PTL

\* For every number of keys, shards and concurrent requests: a client whose entry
\* was never swept in use stays within its limit in any stretch of time, across
\* concurrent first requests (client's second look under the write lock) and
\* evictions by the janitor, provided an idle bucket refills within the TTL.
THEOREM ClientLimitTheorem == Spec => []ClientLimitUnlessTorn
<1>1. IInv => ClientLimitUnlessTorn
  <2>1. CASE Unlimited(Client)
    BY <2>1 DEF ClientLimitUnlessTorn, Conforms
  <2>2. CASE ~Unlimited(Client)
    BY <2>2 DEF IInv, ClientsBacked, Backed, Faded, ClientLimitUnlessTorn
  <2> QED
    BY <2>1, <2>2
<1> QED
  BY <1>1, SpecIInv, PTL
=============================================================================
