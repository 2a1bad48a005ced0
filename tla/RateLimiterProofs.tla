------------------------- MODULE RateLimiterProofs -------------------------
(***************************************************************************)
(* What holds of RateLimiter for every set of clients, every rate, burst,  *)
(* shard size and TTL such that an idle bucket is full.                    *)
(***************************************************************************)
EXTENDS RateLimiter, FiniteSetTheorems, TLAPS

-----------------------------------------------------------------------------
(* Arithmetic.                                                             *)

\* The rate is positive, so gains are monotone, and additive tick by tick.
LEMMA Gains ==
    /\ \A d \in Nat : Gain(d) \in Nat
    /\ \A d \in Nat : Gain(d + 1) = Gain(d) + Refill
    /\ \A d, e \in Nat : d <= e => Gain(d) <= Gain(e)
    /\ \A d, e \in Nat : Gain(d + e) = Gain(d) + Gain(e)
    /\ Gain(0) = 0
BY LimiterAssumption DEF Gain

\* A bucket holds at least one token, and every token has the same worth.
LEMMA Worths ==
    /\ Capacity \in Nat /\ Unit \in Nat \ {0} /\ Refill \in Nat \ {0}
    /\ Unit <= Capacity
    /\ \A n \in Nat : Worth(n) \in Nat
    /\ \A n \in Nat : Worth(n + 1) = Worth(n) + Unit
    /\ Worth(0) = 0
    /\ Capacity <= Gain(IdleTTL)
BY LimiterAssumption, IdleMeansFull DEF Capacity, Worth, Gain

\* CeilDiv rounds up.
LEMMA RoundsUp ==
    ASSUME NEW a \in Nat, NEW k \in Nat \ {0}
    PROVE  CeilDiv(a, k) \in Nat /\ a <= k * CeilDiv(a, k)
<1> DEFINE q == (a + k - 1) \div k
<1>1. a + k - 1 \in Nat
  OBVIOUS
<1>2. q \in Nat
  BY <1>1
<1>3. a + k - 1 = k * q + ((a + k - 1) % k)
  BY <1>1
<1>4. (a + k - 1) % k \in 0 .. k - 1
  BY <1>1
<1>5. k * q \in Nat
  BY <1>2
<1> HIDE DEF q
<1>6. a <= k * q
  BY <1>3, <1>4, <1>5
<1> QED BY <1>2, <1>6 DEF CeilDiv, q

\* A client that waits as long as Retry-After says gains what was missing.
LEMMA WaitSuffices ==
    ASSUME NEW missing \in Nat
    PROVE  LET seconds == OneAtLeast(CeilDiv(missing, Refill * TicksPerSecond))
           IN  seconds \in Nat /\ missing <= Gain(seconds * TicksPerSecond)
<1> DEFINE k == Refill * TicksPerSecond
           q == CeilDiv(missing, k)
           s == OneAtLeast(q)
<1>1. k \in Nat \ {0} /\ Refill \in Nat \ {0} /\ TicksPerSecond \in Nat \ {0}
  BY LimiterAssumption
<1>2. q \in Nat /\ missing <= k * q
  BY <1>1, RoundsUp
<1>3. s \in Nat /\ q <= s
  BY <1>2 DEF OneAtLeast
<1>4. k * q <= k * s
  <2> HIDE DEF k, q, s
  <2> QED BY <1>1, <1>2, <1>3
<1>5. Gain(s * TicksPerSecond) = k * s
  <2>1. Refill * (s * TicksPerSecond) = (Refill * TicksPerSecond) * s
    <3> HIDE DEF s
    <3> QED BY <1>1, <1>3
  <2> QED BY <2>1 DEF Gain
<1>6. k * q \in Nat /\ k * s \in Nat
  <2> HIDE DEF k, q, s
  <2> QED BY <1>1, <1>2, <1>3
<1>7. missing <= k * s
  <2> HIDE DEF k, q, s
  <2> QED BY <1>2, <1>4, <1>6
<1> QED BY <1>3, <1>5, <1>7
-----------------------------------------------------------------------------
(* Buckets.                                                                *)

\* What a bucket holds: never more than its capacity, more as time goes by but by
\* no more than comes in, and all it can after it has been idle.
LEMMA Holdings ==
    ASSUME NEW b \in Bucket, NEW t \in Nat, NEW u \in Nat, b.at <= t, t <= u
    PROVE  /\ TokensAt(b, t) \in 0 .. Capacity
           /\ TokensAt(b, t) <= TokensAt(b, u)
           /\ TokensAt(b, u) <= TokensAt(b, t) + Gain(u - t)
           /\ TokensAt(b, b.at) = b.tokens
           /\ u - b.at > IdleTTL => TokensAt(b, u) = Capacity
<1>1. b.tokens \in 0 .. Capacity /\ b.at \in Nat /\ IdleTTL \in Nat
  BY LimiterAssumption DEF Bucket
<1> DEFINE d == t - b.at
           e == u - t
<1>2. d \in Nat /\ e \in Nat /\ u - b.at = d + e /\ b.at - b.at = 0
  BY <1>1
<1>3. /\ Gain(d) \in Nat /\ Gain(e) \in Nat
      /\ Gain(d + e) = Gain(d) + Gain(e) /\ Gain(0) = 0
  <2> HIDE DEF d, e
  <2> QED BY <1>2, Gains
<1>4. d + e > IdleTTL => Capacity <= Gain(d + e)
  <2> HIDE DEF d, e
  <2>1. d + e > IdleTTL => Gain(IdleTTL) <= Gain(d + e)
    BY <1>1, <1>2, Gains
  <2>2. Gain(IdleTTL) \in Nat /\ Gain(d + e) \in Nat
    <3>1. d + e \in Nat
      BY <1>2
    <3> QED BY <1>1, <3>1, Gains
  <2> QED BY <2>1, <2>2, Worths
<1>5. /\ TokensAt(b, t) = AtMost(Capacity, b.tokens + Gain(d))
      /\ TokensAt(b, u) = AtMost(Capacity, b.tokens + Gain(d + e))
      /\ TokensAt(b, b.at) = AtMost(Capacity, b.tokens + Gain(0))
  BY <1>2 DEF TokensAt
<1>6. Gain(u - t) = Gain(e)
  OBVIOUS
<1>7. u - b.at > IdleTTL => Capacity <= Gain(d + e)
  BY <1>2, <1>4
<1>8. Capacity \in Nat
  BY Worths
<1> HIDE DEF d, e
<1> QED BY <1>1, <1>3, <1>5, <1>6, <1>7, <1>8 DEF AtMost

\* A bucket is a bucket after its request, and Used spends a token if it is allowed
\* and changes only what it says.
LEMMA UsedBucket ==
    ASSUME NEW b \in Bucket, now \in 0 .. MaxTime, b.at <= now
    PROVE  /\ Used(b) \in Bucket
           /\ Used(b).lastSeen = b.lastSeen
           /\ Used(b).limited <=> ~Allowed(b)
           /\ Used(b).at = IF Allowed(b) THEN now ELSE b.at
           /\ Used(b).tokens = IF Allowed(b) THEN TokensAt(b, now) - Unit ELSE b.tokens
<1>1. TokensAt(b, now) \in 0 .. Capacity
  BY Holdings, LimiterAssumption
<1>2. Allowed(b) => TokensAt(b, now) - Unit \in 0 .. Capacity
  BY <1>1, Worths DEF Allowed
<1> QED BY <1>2 DEF Used, Drawn, Limited, Bucket, Allowed

\* The buckets a request may find or make.
LEMMA FoundOrMade ==
    ASSUME TypeOK
    PROVE  /\ NewBucket \in Bucket
           /\ \A c \in DOMAIN clients :
                 /\ Seen(clients[c]) \in Bucket
                 /\ Seen(clients[c]).tokens = clients[c].tokens
                 /\ Seen(clients[c]).at = clients[c].at
                 /\ Seen(clients[c]).limited = clients[c].limited
                 /\ Seen(clients[c]).lastSeen = now
                 /\ \A t : TokensAt(Seen(clients[c]), t) = TokensAt(clients[c], t)
<1>1. NewBucket \in Bucket
  BY Worths DEF TypeOK, Bucket, NewBucket
<1>2. ASSUME NEW c \in DOMAIN clients
      PROVE  /\ Seen(clients[c]) \in Bucket
             /\ Seen(clients[c]).tokens = clients[c].tokens
             /\ Seen(clients[c]).at = clients[c].at
             /\ Seen(clients[c]).limited = clients[c].limited
             /\ Seen(clients[c]).lastSeen = now
  BY <1>2 DEF TypeOK, Bucket, Seen
<1> QED BY <1>1, <1>2 DEF TokensAt
-----------------------------------------------------------------------------
(* The step of a request, taken apart.                                     *)

\* The buckets that stay as they are when c asks: all others, or those that sweep
\* and eviction have left.
Stays(c) == DOMAIN clients' \ {c}

\* What TakeKnown and TakeNew have in common, with b the bucket found or made.
Taken(c, b) ==
    /\ clients'[c] = Used(b)
    /\ c \in DOMAIN clients'
    /\ Stays(c) \subseteq DOMAIN clients
    /\ \A x \in Stays(c) : clients'[x] = clients[x]
    /\ answer' = [allowed |-> Allowed(b), served |-> Allowed(b) \/ ~Enforce,
                   retryAfter |-> IF Allowed(b) THEN 0 ELSE RetryAfter(b),
                   logged |-> ~Allowed(b) /\ ~b.limited]
    /\ promise' = [promise EXCEPT ![c] =
                      IF Allowed(b) THEN NoPromise
                      ELSE IF @ = NoPromise THEN now + RetryAfter(b) * TicksPerSecond ELSE @]

\* Eviction takes at most one bucket, and makes room where there was none.
LEMMA EvictionMakesRoom ==
    ASSUME IsFiniteSet(DOMAIN clients), Cardinality(DOMAIN clients) <= PerShard,
           NEW kept \in Evicted(Swept)
    PROVE  /\ kept \subseteq Swept /\ Swept \subseteq DOMAIN clients
           /\ IsFiniteSet(kept) /\ Cardinality(kept) < PerShard
<1>1. Swept \subseteq DOMAIN clients
  BY DEF Swept
<1>2. IsFiniteSet(Swept) /\ Cardinality(Swept) <= Cardinality(DOMAIN clients)
  BY <1>1, FS_Subset
<1>3. /\ Cardinality(Swept) \in Nat /\ Cardinality(DOMAIN clients) \in Nat
      /\ PerShard \in Nat \ {0}
  BY <1>2, FS_CardinalityType, LimiterAssumption
<1>4. CASE Full(Swept)
  <2>1. PICK x \in Swept : kept = Swept \ {x}
    BY <1>4 DEF Evicted
  <2>2. IsFiniteSet(kept) /\ Cardinality(kept) = Cardinality(Swept) - 1
    BY <2>1, <1>2, FS_RemoveElement
  <2> QED BY <1>1, <1>2, <1>3, <2>1, <2>2
<1>5. CASE ~Full(Swept)
  BY <1>1, <1>2, <1>3, <1>5 DEF Evicted, Full
<1> QED BY <1>4, <1>5

LEMMA KnownTakes ==
    ASSUME NEW c \in Clients, TakeKnown(c)
    PROVE  /\ c \in DOMAIN clients
           /\ Taken(c, Seen(clients[c]))
           /\ DOMAIN clients' = DOMAIN clients
           /\ account' = [account EXCEPT ![c] = Charged(c, Allowed(Seen(clients[c])))]
           /\ now' = now
<1> DEFINE b == Seen(clients[c])
<1>1. /\ c \in DOMAIN clients /\ now' = now
      /\ Serve(c, b, DOMAIN clients)
      /\ account' = [account EXCEPT ![c] = Charged(c, Allowed(b))]
  BY DEF TakeKnown
<1> HIDE DEF b
<1>2. DOMAIN clients' = DOMAIN clients /\ Taken(c, b)
  BY <1>1 DEF Serve, Taken, Stays
<1> QED BY <1>1, <1>2 DEF b

LEMMA NewTakes ==
    ASSUME NEW c \in Clients, TakeNew(c)
    PROVE  /\ c \notin DOMAIN clients
           /\ Taken(c, NewBucket)
           /\ \E kept \in Evicted(Swept) :
                 /\ DOMAIN clients' = kept \cup {c}
                 /\ account' = [x \in Clients |->
                       IF x = c THEN Charged(c, Allowed(NewBucket))
                       ELSE IF x \in Swept \ kept THEN [spent |-> 0, from |-> now]
                       ELSE account[x]]
           /\ now' = now
<1> DEFINE b == NewBucket
<1>1. PICK kept \in Evicted(Swept) :
          /\ c \notin DOMAIN clients /\ now' = now
          /\ Serve(c, b, kept)
          /\ account' = [x \in Clients |->
                IF x = c THEN Charged(c, Allowed(b))
                ELSE IF x \in Swept \ kept THEN [spent |-> 0, from |-> now]
                ELSE account[x]]
  BY DEF TakeNew
<1>2. kept \subseteq DOMAIN clients
  BY DEF Evicted, Swept
<1> HIDE DEF b
<1>3. DOMAIN clients' = kept \cup {c} /\ Taken(c, b)
  BY <1>1, <1>2 DEF Serve, Taken, Stays
<1> QED BY <1>1, <1>3 DEF b
-----------------------------------------------------------------------------
(* The inductive invariant.                                                *)

\* The shard is finite, and nothing is dated in the future.
Timely ==
    /\ IsFiniteSet(DOMAIN clients)
    /\ \A c \in DOMAIN clients :
          clients[c].at <= clients[c].lastSeen /\ clients[c].lastSeen <= now
    /\ \A c \in Clients : account[c].from <= now

\* A bucket is marked limited as long as its client waits for the time it was told.
LimitedIsPromised ==
    \A c \in DOMAIN clients : clients[c].limited <=> promise[c] # NoPromise

\* If nothing is drawn from it meanwhile, the bucket holds a token at the time its
\* client was told.
PromisesBacked ==
    \A c \in DOMAIN clients :
        promise[c] # NoPromise =>
            clients[c].at <= promise[c] /\ TokensAt(clients[c], promise[c]) >= Unit

\* What a client can draw now: a client without a bucket can draw a burst.
Purse(c) == IF c \in DOMAIN clients THEN TokensAt(clients[c], now) ELSE Capacity

\* What a client has got and can draw are within its account.
Ledger ==
    \A c \in Clients :
        Worth(account[c].spent) + Purse(c) <= Capacity + Gain(now - account[c].from)

IInv == TypeOK /\ Timely /\ LimitedIsPromised /\ PromisesBacked /\ Ledger
-----------------------------------------------------------------------------
(* Requests, with the invariant at hand.                                   *)

\* A request without a bucket gets a full one and is allowed.
LEMMA NewIsAllowed ==
    ASSUME now \in Nat
    PROVE  Allowed(NewBucket) /\ TokensAt(NewBucket, now) = Capacity
<1>1. NewBucket.tokens = Capacity /\ NewBucket.at = now
  BY DEF NewBucket
<1>2. now - now = 0
  OBVIOUS
<1>3. TokensAt(NewBucket, now) = Capacity
  BY <1>1, <1>2, Gains, Worths DEF TokensAt, AtMost
<1> QED BY <1>3, Worths DEF Allowed

\* A refused client is told a time at which its bucket will hold a token.
LEMMA RefusedWaits ==
    ASSUME NEW b \in Bucket, now \in Nat, b.at <= now, ~Allowed(b)
    PROVE  LET told == now + RetryAfter(b) * TicksPerSecond
           IN  /\ RetryAfter(b) \in Nat /\ told \in Nat /\ now <= told
               /\ TokensAt(b, told) >= Unit
<1> DEFINE held == TokensAt(b, now)
           wait == RetryAfter(b)
           d == wait * TicksPerSecond
           told == now + d
<1>1. held \in 0 .. Capacity /\ held < Unit
  <2>1. held \in 0 .. Capacity
    BY Holdings
  <2>2. ~(held >= Unit)
    BY DEF Allowed
  <2> HIDE DEF held
  <2> QED BY <2>1, <2>2, Worths
<1>2. b.at \in Nat /\ b.tokens \in Nat
  BY DEF Bucket
<1>3. Unit - held \in Nat
  BY <1>1, Worths
<1>4. wait \in Nat /\ Unit - held <= Gain(d)
  BY <1>3, WaitSuffices DEF RetryAfter
<1>5. d \in Nat
  <2> HIDE DEF wait
  <2> QED BY <1>4, LimiterAssumption
<1>6. told \in Nat /\ now <= told
  <2> HIDE DEF d
  <2> QED BY <1>5
<1> DEFINE e == now - b.at
<1>7. e \in Nat /\ told - b.at = e + d
  <2> HIDE DEF d
  <2> QED BY <1>2, <1>5
<1>8. held = AtMost(Capacity, b.tokens + Gain(e))
  BY DEF TokensAt
<1>9. TokensAt(b, told) = AtMost(Capacity, b.tokens + Gain(e + d))
  <2> HIDE DEF d, e, told
  <2> QED BY <1>7 DEF TokensAt
<1>10. Gain(e) \in Nat /\ Gain(d) \in Nat /\ Gain(e + d) = Gain(e) + Gain(d)
  <2> HIDE DEF d, e
  <2> QED BY <1>5, <1>7, Gains
<1>11. TokensAt(b, told) >= Unit
  <2> HIDE DEF d, e, told, held
  <2> QED BY <1>1, <1>2, <1>4, <1>8, <1>9, <1>10, Worths DEF AtMost
<1> HIDE DEF held
<1> QED BY <1>4, <1>6, <1>11

\* What each kind of request does, with b its bucket before it is used.
LEMMA Requests ==
    ASSUME TypeOK, Timely, NEW c \in Clients, take(c)
    PROVE  \E b \in Bucket :
              /\ Taken(c, b)
              /\ b.at <= now /\ b.lastSeen = now
              /\ TokensAt(b, now) = Purse(c)
              /\ \/ /\ c \in DOMAIN clients
                    /\ b.limited = clients[c].limited /\ b.at = clients[c].at
                    /\ \A t : TokensAt(b, t) = TokensAt(clients[c], t)
                 \/ Allowed(b)
              /\ account'[c] = Charged(c, Allowed(b))
<1>1. now \in Nat
  BY LimiterAssumption DEF TypeOK
<1>2. CASE TakeKnown(c)
  <2> DEFINE b == Seen(clients[c])
  <2>1. /\ c \in DOMAIN clients /\ Taken(c, b)
        /\ account' = [account EXCEPT ![c] = Charged(c, Allowed(b))]
    BY <1>2, KnownTakes
  <2>2. /\ b \in Bucket /\ b.at = clients[c].at /\ b.limited = clients[c].limited
        /\ b.lastSeen = now /\ \A t : TokensAt(b, t) = TokensAt(clients[c], t)
    BY <2>1, FoundOrMade
  <2>3. clients[c].at <= now
    BY <1>1, <2>1 DEF Timely, TypeOK, Bucket
  <2>4. account'[c] = Charged(c, Allowed(b))
    BY <2>1 DEF TypeOK
  <2> HIDE DEF b
  <2>5. TokensAt(b, now) = Purse(c)
    BY <2>1, <2>2 DEF Purse
  <2> QED BY <2>1, <2>2, <2>3, <2>4, <2>5
<1>3. CASE TakeNew(c)
  <2>1. /\ c \notin DOMAIN clients /\ Taken(c, NewBucket)
        /\ account'[c] = Charged(c, Allowed(NewBucket))
    BY <1>3, NewTakes
  <2>2. NewBucket \in Bucket /\ NewBucket.at = now /\ NewBucket.lastSeen = now
    BY FoundOrMade DEF NewBucket
  <2>3. Allowed(NewBucket) /\ TokensAt(NewBucket, now) = Purse(c)
    BY <1>1, <2>1, NewIsAllowed DEF Purse
  <2>4. NewBucket.at <= now
    BY <1>1, <2>2
  <2> QED BY <2>1, <2>2, <2>3, <2>4
<1> QED BY <1>2, <1>3 DEF take

\* What happens to the accounts and the buckets of the other clients: a bucket that
\* goes is either full, or its client's account starts anew.
LEMMA Others ==
    ASSUME TypeOK, Timely, NEW c \in Clients, take(c), NEW x \in Clients, x # c
    PROVE  \/ account'[x] = account[x] /\ (x \in DOMAIN clients' <=> x \in DOMAIN clients)
           \/ /\ account'[x] = account[x]
              /\ x \in DOMAIN clients /\ x \notin DOMAIN clients'
              /\ now - clients[x].lastSeen > IdleTTL
           \/ x \notin DOMAIN clients' /\ account'[x] = [spent |-> 0, from |-> now]
<1>1. CASE TakeKnown(c)
  BY <1>1, KnownTakes DEF TypeOK
<1>2. CASE TakeNew(c)
  <2>1. PICK kept \in Evicted(Swept) :
           /\ DOMAIN clients' = kept \cup {c}
           /\ account' = [y \in Clients |->
                 IF y = c THEN Charged(c, Allowed(NewBucket))
                 ELSE IF y \in Swept \ kept THEN [spent |-> 0, from |-> now]
                 ELSE account[y]]
    BY <1>2, NewTakes
  <2>2. kept \subseteq Swept /\ Swept \subseteq DOMAIN clients
    BY EvictionMakesRoom DEF TypeOK, Timely
  <2>3. x \in DOMAIN clients \ Swept => now - clients[x].lastSeen > IdleTTL
    BY DEF Swept, Idle
  <2> QED BY <2>1, <2>2, <2>3
<1> QED BY <1>1, <1>2 DEF take
-----------------------------------------------------------------------------
(* Requests keep the invariant.                                            *)

\* The shard stays within its size.
LEMMA RequestKeepsRoom ==
    ASSUME TypeOK, Timely, NEW c \in Clients, take(c)
    PROVE  /\ DOMAIN clients' \subseteq Clients
           /\ IsFiniteSet(DOMAIN clients') /\ Cardinality(DOMAIN clients') <= PerShard
           /\ lastSweep' \in Int /\ now' = now
<1>1. CASE TakeKnown(c)
  <2>1. DOMAIN clients' = DOMAIN clients /\ now' = now
    BY <1>1, KnownTakes
  <2>2. lastSweep' = lastSweep
    BY <1>1 DEF TakeKnown
  <2> QED BY <2>1, <2>2 DEF TypeOK, Timely
<1>2. CASE TakeNew(c)
  <2>1. PICK kept \in Evicted(Swept) : DOMAIN clients' = kept \cup {c}
    BY <1>2, NewTakes
  <2>2. /\ kept \subseteq DOMAIN clients
        /\ IsFiniteSet(kept) /\ Cardinality(kept) < PerShard
    BY EvictionMakesRoom DEF TypeOK, Timely
  <2>3. c \notin kept
    BY <1>2, <2>2, NewTakes
  <2>4. IsFiniteSet(kept \cup {c}) /\ Cardinality(kept \cup {c}) = Cardinality(kept) + 1
    BY <2>2, <2>3, FS_AddElement
  <2>5. Cardinality(kept) \in Nat /\ PerShard \in Nat
    BY <2>2, FS_CardinalityType, LimiterAssumption
  <2>6. lastSweep' \in Int /\ now' = now
    BY <1>2, LimiterAssumption DEF TakeNew, TypeOK
  <2>7. Cardinality(kept \cup {c}) <= PerShard
    BY <2>2, <2>4, <2>5
  <2> QED BY <2>1, <2>2, <2>4, <2>6, <2>7 DEF TypeOK
<1> QED BY <1>1, <1>2 DEF take

LEMMA RequestKeepsTypes ==
    ASSUME TypeOK, Timely, NEW c \in Clients, take(c)
    PROVE  TypeOK' /\ Timely'
<1>1. now \in 0 .. MaxTime /\ now \in Nat /\ MaxTime \in Nat
  BY LimiterAssumption DEF TypeOK
<1>2. PICK b \in Bucket :
         /\ Taken(c, b)
         /\ b.at <= now /\ b.lastSeen = now
         /\ account'[c] = Charged(c, Allowed(b))
  BY Requests
<1>3. Used(b) \in Bucket /\ Used(b).at <= now /\ Used(b).lastSeen = now
  BY <1>1, <1>2, UsedBucket
<1>4. /\ DOMAIN clients' \subseteq Clients
      /\ IsFiniteSet(DOMAIN clients') /\ Cardinality(DOMAIN clients') <= PerShard
      /\ lastSweep' \in Int /\ now' = now
  BY RequestKeepsRoom
<1>5. ASSUME NEW x \in DOMAIN clients'
      PROVE  /\ clients'[x] \in Bucket
             /\ clients'[x].at <= clients'[x].lastSeen /\ clients'[x].lastSeen <= now
  <2>1. CASE x = c
    BY <1>1, <1>2, <1>3, <2>1 DEF Taken
  <2>2. CASE x # c
    BY <1>2, <2>2 DEF Taken, Stays, TypeOK, Timely
  <2> QED BY <2>1, <2>2
<1>6. answer' \in [allowed : BOOLEAN, served : BOOLEAN, retryAfter : Nat, logged : BOOLEAN]
  <2>1. ~Allowed(b) => RetryAfter(b) \in Nat
    BY <1>1, <1>2, RefusedWaits
  <2>2. b.limited \in BOOLEAN /\ Enforce \in BOOLEAN /\ Allowed(b) \in BOOLEAN
    BY LimiterAssumption DEF Bucket, Allowed
  <2> QED BY <1>2, <2>1, <2>2 DEF Taken
<1>7. ASSUME NEW x \in Clients
      PROVE  account'[x] \in [spent : Nat, from : 0 .. MaxTime] /\ account'[x].from <= now
  <2>1. account[x] \in [spent : Nat, from : 0 .. MaxTime] /\ account[x].from <= now
    BY DEF TypeOK, Timely
  <2>2. CASE x = c
    BY <1>2, <2>1, <2>2 DEF Charged
  <2>3. CASE x # c
    BY <1>1, <2>1, <2>3, Others
  <2> QED BY <2>2, <2>3
<1>8. account' \in [Clients -> [spent : Nat, from : 0 .. MaxTime]]
  <2>1. account' = [x \in Clients |-> account'[x]]
    BY KnownTakes, NewTakes DEF take, TypeOK
  <2> QED BY <1>7, <2>1
<1>9. promise' \in [Clients -> Nat \cup {NoPromise}]
  <2>1. ~Allowed(b) => now + RetryAfter(b) * TicksPerSecond \in Nat
    BY <1>1, <1>2, RefusedWaits
  <2> QED BY <1>2, <2>1 DEF Taken, TypeOK
<1> QED BY <1>1, <1>4, <1>5, <1>6, <1>7, <1>8, <1>9 DEF TypeOK, Timely

LEMMA RequestKeepsLimited ==
    ASSUME TypeOK, Timely, LimitedIsPromised, NEW c \in Clients, take(c)
    PROVE  LimitedIsPromised'
<1>1. now \in 0 .. MaxTime /\ now \in Nat
  BY LimiterAssumption DEF TypeOK
<1>2. PICK b \in Bucket : Taken(c, b) /\ b.at <= now
  BY Requests
<1>3. promise'[c] # NoPromise <=> ~Allowed(b)
  <2>1. ~Allowed(b) => now + RetryAfter(b) * TicksPerSecond \in Nat
    BY <1>1, <1>2, RefusedWaits
  <2> QED BY <1>2, <2>1 DEF Taken, TypeOK, NoPromise
<1>4. clients'[c].limited <=> ~Allowed(b)
  BY <1>1, <1>2, UsedBucket DEF Taken
<1>5. ASSUME NEW x \in Stays(c)
      PROVE  clients'[x].limited <=> promise'[x] # NoPromise
  BY <1>2 DEF Taken, Stays, TypeOK, LimitedIsPromised
<1> QED BY <1>3, <1>4, <1>5 DEF LimitedIsPromised, Stays

LEMMA RequestKeepsPromises ==
    ASSUME TypeOK, Timely, PromisesBacked, NEW c \in Clients, take(c)
    PROVE  PromisesBacked'
<1>1. now \in 0 .. MaxTime /\ now \in Nat
  BY LimiterAssumption DEF TypeOK
<1>2. PICK b \in Bucket :
         /\ Taken(c, b)
         /\ b.at <= now
         /\ \/ /\ c \in DOMAIN clients
               /\ b.at = clients[c].at
               /\ \A t : TokensAt(b, t) = TokensAt(clients[c], t)
            \/ Allowed(b)
  BY Requests
<1>3. ASSUME promise'[c] # NoPromise
      PROVE  clients'[c].at <= promise'[c] /\ TokensAt(clients'[c], promise'[c]) >= Unit
  <2>1. ~Allowed(b)
    BY <1>2, <1>3 DEF Taken, TypeOK
  <2>2. clients'[c].at = b.at /\ clients'[c].tokens = b.tokens
    BY <1>1, <1>2, <2>1, UsedBucket DEF Taken
  <2>3. \A t : TokensAt(clients'[c], t) = TokensAt(b, t)
    BY <2>2 DEF TokensAt
  <2> DEFINE told == now + RetryAfter(b) * TicksPerSecond
  <2>4. CASE promise[c] = NoPromise
    <3>1. promise'[c] = told
      BY <1>2, <2>1, <2>4 DEF Taken, TypeOK
    <3>2. told \in Nat /\ now <= told /\ TokensAt(b, told) >= Unit
      BY <1>1, <1>2, <2>1, RefusedWaits
    <3> HIDE DEF told
    <3>3. b.at \in Nat
      BY DEF Bucket
    <3>4. b.at <= told
      BY <1>1, <1>2, <3>2, <3>3
    <3> QED BY <2>2, <2>3, <3>1, <3>2, <3>4
  <2>5. CASE promise[c] # NoPromise
    <3>1. promise'[c] = promise[c]
      BY <1>2, <2>1, <2>5 DEF Taken, TypeOK
    <3>2. b.at <= promise[c] /\ TokensAt(b, promise[c]) >= Unit
      BY <1>2, <2>1, <2>5 DEF PromisesBacked
    <3> QED BY <2>2, <2>3, <3>1, <3>2
  <2> QED BY <2>4, <2>5
<1>4. ASSUME NEW x \in Stays(c), promise'[x] # NoPromise
      PROVE  clients'[x].at <= promise'[x] /\ TokensAt(clients'[x], promise'[x]) >= Unit
  <2>1. x \in DOMAIN clients /\ clients'[x] = clients[x] /\ promise'[x] = promise[x]
    BY <1>2 DEF Taken, Stays, TypeOK
  <2> QED BY <1>4, <2>1 DEF PromisesBacked
<1>5. \A x \in DOMAIN clients' : promise'[x] # NoPromise =>
         clients'[x].at <= promise'[x] /\ TokensAt(clients'[x], promise'[x]) >= Unit
  BY <1>3, <1>4 DEF Stays
<1> QED BY <1>5 DEF PromisesBacked, TokensAt

\* A client that draws a token pays for it; one whose bucket is swept gets back no
\* more than it had, since an idle bucket is full.
LEMMA RequestKeepsLedger ==
    ASSUME TypeOK, Timely, Ledger, NEW c \in Clients, take(c)
    PROVE  Ledger'
<1>1. now \in 0 .. MaxTime /\ now \in Nat /\ now' = now
  BY RequestKeepsRoom, LimiterAssumption DEF TypeOK
<1>2. PICK b \in Bucket :
         /\ Taken(c, b)
         /\ b.at <= now
         /\ TokensAt(b, now) = Purse(c)
         /\ account'[c] = Charged(c, Allowed(b))
  BY Requests
<1> SUFFICES ASSUME NEW x \in Clients
             PROVE  Worth(account'[x].spent) + Purse(x)'
                        <= Capacity + Gain(now - account'[x].from)
  BY <1>1 DEF Ledger, Capacity, Gain, Worth
<1>3. /\ account[x].spent \in Nat /\ account[x].from \in Nat /\ account[x].from <= now
      /\ Worth(account[x].spent) + Purse(x) <= Capacity + Gain(now - account[x].from)
  BY DEF TypeOK, Timely, Ledger
<1>4. Purse(x)' = IF x \in DOMAIN clients' THEN TokensAt(clients'[x], now) ELSE Capacity
  BY <1>1 DEF Purse, TokensAt, Capacity, Gain, AtMost
<1>5. CASE x = c
  <2>1. account'[c].from = account[c].from
    BY <1>2, <1>5 DEF Charged, TypeOK
  <2>2. account'[c].spent = IF Allowed(b) THEN account[c].spent + 1 ELSE account[c].spent
    BY <1>2, <1>5 DEF Charged, TypeOK
  <2>3. Worth(account[c].spent + 1) = Worth(account[c].spent) + Unit
        /\ Worth(account[c].spent) \in Nat
    BY <1>3, <1>5, Worths
  <2>4. Purse(c)' = IF Allowed(b) THEN Purse(c) - Unit ELSE Purse(c)
    <3> DEFINE u == Used(b)
    <3>1. /\ u \in Bucket
          /\ u.at = IF Allowed(b) THEN now ELSE b.at
          /\ u.tokens = IF Allowed(b) THEN TokensAt(b, now) - Unit ELSE b.tokens
      BY <1>1, <1>2, UsedBucket
    <3>2. Purse(c)' = TokensAt(u, now)
      BY <1>2, <1>4, <1>5 DEF Taken
    <3> HIDE DEF u
    <3>3. CASE Allowed(b)
      <4>1. TokensAt(u, u.at) = u.tokens
        BY <1>1, <3>1, <3>3, Holdings
      <4> QED BY <1>2, <3>1, <3>2, <3>3, <4>1
    <3>4. CASE ~Allowed(b)
      BY <1>2, <3>1, <3>2, <3>4 DEF TokensAt
    <3> QED BY <3>3, <3>4
  <2>5. Purse(c) \in Nat
    BY <1>1, <1>2, Holdings
  <2>6. Gain(now - account[c].from) \in Nat
    <3>1. now - account[c].from \in Nat
      BY <1>1, <1>3, <1>5
    <3> QED BY <3>1, Gains
  <2> QED BY <1>3, <1>5, <2>1, <2>2, <2>3, <2>4, <2>5, <2>6, Worths
<1>6. CASE x # c
  <2>1. CASE account'[x] = account[x] /\ (x \in DOMAIN clients' <=> x \in DOMAIN clients)
    <3>1. x \in DOMAIN clients' => clients'[x] = clients[x]
      BY <1>2, <1>6 DEF Taken, Stays
    <3>2. Purse(x)' = Purse(x)
      BY <1>4, <2>1, <3>1 DEF Purse
    <3> QED BY <1>3, <2>1, <3>2
  <2>2. CASE /\ account'[x] = account[x]
             /\ x \in DOMAIN clients /\ x \notin DOMAIN clients'
             /\ now - clients[x].lastSeen > IdleTTL
    <3>1. /\ clients[x] \in Bucket /\ clients[x].at \in Nat /\ clients[x].lastSeen \in Nat
          /\ clients[x].at <= clients[x].lastSeen /\ clients[x].lastSeen <= now
      BY <2>2 DEF TypeOK, Timely, Bucket
    <3>2. now - clients[x].at > IdleTTL /\ clients[x].at <= now
      BY <1>1, <2>2, <3>1, LimiterAssumption
    <3>3. TokensAt(clients[x], now) = Capacity
      BY <1>1, <3>1, <3>2, Holdings
    <3> QED BY <1>3, <1>4, <2>2, <3>3 DEF Purse
  <2>3. CASE x \notin DOMAIN clients' /\ account'[x] = [spent |-> 0, from |-> now]
    <3>1. now - now = 0
      BY <1>1
    <3>2. Worth(0) = 0 /\ Gain(0) = 0 /\ Capacity \in Nat
      BY Worths, Gains
    <3> QED BY <1>4, <2>3, <3>1, <3>2
  <2> QED BY <1>6, <2>1, <2>2, <2>3, Others
<1> QED BY <1>5, <1>6
-----------------------------------------------------------------------------
(* The inductive step, and the theorems.                                   *)

LEMMA TickKeepsInvariant ==
    ASSUME IInv, Tick
    PROVE  IInv'
<1>1. /\ now \in Nat /\ now' = now + 1 /\ now' \in 0 .. MaxTime
      /\ clients' = clients /\ account' = account /\ promise' = promise
      /\ lastSweep' = lastSweep /\ answer' = answer
  BY LimiterAssumption DEF IInv, TypeOK, Tick
<1>2. TypeOK'
  BY <1>1 DEF IInv, TypeOK, Bucket, Capacity
<1>3. Timely'
  <2>1. \A c \in DOMAIN clients : clients[c].lastSeen \in Nat
    BY DEF IInv, TypeOK, Bucket
  <2>2. \A c \in Clients : account[c].from \in Nat
    BY DEF IInv, TypeOK
  <2> QED BY <1>1, <2>1, <2>2 DEF IInv, Timely
<1>4. LimitedIsPromised' /\ PromisesBacked'
  BY <1>1 DEF IInv, LimitedIsPromised, PromisesBacked, TokensAt, AtMost, Gain, Capacity
<1>5. Ledger'
  <2> SUFFICES ASSUME NEW c \in Clients
               PROVE  Worth(account[c].spent) + Purse(c)'
                          <= Capacity + Gain(now' - account[c].from)
    BY <1>1 DEF Ledger, Capacity, Gain, Worth
  <2>1. /\ account[c].spent \in Nat /\ account[c].from \in Nat /\ account[c].from <= now
        /\ Worth(account[c].spent) + Purse(c) <= Capacity + Gain(now - account[c].from)
    BY DEF IInv, TypeOK, Timely, Ledger
  <2> DEFINE d == now - account[c].from
  <2>2. d \in Nat /\ now' - account[c].from = d + 1
    BY <1>1, <2>1
  <2>3. Gain(d) \in Nat /\ Gain(d + 1) = Gain(d) + Refill
    BY <2>2, Gains
  <2>4. Purse(c) \in Nat /\ Purse(c)' \in Nat /\ Purse(c)' <= Purse(c) + Refill
    <3>1. CASE c \in DOMAIN clients
      <4>1. clients[c] \in Bucket /\ clients[c].at <= now
        BY <1>1, <3>1 DEF IInv, TypeOK, Timely, Bucket
      <4>2. Purse(c) = TokensAt(clients[c], now) /\ Purse(c)' = TokensAt(clients[c], now')
        BY <1>1, <3>1 DEF Purse, TokensAt, AtMost, Gain, Capacity
      <4>3. now' \in Nat /\ now <= now' /\ now' - now = 1 /\ clients[c].at <= now'
        BY <1>1, <4>1 DEF Bucket
      <4>4. /\ TokensAt(clients[c], now) \in 0 .. Capacity
            /\ TokensAt(clients[c], now') <= TokensAt(clients[c], now) + Gain(now' - now)
        BY <1>1, <4>1, <4>3, Holdings
      <4>5. TokensAt(clients[c], now') \in 0 .. Capacity
        BY <4>1, <4>3, Holdings
      <4>6. Gain(1) = Refill
        BY LimiterAssumption DEF Gain
      <4> QED BY <4>2, <4>3, <4>4, <4>5, <4>6, Worths
    <3>2. CASE c \notin DOMAIN clients
      BY <1>1, <3>2, Worths DEF Purse, Capacity
    <3> QED BY <3>1, <3>2
  <2>5. Worth(account[c].spent) \in Nat
    BY <2>1, Worths
  <2>6. Gain(now' - account[c].from) = Gain(d) + Refill
    BY <2>2, <2>3
  <2> HIDE DEF d
  <2>7. Worth(account[c].spent) + Purse(c) <= Capacity + Gain(d)
    BY <2>1 DEF d
  <2> QED BY <2>3, <2>4, <2>5, <2>6, <2>7, Worths
<1> QED BY <1>2, <1>3, <1>4, <1>5 DEF IInv

LEMMA Initially == Init => IInv
<1> SUFFICES ASSUME Init PROVE IInv
  OBVIOUS
<1>1. DOMAIN clients = {} /\ IsFiniteSet({}) /\ Cardinality({}) = 0
  BY FS_EmptySet DEF Init
<1>2. TypeOK /\ Timely
  BY <1>1, LimiterAssumption DEF Init, TypeOK, Timely, NoAnswer, NoPromise
<1>3. LimitedIsPromised /\ PromisesBacked
  BY <1>1 DEF LimitedIsPromised, PromisesBacked
<1>4. Ledger
  <2> SUFFICES ASSUME NEW c \in Clients
               PROVE  Worth(account[c].spent) + Purse(c)
                          <= Capacity + Gain(now - account[c].from)
    BY DEF Ledger
  <2>1. account[c].spent = 0 /\ now - account[c].from = 0 /\ Purse(c) = Capacity
    BY <1>1 DEF Init, Purse
  <2>2. Worth(0) = 0 /\ Gain(0) = 0 /\ Capacity \in Nat
    BY Worths, Gains
  <2> QED BY <2>1, <2>2
<1> QED BY <1>2, <1>3, <1>4 DEF IInv

LEMMA InvariantIsInductive == IInv /\ [Next]_vars => IInv'
<1> SUFFICES ASSUME IInv, [Next]_vars PROVE IInv'
  OBVIOUS
<1>1. CASE Tick
  BY <1>1, TickKeepsInvariant
<1>2. ASSUME NEW c \in Clients, take(c)
      PROVE  IInv'
  BY <1>2, RequestKeepsTypes, RequestKeepsLimited, RequestKeepsPromises,
     RequestKeepsLedger DEF IInv
<1>3. CASE UNCHANGED vars
  BY <1>3 DEF vars, IInv, TypeOK, Timely, LimitedIsPromised, PromisesBacked, Ledger,
     Purse, TokensAt, AtMost, Gain, Worth, Capacity, Bucket
<1> QED BY <1>1, <1>2, <1>3 DEF Next

\* The invariant holds of every run of the limiter.
THEOREM Invariant == Spec => []IInv
BY Initially, InvariantIsInductive, PTL DEF Spec

\* A shard has never more than perShard buckets, whoever asks and however often.
THEOREM TypeCorrect == Spec => []TypeOK
<1>1. IInv => TypeOK
  BY DEF IInv
<1> QED BY <1>1, Invariant, PTL

\* No client gets more than a burst and what has come in since the limiter last
\* forgot it for want of room: dropping an idle bucket gives nothing away.
THEOREM BudgetAlwaysKept == Spec => []BudgetKept
<1>1. ASSUME IInv, NEW c \in Clients
      PROVE  Worth(account[c].spent) <= Capacity + Gain(now - account[c].from)
  <2>1. now \in Nat /\ account[c].spent \in Nat /\ account[c].from \in Nat
    BY <1>1, LimiterAssumption DEF IInv, TypeOK
  <2>2. now - account[c].from \in Nat
    BY <1>1, <2>1 DEF IInv, Timely
  <2>3. Worth(account[c].spent) \in Nat /\ Gain(now - account[c].from) \in Nat
    BY <2>1, <2>2, Worths, Gains
  <2>4. Purse(c) \in Nat
    <3>1. c \in DOMAIN clients => clients[c] \in Bucket /\ clients[c].at <= now
      BY <1>1, <2>1 DEF IInv, TypeOK, Timely, Bucket
    <3>2. c \in DOMAIN clients => TokensAt(clients[c], now) \in 0 .. Capacity
      BY <2>1, <3>1, Holdings
    <3> QED BY <3>2, Worths DEF Purse
  <2>5. Worth(account[c].spent) + Purse(c) <= Capacity + Gain(now - account[c].from)
    BY <1>1 DEF IInv, Ledger
  <2> QED BY <2>3, <2>4, <2>5, Worths
<1>2. IInv => BudgetKept
  BY <1>1 DEF BudgetKept
<1> QED BY <1>2, Invariant, PTL

\* A client that waits as long as Retry-After told it when it was first refused is
\* allowed, also if it has asked again, in vain, before the time.
THEOREM RetryAfterIsHonest == Spec => HonestRetryAfter
<1> DEFINE Told == \A c \in Clients :
              take(c) /\ promise[c] # NoPromise /\ now >= promise[c] => answer'.allowed
<1>1. ASSUME IInv, NEW c \in Clients, take(c), promise[c] # NoPromise, now >= promise[c]
      PROVE  answer'.allowed
  <2>1. now \in Nat /\ promise[c] \in Nat /\ TypeOK /\ Timely
    BY <1>1, LimiterAssumption DEF IInv, TypeOK
  <2>2. PICK b \in Bucket :
           /\ Taken(c, b)
           /\ \/ c \in DOMAIN clients /\ \A t : TokensAt(b, t) = TokensAt(clients[c], t)
              \/ Allowed(b)
    BY <1>1, <2>1, Requests
  <2>3. answer'.allowed = Allowed(b)
    BY <2>2 DEF Taken
  <2>4. ASSUME c \in DOMAIN clients, \A t : TokensAt(b, t) = TokensAt(clients[c], t)
        PROVE  Allowed(b)
    <3>1. /\ clients[c] \in Bucket /\ clients[c].at <= promise[c]
          /\ TokensAt(clients[c], promise[c]) >= Unit
      BY <1>1, <2>4 DEF IInv, TypeOK, PromisesBacked
    <3>2. clients[c].at <= now
      BY <1>1, <2>1, <3>1 DEF Bucket
    <3>3. /\ TokensAt(clients[c], promise[c]) <= TokensAt(clients[c], now)
          /\ TokensAt(clients[c], promise[c]) \in 0 .. Capacity
      BY <1>1, <2>1, <3>1, Holdings
    <3>4. TokensAt(clients[c], now) \in 0 .. Capacity
      BY <2>1, <3>1, <3>2, Holdings
    <3> QED BY <2>4, <3>1, <3>3, <3>4, Worths DEF Allowed
  <2> QED BY <2>2, <2>3, <2>4
<1>2. IInv /\ [Next]_vars => [Told]_vars
  BY <1>1
<1> QED BY <1>2, Invariant, PTL DEF Spec, HonestRetryAfter

\* Of the requests of a client that stays over budget exactly the first is logged.
THEOREM EachEpisodeIsLoggedOnce == Spec => LoggedOncePerEpisode
<1> DEFINE Once == \A c \in Clients :
              take(c) => (answer'.logged <=> ~answer'.allowed /\ promise[c] = NoPromise)
<1>1. ASSUME IInv, NEW c \in Clients, take(c)
      PROVE  answer'.logged <=> ~answer'.allowed /\ promise[c] = NoPromise
  <2>1. PICK b \in Bucket :
           /\ Taken(c, b)
           /\ \/ c \in DOMAIN clients /\ b.limited = clients[c].limited
              \/ Allowed(b)
    BY <1>1, Requests DEF IInv
  <2>2. (answer'.allowed <=> Allowed(b)) /\ (answer'.logged <=> ~Allowed(b) /\ ~b.limited)
    BY <2>1 DEF Taken
  <2>3. c \in DOMAIN clients => (clients[c].limited <=> promise[c] # NoPromise)
    BY <1>1 DEF IInv, LimitedIsPromised
  <2> QED BY <2>1, <2>2, <2>3
<1>2. IInv /\ [Next]_vars => [Once]_vars
  BY <1>1
<1> QED BY <1>2, Invariant, PTL DEF Spec, LoggedOncePerEpisode
=============================================================================
