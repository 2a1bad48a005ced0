----------------------------- MODULE RateLimiter ----------------------------
(***************************************************************************)
(* pkg/registry/docs/docs_http_ratelimit.go: the per-client token buckets  *)
(* in front of the docs search endpoint.  A client belongs to one shard,   *)
(* and shards share nothing, so this is one shard.  take runs under the    *)
(* shard's mutex and is one step.                                          *)
(*                                                                         *)
(* Time is counted in ticks of 1/TicksPerSecond of a second, and tokens in *)
(* units: a token is Unit of them, and a bucket gains Refill in a tick.    *)
(***************************************************************************)
EXTENDS Integers, FiniteSets

CONSTANTS
    Clients,        \* the client keys of the shard, unidentifiedClient among them
    PerShard,       \* perShard
    Burst,          \* cfg.Burst
    Unit, Refill,   \* cfg.RPS = Refill * TicksPerSecond / Unit
    TicksPerSecond,
    IdleTTL,        \* cfg.IdleTTL, in ticks
    SweepInterval,  \* cfg.IdleTTL/10, in ticks
    Enforce,        \* cfg.Mode is "enforce"; it is "shadow" otherwise
    MaxTime         \* bound on the clock

\* Validate (Burst and RPS) and newRateLimiter (the rest).
ASSUME LimiterAssumption ==
    /\ PerShard \in Nat \ {0} /\ Burst \in Nat \ {0}
    /\ Unit \in Nat \ {0} /\ Refill \in Nat \ {0} /\ TicksPerSecond \in Nat \ {0}
    /\ IdleTTL \in Nat \ {0} /\ SweepInterval \in Nat
    /\ Enforce \in BOOLEAN /\ MaxTime \in Nat

\* What no code checks: an idle bucket is full before it is dropped.
ASSUME IdleMeansFull == Refill * IdleTTL >= Burst * Unit

VARIABLES
    now,        \* the clock
    clients,    \* s.clients: a function from some clients to their buckets
    lastSweep,  \* s.lastSweep
    answer,     \* what the last request was told
    account,    \* history: what a client got since the limiter last forgot it
                \* for want of room: [spent, from]
    promise     \* history: when a client that was refused was told to come back

vars == <<now, clients, lastSweep, answer, account, promise>>

Capacity == Burst * Unit
NoPromise == -1
NoAnswer == [allowed |-> TRUE, served |-> TRUE, retryAfter |-> 0, logged |-> FALSE]

Init ==
    /\ now = 0
    /\ clients = [c \in {} |-> 0]
    /\ lastSweep = -SweepInterval
    /\ answer = NoAnswer
    /\ account = [c \in Clients |-> [spent |-> 0, from |-> 0]]
    /\ promise = [c \in Clients |-> NoPromise]
-----------------------------------------------------------------------------
(* rate.Limiter of golang.org/x/time.                                      *)

AtMost(x, y) == IF x < y THEN x ELSE y

\* What comes in within so many ticks, and what so many tokens are worth, in units.
Gain(ticks) == Refill * ticks
Worth(n) == n * Unit

\* A bucket that is not drawn from fills up.
TokensAt(b, t) == AtMost(Capacity, b.tokens + Gain(t - b.at))

\* AllowN: a refusal leaves the limiter as it was.
Allowed(b) == TokensAt(b, now) >= Unit
Drawn(b) == [b EXCEPT !.tokens = TokensAt(b, now) - Unit, !.at = now]
-----------------------------------------------------------------------------
(* bucketLocked                                                            *)

NewBucket == [tokens |-> Capacity, at |-> now, lastSeen |-> now, limited |-> FALSE]

\* Mutant: the bucket of a known client keeps its lastSeen.
SeenAtFirst(b) == b
Seen(b) == [b EXCEPT !.lastSeen = now]

Full(kept) == Cardinality(kept) >= PerShard
SweepDue == now - lastSweep >= SweepInterval
Sweeps == Full(DOMAIN clients) /\ SweepDue
Idle(c) == now - clients[c].lastSeen > IdleTTL

\* The clients still known when a sweep has sought room for another.
Swept == IF Sweeps THEN {c \in DOMAIN clients : ~Idle(c)} ELSE DOMAIN clients

\* Mutant: room is only made when a sweep is due.
EvictedOnSweep(kept) ==
    IF Full(kept) /\ SweepDue THEN {kept \ {c} : c \in kept} ELSE {kept}

\* One arbitrary bucket goes when the sweep has made no room.
Evicted(kept) == IF Full(kept) THEN {kept \ {c} : c \in kept} ELSE {kept}
-----------------------------------------------------------------------------
(* take                                                                    *)

CeilDiv(a, b) == (a + b - 1) \div b
OneAtLeast(seconds) == IF seconds > 1 THEN seconds ELSE 1

\* Mutant: the wait is rounded down.
RetryAfterRoundedDown(b) ==
    OneAtLeast((Unit - TokensAt(b, now)) \div (Refill * TicksPerSecond))

\* The whole seconds until the bucket holds a token, and at least one.
RetryAfter(b) ==
    OneAtLeast(CeilDiv(Unit - TokensAt(b, now), Refill * TicksPerSecond))

\* Mutant: an allowed request does not end the episode.
LimitedEver(b) == b.limited \/ ~Allowed(b)
Limited(b) == ~Allowed(b)

\* The client's bucket after its request.
Used(b) ==
    LET limited == Limited(b)
    IN  [IF Allowed(b) THEN Drawn(b) ELSE b EXCEPT !.limited = limited]

\* take for c on bucket b, the shard keeping the other clients of kept, and what
\* wrap makes of its outcome.
Serve(c, b, kept) ==
    LET wait == IF Allowed(b) THEN 0 ELSE RetryAfter(b)
    IN  /\ clients' = [x \in kept \cup {c} |-> IF x = c THEN Used(b) ELSE clients[x]]
        /\ answer' = [allowed |-> Allowed(b), served |-> Allowed(b) \/ ~Enforce,
                      retryAfter |-> wait, logged |-> ~Allowed(b) /\ ~b.limited]
        /\ promise' = [promise EXCEPT ![c] =
                          IF Allowed(b) THEN NoPromise
                          ELSE IF @ = NoPromise THEN now + wait * TicksPerSecond ELSE @]

\* An account c has had a token from.
Charged(c, allowed) ==
    [account[c] EXCEPT !.spent = IF allowed THEN @ + 1 ELSE @]

TakeKnown(c) ==
    /\ c \in DOMAIN clients
    /\ LET b == Seen(clients[c])
       IN  /\ Serve(c, b, DOMAIN clients)
           /\ account' = [account EXCEPT ![c] = Charged(c, Allowed(b))]
    /\ UNCHANGED <<now, lastSweep>>

\* A client that is evicted for want of room starts a new account.
TakeNew(c) ==
    /\ c \notin DOMAIN clients
    /\ lastSweep' = IF Sweeps THEN now ELSE lastSweep
    /\ \E kept \in Evicted(Swept) :
          /\ Serve(c, NewBucket, kept)
          /\ account' = [x \in Clients |->
                IF x = c THEN Charged(c, Allowed(NewBucket))
                ELSE IF x \in Swept \ kept THEN [spent |-> 0, from |-> now]
                ELSE account[x]]
    /\ UNCHANGED now

take(c) == TakeKnown(c) \/ TakeNew(c)

Tick ==
    /\ now < MaxTime
    /\ now' = now + 1
    /\ UNCHANGED <<clients, lastSweep, answer, account, promise>>

Next == Tick \/ \E c \in Clients : take(c)

Spec == Init /\ [][Next]_vars
-----------------------------------------------------------------------------
(* Properties                                                              *)

Bucket == [tokens : 0..Capacity, at : 0..MaxTime, lastSeen : 0..MaxTime, limited : BOOLEAN]

\* The types of the variables; a shard never holds more than perShard buckets,
\* which is what bounds the limiter's memory.
TypeOK ==
    /\ now \in 0..MaxTime
    /\ DOMAIN clients \subseteq Clients
    /\ Cardinality(DOMAIN clients) <= PerShard
    /\ \A c \in DOMAIN clients : clients[c] \in Bucket
    /\ lastSweep \in Int
    /\ answer \in [allowed : BOOLEAN, served : BOOLEAN, retryAfter : Nat, logged : BOOLEAN]
    /\ account \in [Clients -> [spent : Nat, from : 0..MaxTime]]
    /\ promise \in [Clients -> Nat \cup {NoPromise}]

\* A client the limiter has not forgotten for want of room has got Burst tokens and
\* what has come in since, no more: the idle sweep gives nobody a second burst.
BudgetKept ==
    \A c \in Clients :
        Worth(account[c].spent) <= Capacity + Gain(now - account[c].from)

\* Retry-After is honest: a client that was refused and comes back when it was told
\* to, having asked in vain as often as it liked, is allowed.
HonestRetryAfter ==
    [][\A c \in Clients :
          take(c) /\ promise[c] # NoPromise /\ now >= promise[c] => answer'.allowed]_vars

\* A request is logged exactly when it is the first over budget since its client was
\* last allowed, also when the client's bucket has come and gone in between.
LoggedOncePerEpisode ==
    [][\A c \in Clients :
          take(c) => (answer'.logged <=> ~answer'.allowed /\ promise[c] = NoPromise)]_vars
=============================================================================
