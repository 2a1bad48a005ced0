----------------------------- MODULE OWResolver -----------------------------
(***************************************************************************)
(* pkg/registry/functions/ow_resolver.go: concurrent tool calls obtain an  *)
(* access key for a Functions namespace from a bounded LRU cache, or       *)
(* through a single flight that checks access to the namespace, deletes    *)
(* the "mcp-do-" keys it finds there, creates a new one and caches it.     *)
(* The clock counts hours.                                                 *)
(***************************************************************************)
EXTENDS Naturals, Sequences, FiniteSets, SequencesExt

CONSTANTS
    Calls,          \* the tool calls that may be running at one time
    Users,          \* the bearer tokens (one of them "" in stdio mode)
    Namespaces,
    Requests,       \* the <<user, namespace>> pairs that are asked for
    Authorized,     \* those that GetNamespace accepts
    NoCall,
    KeyTTL,         \* keyTTL
    RefreshBuffer,  \* keyRefreshBuffer
    MaxCacheEntries,\* maxCacheEntries
    MaxFlight,      \* bound: the time a flight may take after creating its key
    MaxTime,        \* bound on the clock
    MaxKeys         \* bound on the keys created

ASSUME ResolverAssumption ==
    /\ Requests \subseteq Users \X Namespaces
    /\ Authorized \subseteq Requests
    /\ NoCall \notin Calls
    /\ KeyTTL \in Nat /\ RefreshBuffer \in Nat /\ RefreshBuffer < KeyTTL
    /\ MaxCacheEntries \in Nat \ {0}
    /\ MaxFlight \in Nat /\ MaxTime \in Nat /\ MaxKeys \in Nat

VARIABLES
    now,        \* the clock
    items,      \* r.items: cache key -> [key, validUntil]
    order,      \* r.order: the cache keys, the most recently used first
    recent,     \* history: the cached keys by last use, the latest first
    created,    \* the number of access keys created so far
    live,       \* the access keys that exist: [id, owner, expires]
    group,      \* r.flight: cache key -> the call that leads, or NoCall
    pc,         \* where each call is
    asks,       \* the <<user, namespace>> of each call
    todo,       \* the keys the call's cleanup has still to delete
    mine,       \* the key the call's flight created, or NoKey
    result      \* the key the call returned, NoKey for an error

cacheVars == <<items, order, recent>>
keyVars == <<created, live>>
callVars == <<pc, asks, todo, mine, result>>
vars == <<now, cacheVars, keyVars, group, callVars>>

\* The code hashes the token and keeps 64 bits of it: here, two users never have
\* the same hash.  Mutant: stdio's key, the namespace alone, for every caller.
cacheKeyIgnoringUser(user, ns) == <<CHOOSE u \in Users : TRUE, ns>>
cacheKey(user, ns) == <<user, ns>>
NoRequest == <<>>
NoKey == [id |-> 0]
CacheKeys == Users \X Namespaces
KeyOf(c) == cacheKey(asks[c][1], asks[c][2])

\* The members of s that are in S, in their order: SelectSeq, written as a
\* recursive function so that the proofs can unfold it.
Keep(s, S) ==
    LET kept[n \in 0 .. Len(s)] ==
            IF n = 0 THEN <<>>
            ELSE IF s[n] \in S THEN Append(kept[n - 1], s[n]) ELSE kept[n - 1]
    IN  kept[Len(s)]

Without(s, k) == Keep(s, CacheKeys \ {k})
ToFront(s, k) == <<k>> \o Without(s, k)
Drop(f, S) == [k \in DOMAIN f \ S |-> f[k]]

Init ==
    /\ now = 0
    /\ items = [k \in {} |-> 0] /\ order = <<>> /\ recent = <<>>
    /\ created = 0 /\ live = {}
    /\ group = [k \in CacheKeys |-> NoCall]
    /\ pc = [c \in Calls |-> "idle"]
    /\ asks = [c \in Calls |-> NoRequest]
    /\ todo = [c \in Calls |-> {}]
    /\ mine = [c \in Calls |-> NoKey]
    /\ result = [c \in Calls |-> NoKey]

goto(c, label) == pc' = [pc EXCEPT ![c] = label]
-----------------------------------------------------------------------------
(* Resolve                                                                 *)

\* A tool call begins, for a user and a namespace.
Request(c, p) ==
    /\ pc[c] = "idle"
    /\ asks' = [asks EXCEPT ![c] = p]
    /\ goto(c, "lookup")
    /\ UNCHANGED <<now, cacheVars, keyVars, group, todo, mine, result>>

Fresh(k) == k \in DOMAIN items /\ now < items[k].validUntil

\* Mutant: a hit does not move the entry to the front.
HitWithoutMove(c) ==
    /\ pc[c] = "lookup"
    /\ Fresh(KeyOf(c))
    /\ result' = [result EXCEPT ![c] = items[KeyOf(c)].key]
    /\ recent' = ToFront(recent, KeyOf(c))
    /\ goto(c, "done")
    /\ UNCHANGED <<now, items, order, keyVars, group, asks, todo, mine>>

\* Under r.mu: a fresh entry is returned, ...
Hit(c) ==
    /\ pc[c] = "lookup"
    /\ Fresh(KeyOf(c))
    /\ result' = [result EXCEPT ![c] = items[KeyOf(c)].key]
    /\ order' = ToFront(order, KeyOf(c))
    /\ recent' = ToFront(recent, KeyOf(c))
    /\ goto(c, "done")
    /\ UNCHANGED <<now, items, keyVars, group, asks, todo, mine>>

\* ... an expired one is removed, and r.mu is released before the flight.
Miss(c) ==
    /\ pc[c] = "lookup"
    /\ ~Fresh(KeyOf(c))
    /\ items' = Drop(items, {KeyOf(c)})
    /\ order' = Without(order, KeyOf(c))
    /\ recent' = Without(recent, KeyOf(c))
    /\ goto(c, "missed")
    /\ UNCHANGED <<now, keyVars, group, asks, todo, mine, result>>

\* flight.Do: the first call leads, the others wait for its result.  The cache
\* is not looked at again.
Lead(c) ==
    /\ pc[c] = "missed"
    /\ group[KeyOf(c)] = NoCall
    /\ group' = [group EXCEPT ![KeyOf(c)] = c]
    /\ goto(c, "getNamespace")
    /\ UNCHANGED <<now, cacheVars, keyVars, asks, todo, mine, result>>

Join(c) ==
    /\ pc[c] = "missed"
    /\ group[KeyOf(c)] # NoCall
    /\ goto(c, "waiting")
    /\ UNCHANGED <<now, cacheVars, keyVars, group, asks, todo, mine, result>>

\* Mutant: only the leader gets the result.
FinishAlone(c) ==
    /\ pc[c] = "finish"
    /\ goto(c, "done")
    /\ result' = [result EXCEPT ![c] = mine[c]]
    /\ group' = [group EXCEPT ![KeyOf(c)] = NoCall]
    /\ UNCHANGED <<now, cacheVars, keyVars, asks, todo, mine>>

\* The flight's function returned: everyone who waits gets its result.
Finish(c) ==
    /\ pc[c] = "finish"
    /\ LET waiters == {d \in Calls : pc[d] = "waiting" /\ KeyOf(d) = KeyOf(c)}
           shares == {c} \cup waiters
       IN  /\ pc' = [d \in Calls |-> IF d \in shares THEN "done" ELSE pc[d]]
           /\ result' = [d \in Calls |-> IF d \in shares THEN mine[c] ELSE result[d]]
    /\ group' = [group EXCEPT ![KeyOf(c)] = NoCall]
    /\ UNCHANGED <<now, cacheVars, keyVars, asks, todo, mine>>

Return(c) ==
    /\ pc[c] = "done"
    /\ goto(c, "idle")
    /\ asks' = [asks EXCEPT ![c] = NoRequest]
    /\ mine' = [mine EXCEPT ![c] = NoKey]
    /\ result' = [result EXCEPT ![c] = NoKey]
    /\ UNCHANGED <<now, cacheVars, keyVars, group, todo>>
-----------------------------------------------------------------------------
(* resolveAndCache, run by the leading call with its own context.          *)

InFlight == {"getNamespace", "list", "delete", "create", "put", "finish"}

\* No client, no access, no api_host, or the leader's context is cancelled.
GetNamespaceFails(c) ==
    /\ pc[c] = "getNamespace"
    /\ goto(c, "finish")
    /\ UNCHANGED <<now, cacheVars, keyVars, group, asks, todo, mine, result>>

GetNamespace(c) ==
    /\ pc[c] = "getNamespace"
    /\ asks[c] \in Authorized
    /\ goto(c, "list")
    /\ UNCHANGED <<now, cacheVars, keyVars, group, asks, todo, mine, result>>

Existing(ns) == {key \in live : key.owner[2] = ns}

\* cleanupOrphanedKeys: a listing that fails ends it, a deletion that fails
\* does not.
ListKeys(c) ==
    /\ pc[c] = "list"
    /\ \E found \in {{}, Existing(asks[c][2])} :
          /\ todo' = [todo EXCEPT ![c] = found]
          /\ goto(c, IF found = {} THEN "create" ELSE "delete")
    /\ UNCHANGED <<now, cacheVars, keyVars, group, asks, mine, result>>

DeleteKey(c) ==
    /\ pc[c] = "delete"
    /\ \E key \in todo[c] :
          /\ live' \in {live, live \ {key}}
          /\ todo' = [todo EXCEPT ![c] = @ \ {key}]
          /\ goto(c, IF todo[c] = {key} THEN "create" ELSE "delete")
    /\ UNCHANGED <<now, cacheVars, created, group, asks, mine, result>>

CreateKeyFails(c) ==
    /\ pc[c] = "create"
    /\ goto(c, "finish")
    /\ UNCHANGED <<now, cacheVars, keyVars, group, asks, todo, mine, result>>

CreateKey(c) ==
    /\ pc[c] = "create"
    /\ created < MaxKeys
    /\ created' = created + 1
    /\ LET key == [id |-> created + 1, owner |-> asks[c], expires |-> now + KeyTTL]
       IN  live' = live \cup {key} /\ mine' = [mine EXCEPT ![c] = key]
    /\ goto(c, "put")
    /\ UNCHANGED <<now, cacheVars, group, asks, todo, result>>

\* Mutants: one entry too many is kept; the list is cut at its other end.
RoomOneMore(s) == SubSeq(s, 1, Min({Len(s), MaxCacheEntries}))
RoomFromBack(s) == SubSeq(s, Len(s) - Min({Len(s), MaxCacheEntries - 1}) + 1, Len(s))

\* putLocked: the old entry goes, then every expired one, then the coldest
\* until there is room; sweepExpiredLocked keeps what expires this instant.
Unexpired == {k \in DOMAIN items : now <= items[k].validUntil}
AfterSweep(k) == Keep(order, Unexpired \ {k})
Room(s) == SubSeq(s, 1, Min({Len(s), MaxCacheEntries - 1}))

\* Mutant: the entry lives as long as its key.
ValidUntilExpiry == now + KeyTTL
ValidUntil == now + KeyTTL - RefreshBuffer

PutCache(c) ==
    /\ pc[c] = "put"
    /\ LET k == KeyOf(c)
           kept == Room(AfterSweep(k))
           gone == ToSet(order) \ ToSet(kept)
           entry == [key |-> mine[c], validUntil |-> ValidUntil]
       IN  /\ order' = <<k>> \o kept
           /\ items' = [x \in (DOMAIN items \ gone) \cup {k} |->
                          IF x = k THEN entry ELSE items[x]]
           /\ recent' = Keep(ToFront(recent, k), DOMAIN items')
    /\ goto(c, "finish")
    /\ UNCHANGED <<now, keyVars, group, asks, todo, mine, result>>

\* An hour passes, and keys expire; no flight takes longer than MaxFlight from
\* its key to its end.
Tick ==
    /\ now < MaxTime
    /\ \A c \in Calls : pc[c] \in {"put", "finish"} /\ mine[c] # NoKey =>
                         now + KeyTTL < mine[c].expires + MaxFlight
    /\ now' = now + 1
    /\ live' = {key \in live : now' < key.expires}
    /\ UNCHANGED <<cacheVars, created, group, callVars>>

resolveAndCache(c) ==
    \/ GetNamespaceFails(c) \/ GetNamespace(c) \/ ListKeys(c) \/ DeleteKey(c)
    \/ CreateKeyFails(c) \/ CreateKey(c) \/ PutCache(c)

Resolve(c) ==
    \/ Hit(c) \/ Miss(c) \/ Lead(c) \/ Join(c) \/ resolveAndCache(c) \/ Finish(c)

Next ==
    \/ Tick
    \/ \E c \in Calls :
          \/ \E p \in Requests : Request(c, p)
          \/ Resolve(c)
          \/ Return(c)

Spec == Init /\ [][Next]_vars
-----------------------------------------------------------------------------
Stages == InFlight \cup {"idle", "lookup", "missed", "waiting", "done"}

AccessKeys == [id : 1 .. created, owner : CacheKeys, expires : 0 .. MaxTime + KeyTTL]

TypeOK ==
    /\ now \in 0 .. MaxTime
    /\ DOMAIN items \subseteq CacheKeys
    /\ \A k \in DOMAIN items :
          items[k] \in [key : AccessKeys, validUntil : 0 .. MaxTime + KeyTTL]
    /\ order \in Seq(CacheKeys) /\ Len(order) <= MaxCacheEntries
    /\ recent \in Seq(CacheKeys)
    /\ created \in 0 .. MaxKeys
    /\ live \subseteq AccessKeys
    /\ group \in [CacheKeys -> Calls \cup {NoCall}]
    /\ pc \in [Calls -> Stages]
    /\ asks \in [Calls -> CacheKeys \cup {NoRequest}]
    /\ todo \in [Calls -> SUBSET AccessKeys]
    /\ mine \in [Calls -> AccessKeys \cup {NoKey}]
    /\ result \in [Calls -> AccessKeys \cup {NoKey}]

\* The map and the list hold the same entries, each once, and the list is in
\* the order of last use: what is evicted is what was used least recently.
OrderIsRecency == order = recent /\ ToSet(order) = DOMAIN items

\* "Called at most once per cache key at any given time thanks to singleflight."
AtMostOneFlight ==
    \A c, d \in Calls :
        pc[c] \in InFlight /\ pc[d] \in InFlight /\ KeyOf(c) = KeyOf(d) => c = d

\* A caller only ever gets a key that was created under its own authorization.
OwnKeysOnly ==
    \A c \in Calls :
        pc[c] = "done" /\ result[c] # NoKey =>
            result[c].owner = asks[c] /\ asks[c] \in Authorized

\* "so we never hand out a key that expires mid-request": what is left of a key
\* when it is handed out is RefreshBuffer, less the time its flight took.
HandsOut(c) == pc[c] # "done" /\ pc'[c] = "done" /\ result'[c] # NoKey
FreshWhenHandedOut ==
    [][\A c \in Calls :
          HandsOut(c) => now + RefreshBuffer < result'[c].expires + MaxFlight]_vars

\* An entry that could still be served leaves the cache only as the coldest of
\* a full cache; expiry, the sweep and a replacement take none.
OnlyColdEvicted ==
    [][\A k \in DOMAIN items \ DOMAIN items' :
          Fresh(k) => Len(order) = MaxCacheEntries /\ order[Len(order)] = k]_vars

\* Nobody waits for a flight that is over: a call that joined still has a leader
\* at work on its key, whose end, in success or failure, will release it.
NoLostWaiter ==
    \A c \in Calls :
        pc[c] = "waiting" =>
            /\ group[KeyOf(c)] # NoCall
            /\ pc[group[KeyOf(c)]] \in InFlight
            /\ KeyOf(group[KeyOf(c)]) = KeyOf(c)

\* Resolve as LoadingCache sees it: the entries that count are the fresh ones, and
\* the call that leads a flight waits for it like the others.
Leads(k) == group[k] # NoCall
Over(k) == Leads(k) /\ pc[group[k]] = "finish"
freshEntries == [k \in {x \in DOMAIN items : Fresh(x)} |-> items[k].key]
flights == {k \in CacheKeys : Leads(k) /\ ~Over(k)}
flightResults == [k \in {x \in CacheKeys : Over(x)} |-> mine[group[k]]]
waitingCalls == [c \in {d \in Calls : pc[d] \in InFlight \cup {"waiting"}} |-> KeyOf(c)]
returning == [c \in {d \in Calls : pc[d] = "done"} |-> result[c]]

\* What Resolve promises: a call returns the entry of its cache key that is fresh, or
\* what the one flight that was under way for it has come to, which all who wait for it
\* are told in one step.
Resolved ==
    INSTANCE LoadingCache WITH
        Callers <- Calls, Keys <- CacheKeys, Failure <- NoKey,
        cached <- freshEntries, loading <- flights, loaded <- flightResults,
        waits <- waitingCalls, answers <- returning
ResolverImplementsCache == Resolved!Spec

\* The keys that unexpired cache entries and running calls rely on.
InUse == {items[k].key : k \in {x \in DOMAIN items : now < items[x].validUntil}}
            \cup {result[c] : c \in {x \in Calls : pc[x] = "done"}}
            \cup {mine[c] : c \in {x \in Calls : pc[x] \in InFlight}}

\* The type's comment: the keys deleted are "orphans from previous sessions".
DeletesOnlyOrphans == [][(live \ live') \cap InUse = {}]_vars

\* Resolve's comment: "deduplicated via singleflight so only one access key is
\* created" for concurrent requests for the same cache key.
OneKeyCreated == created <= 1
=============================================================================
