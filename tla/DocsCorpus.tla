----------------------------- MODULE DocsCorpus -----------------------------
(***************************************************************************)
(* pkg/registry/docs/docs_corpus.go: concurrent searches enrich their      *)
(* results from the docs corpus.  A search reads the manifest, then up to  *)
(* shardConcurrency shards at a time, under a deadline of its own; loads   *)
(* of one key are shared by all searches, have a deadline of their own and *)
(* need one of the client's slots.                                         *)
(*                                                                         *)
(* A cached value may go at any time: its TTL passes, or the cache, which  *)
(* holds maxCacheEntries values of the whole client, makes room.           *)
(***************************************************************************)
EXTENDS Naturals, Sequences, FiniteSets, SequencesExt

CONSTANTS
    Queries,                \* the searches that may be running at one time
    Manifest,               \* the key of the manifest
    Shards,                 \* the keys of the shards
    NoShard,                \* the "shard" of a page that none covers
    Results,                \* what a search may find: sequences of its pages' shards
    MaxShardsPerQuery,      \* maxShardsPerQuery
    ShardConcurrency,       \* shardConcurrency: workers of a search, slots of the client
    MaxConsecutiveTimeouts, \* maxConsecutiveTimeouts
    Watched                 \* the key whose loads the history follows

ASSUME CorpusAssumption ==
    /\ Manifest \notin Shards
    /\ NoShard \notin Shards
    /\ Results \subseteq Seq(Shards \cup {NoShard})
    /\ MaxShardsPerQuery \in Nat \ {0}
    /\ ShardConcurrency \in Nat \ {0}
    /\ MaxConsecutiveTimeouts \in Nat \ {0}
    /\ Watched \in Shards \cup {Manifest}

Keys == Shards \cup {Manifest}

VARIABLES
    cache,      \* [Keys -> "none", "value" or "negative"]
    timeouts,   \* d.timeouts: [Keys -> Nat], 0 for an absent entry
    slots,      \* the number of slots of d.corpusSlots that are taken
    flight,     \* [Keys -> the stage of the load in progress, or "none"]
    late,       \* [Keys -> BOOLEAN]: the load's own deadline has passed
    outcome,    \* [Keys -> BOOLEAN]: the load that is ending has a value
    pc,         \* where each search is
    over,       \* [Queries -> BOOLEAN]: its context is cancelled or timed out
    todo,       \* the shards a search has not yet started on
    task,       \* [Queries -> [Keys -> the stage of its corpusValue call]]
    last        \* history: how the last load of Watched ended, "value", "failure"
                \* or "late"

loads == <<cache, timeouts, slots, flight, late, outcome, last>>
searches == <<pc, over, todo>>
vars == <<loads, searches, task>>

Init ==
    /\ cache = [k \in Keys |-> "none"]
    /\ timeouts = [k \in Keys |-> 0]
    /\ slots = 0
    /\ flight = [k \in Keys |-> "none"]
    /\ late = [k \in Keys |-> FALSE]
    /\ outcome = [k \in Keys |-> FALSE]
    /\ pc = [q \in Queries |-> "idle"]
    /\ over = [q \in Queries |-> FALSE]
    /\ todo = [q \in Queries |-> <<>>]
    /\ task = [q \in Queries |-> [k \in Keys |-> "no"]]
    /\ last = "none"
-----------------------------------------------------------------------------
(* ContentExcerpts                                                         *)

\* The first shards, in the order of the results; a page beyond them that one of
\* them covers needs no shard more.
groupByShard(pages) ==
    LET chosen[n \in 0 .. Len(pages)] ==
            IF n = 0 THEN <<>>
            ELSE IF \/ pages[n] = NoShard \/ pages[n] \in ToSet(chosen[n - 1])
                    \/ Len(chosen[n - 1]) = MaxShardsPerQuery
                 THEN chosen[n - 1]
                 ELSE Append(chosen[n - 1], pages[n])
    IN  chosen[Len(pages)]

Begin(q, pages) ==
    /\ pc[q] = "idle"
    /\ pc' = [pc EXCEPT ![q] = "manifest"]
    /\ over' = [over EXCEPT ![q] = FALSE]
    /\ todo' = [todo EXCEPT ![q] = groupByShard(pages)]
    /\ task' = [task EXCEPT ![q][Manifest] = "start"]
    /\ UNCHANGED loads

\* excerptBudget, or the caller of the search went away.
Cancel(q) ==
    /\ pc[q] # "idle"
    /\ ~over[q]
    /\ over' = [over EXCEPT ![q] = TRUE]
    /\ UNCHANGED <<loads, pc, todo, task>>

Active == {"start", "missed", "waiting", "gotValue", "gotNothing"}
Workers(q) == {s \in Shards : task[q][s] \in Active}

\* The loop looks at its context, and then waits in group.Go for a worker.
NextShard(q) ==
    /\ pc[q] = "loop"
    /\ pc' = [pc EXCEPT ![q] = IF over[q] \/ todo[q] = <<>> THEN "wait" ELSE "go"]
    /\ UNCHANGED <<loads, over, todo, task>>

StartWorker(q) ==
    /\ pc[q] = "go"
    /\ Cardinality(Workers(q)) < ShardConcurrency
    /\ pc' = [pc EXCEPT ![q] = "loop"]
    /\ todo' = [todo EXCEPT ![q] = Tail(@)]
    /\ task' = [task EXCEPT ![q][Head(todo[q])] = "start"]
    /\ UNCHANGED <<loads, over>>

Finish(q) ==
    /\ pc[q] = "wait"
    /\ Workers(q) = {}
    /\ pc' = [pc EXCEPT ![q] = "idle"]
    /\ over' = [over EXCEPT ![q] = FALSE]
    /\ todo' = [todo EXCEPT ![q] = <<>>]
    /\ task' = [task EXCEPT ![q] = [k \in Keys |-> "no"]]
    /\ UNCHANGED loads
-----------------------------------------------------------------------------
(* corpusValue, as its caller runs it.                                     *)

\* The manifest decides whether the search goes on; a shard's worker uses the
\* bodies it got and ends.
Gets(q, k, found) ==
    /\ task' = [task EXCEPT ![q][k] = "no"]
    /\ pc' = [pc EXCEPT ![q] = IF k # Manifest THEN @ ELSE IF found THEN "loop" ELSE "wait"]
    /\ UNCHANGED <<over, todo>>

CallsTooLate(q, k) ==
    /\ task[q][k] = "start"
    /\ over[q]
    /\ Gets(q, k, FALSE)
    /\ UNCHANGED loads

HitsCache(q, k) ==
    /\ task[q][k] = "start"
    /\ ~over[q]
    /\ cache[k] # "none"
    /\ Gets(q, k, cache[k] = "value")
    /\ UNCHANGED loads

MissesCache(q, k) ==
    /\ task[q][k] = "start"
    /\ ~over[q]
    /\ cache[k] = "none"
    /\ task' = [task EXCEPT ![q][k] = "missed"]
    /\ UNCHANGED <<loads, searches>>

\* DoChan: a load starts unless one is in progress.
Joins(q, k) ==
    /\ task[q][k] = "missed"
    /\ task' = [task EXCEPT ![q][k] = "waiting"]
    /\ flight' = [flight EXCEPT ![k] = IF @ = "none" THEN "check" ELSE @]
    /\ UNCHANGED <<searches, cache, timeouts, slots, late, outcome, last>>

Receives(q, k) ==
    /\ task[q][k] \in {"gotValue", "gotNothing"}
    /\ Gets(q, k, task[q][k] = "gotValue")
    /\ UNCHANGED loads

\* Mutant: the caller waits for the load, whatever its own deadline.
LeavesAnswered(q, k) ==
    /\ task[q][k] \in {"gotValue", "gotNothing"}
    /\ over[q]
    /\ Gets(q, k, FALSE)
    /\ UNCHANGED loads

Leaves(q, k) ==
    /\ task[q][k] \in {"waiting", "gotValue", "gotNothing"}
    /\ over[q]
    /\ Gets(q, k, FALSE)
    /\ UNCHANGED loads
-----------------------------------------------------------------------------
(* corpusValue's shared load.                                              *)

outsideLoad == <<searches, task>>
goto(k, stage) == flight' = [flight EXCEPT ![k] = stage]

ChecksAgain(k) ==
    /\ flight[k] = "check"
    /\ cache[k] # "none"
    /\ outcome' = [outcome EXCEPT ![k] = cache[k] = "value"]
    /\ goto(k, "returned")
    /\ UNCHANGED <<outsideLoad, cache, timeouts, slots, late, last>>

\* Mutant: the cache is not looked at again.
WantsSlotUnchecked(k) ==
    /\ flight[k] = "check"
    /\ late' = [late EXCEPT ![k] = FALSE]
    /\ goto(k, "slot")
    /\ UNCHANGED <<outsideLoad, cache, timeouts, slots, outcome, last>>

WantsSlot(k) ==
    /\ flight[k] = "check"
    /\ cache[k] = "none"
    /\ late' = [late EXCEPT ![k] = FALSE]
    /\ goto(k, "slot")
    /\ UNCHANGED <<outsideLoad, cache, timeouts, slots, outcome, last>>

\* loadCtx: excerptBudget after the load began.
Deadline(k) ==
    /\ flight[k] \in {"slot", "load"}
    /\ ~late[k]
    /\ late' = [late EXCEPT ![k] = TRUE]
    /\ UNCHANGED <<outsideLoad, cache, timeouts, slots, flight, outcome, last>>

\* Mutant: the channel has room for one load more.
TakesSlotTooMany(k) ==
    /\ flight[k] = "slot"
    /\ slots <= ShardConcurrency
    /\ slots' = slots + 1
    /\ goto(k, "load")
    /\ UNCHANGED <<outsideLoad, cache, timeouts, late, outcome, last>>

TakesSlot(k) ==
    /\ flight[k] = "slot"
    /\ slots < ShardConcurrency
    /\ slots' = slots + 1
    /\ goto(k, "load")
    /\ UNCHANGED <<outsideLoad, cache, timeouts, late, outcome, last>>

\* Mutant: a load waits for its slot for ever.
SlotWaitIsEndless(k) == FALSE /\ UNCHANGED vars

\* The load gives up before it has a slot: nothing is noted.
SlotWaitTimesOut(k) ==
    /\ flight[k] = "slot"
    /\ late[k]
    /\ outcome' = [outcome EXCEPT ![k] = FALSE]
    /\ goto(k, "returned")
    /\ UNCHANGED <<outsideLoad, cache, timeouts, slots, late, last>>

\* How the load of k ended, for the history.
Notes(k, end) == last' = IF k = Watched THEN end ELSE last

\* Mutant: a success leaves the count alone.
clearTimeoutsNot(k) == timeouts' = timeouts
clearTimeouts(k) == timeouts' = [timeouts EXCEPT ![k] = 0]

Loaded(k) ==
    /\ flight[k] = "load"
    /\ clearTimeouts(k)
    /\ cache' = [cache EXCEPT ![k] = "value"]
    /\ outcome' = [outcome EXCEPT ![k] = TRUE]
    /\ goto(k, "ending")
    /\ Notes(k, "value")
    /\ UNCHANGED <<outsideLoad, slots, late>>

\* An error before the deadline: HTTP status, size, an empty manifest, ...
LoadFails(k) ==
    /\ flight[k] = "load"
    /\ ~late[k]
    /\ cache' = [cache EXCEPT ![k] = "negative"]
    /\ outcome' = [outcome EXCEPT ![k] = FALSE]
    /\ goto(k, "ending")
    /\ Notes(k, "failure")
    /\ UNCHANGED <<outsideLoad, timeouts, slots, late>>

\* noteTimeout: forgives all but the last of MaxConsecutiveTimeouts.
LoadTimesOut(k) ==
    /\ flight[k] = "load"
    /\ late[k]
    /\ IF timeouts[k] + 1 < MaxConsecutiveTimeouts
       THEN /\ timeouts' = [timeouts EXCEPT ![k] = @ + 1]
            /\ UNCHANGED cache
       ELSE /\ timeouts' = [timeouts EXCEPT ![k] = 0]
            /\ cache' = [cache EXCEPT ![k] = "negative"]
    /\ outcome' = [outcome EXCEPT ![k] = FALSE]
    /\ goto(k, "ending")
    /\ Notes(k, "late")
    /\ UNCHANGED <<outsideLoad, slots, late>>

\* Mutant: only a load that has a value frees its slot.
FreesSlotOnSuccess(k) ==
    /\ flight[k] = "ending"
    /\ slots' = IF outcome[k] THEN slots - 1 ELSE slots
    /\ goto(k, "returned")
    /\ UNCHANGED <<outsideLoad, cache, timeouts, late, outcome, last>>

FreesSlot(k) ==
    /\ flight[k] = "ending"
    /\ slots' = slots - 1
    /\ goto(k, "returned")
    /\ UNCHANGED <<outsideLoad, cache, timeouts, late, outcome, last>>

\* Mutant: one caller is answered, as if the load were not shared.
AnswersOne(k) ==
    /\ flight[k] = "returned"
    /\ goto(k, "none")
    /\ late' = [late EXCEPT ![k] = FALSE]
    /\ outcome' = [outcome EXCEPT ![k] = FALSE]
    /\ \E q \in Queries :
          /\ task[q][k] = "waiting" \/ \A r \in Queries : task[r][k] # "waiting"
          /\ task' = IF task[q][k] # "waiting" THEN task
                     ELSE [task EXCEPT ![q][k] = IF outcome[k] THEN "gotValue" ELSE "gotNothing"]
    /\ UNCHANGED <<searches, cache, timeouts, slots, last>>

\* singleflight forgets the key and answers all who wait, under its mutex.
Answers(k) ==
    /\ flight[k] = "returned"
    /\ goto(k, "none")
    /\ late' = [late EXCEPT ![k] = FALSE]
    /\ outcome' = [outcome EXCEPT ![k] = FALSE]
    /\ task' = [q \in Queries |->
                  IF task[q][k] # "waiting" THEN task[q]
                  ELSE [task[q] EXCEPT ![k] = IF outcome[k] THEN "gotValue" ELSE "gotNothing"]]
    /\ UNCHANGED <<searches, cache, timeouts, slots, last>>

Forget(k) ==
    /\ cache[k] # "none"
    /\ cache' = [cache EXCEPT ![k] = "none"]
    /\ UNCHANGED <<outsideLoad, timeouts, slots, flight, late, outcome, last>>
-----------------------------------------------------------------------------
ContentExcerpts(q) ==
    \/ \E pages \in Results : Begin(q, pages)
    \/ NextShard(q) \/ StartWorker(q) \/ Finish(q)

corpusValue(q, k) ==
    \/ CallsTooLate(q, k) \/ HitsCache(q, k) \/ MissesCache(q, k) \/ Joins(q, k)
    \/ Receives(q, k) \/ Leaves(q, k)

load(k) == Loaded(k) \/ LoadFails(k) \/ LoadTimesOut(k)
SharedLoad(k) ==
    \/ ChecksAgain(k) \/ WantsSlot(k) \/ TakesSlot(k) \/ SlotWaitTimesOut(k)
    \/ load(k) \/ FreesSlot(k) \/ Answers(k)

Next ==
    \/ \E q \in Queries :
          \/ ContentExcerpts(q)
          \/ Cancel(q)
          \/ \E k \in Keys : corpusValue(q, k)
    \/ \E k \in Keys : SharedLoad(k) \/ Deadline(k) \/ Forget(k)

\* The goroutines of a search run, and its timer fires.  Nothing is assumed of
\* the loads, nor that anybody searches.
SearchFairness ==
    \A q \in Queries :
        /\ WF_vars(NextShard(q) \/ StartWorker(q) \/ Finish(q))
        /\ WF_vars(Cancel(q))
        /\ \A k \in Keys : WF_vars(corpusValue(q, k))

Spec == Init /\ [][Next]_vars
FairSpec == Spec /\ SearchFairness

\* The goroutines of the loads run, their timers fire, and the HTTP client
\* returns from a request whose context is done.
LoadFairness ==
    \A k \in Keys :
        /\ WF_vars(SharedLoad(k))
        /\ WF_vars(Deadline(k))
-----------------------------------------------------------------------------
TypeOK ==
    /\ cache \in [Keys -> {"none", "value", "negative"}]
    /\ timeouts \in [Keys -> 0 .. MaxConsecutiveTimeouts - 1]
    /\ slots \in 0 .. ShardConcurrency
    /\ flight \in [Keys -> {"none", "check", "slot", "load", "ending", "returned"}]
    /\ late \in [Keys -> BOOLEAN]
    /\ outcome \in [Keys -> BOOLEAN]
    /\ pc \in [Queries -> {"idle", "manifest", "loop", "go", "wait"}]
    /\ over \in [Queries -> BOOLEAN]
    /\ todo \in [Queries -> Seq(Shards)]
    /\ task \in [Queries -> [Keys -> Active \cup {"no"}]]
    /\ last \in {"none", "value", "failure", "late"}

\* "Slots bound concurrent corpus loads across the entire client, including
\* loads whose callers have stopped waiting": every slot that is taken belongs
\* to a load at work, so none is leaked by a failure, a timeout or a search
\* that left.
SlotsAccountedFor ==
    slots = Cardinality({k \in Keys : flight[k] \in {"load", "ending"}})

\* A search that waits always waits for a load that is still to answer it.
NoLostWaiter ==
    \A q \in Queries, k \in Keys : task[q][k] = "waiting" => flight[k] # "none"

\* corpusValue as LoadingCache sees it, each call of it a caller.  What a load comes to
\* is a value or, whether it is cached or not, a failure.
Callers == Queries \X Keys
Stage(c) == task[c[1]][c[2]]
entries == [k \in {x \in Keys : cache[x] # "none"} |-> cache[k]]
loadsUnderWay == {k \in Keys : flight[k] \in {"check", "slot", "load"}}
loadsOver == [k \in {x \in Keys : flight[x] \in {"ending", "returned"}} |->
                IF outcome[k] THEN "value" ELSE "negative"]
waiters == [c \in {d \in Callers : Stage(d) = "waiting"} |-> c[2]]
answered == [c \in {d \in Callers : Stage(d) \in {"gotValue", "gotNothing"}} |->
               IF Stage(c) = "gotValue" THEN "value" ELSE "negative"]

\* What corpusValue promises those who found nothing cached: each is told what the one
\* load that was under way while it waited has come to, as soon as it ends, and what a
\* load comes to is in the cache or a failure.  A caller that finds the key cached uses
\* it in the same step, which LoadingCache does not see.
Corpus ==
    INSTANCE LoadingCache WITH
        Callers <- Callers, Keys <- Keys, Failure <- "negative",
        cached <- entries, loading <- loadsUnderWay, loaded <- loadsOver,
        waits <- waiters, answers <- answered
CorpusImplementsCache == Corpus!Spec

\* A value that is in the cache is never replaced by a failure, although a
\* search that found nothing may start its load long after another search's
\* load has succeeded.
ValueNeverReplacedByFailure ==
    [][\A k \in Keys : cache[k] = "value" => cache'[k] # "negative"]_vars

\* "One stall is left for the next query to retry": the first load that misses
\* its deadline after a load that had a value is not negative-cached.
GivenUp(k) ==
    flight[k] = "load" /\ late[k] /\ cache[k] # cache'[k] /\ cache'[k] = "negative"
StallForgiven == [][GivenUp(Watched) => last \notin {"none", "value"}]_vars

\* "maxConsecutiveTimeouts is how many times in a row a shared load may hit its
\* own deadline before the key is negative-cached."
StallsInARow == [][GivenUp(Watched) => last = "late"]_vars

\* "Each caller can stop waiting independently": a search ends although no load
\* it waits for ever does.
SearchEnds == \A q \in Queries : pc[q] # "idle" ~> pc[q] = "idle"

\* "the shared load has its own bounded lifetime": it ends even if others always
\* get the slots it waits for, and whether or not anyone still waits for it.
LoadEnds == LoadFairness => \A k \in Keys : flight[k] # "none" ~> flight[k] = "none"
=============================================================================
