----------------------------- MODULE ModelSearch -----------------------------
(***************************************************************************)
(* Searches of the model catalogue: the models are listed, and a goroutine *)
(* per model asks for its metadata, so many at a time.                     *)
(*                                                                         *)
(*   - "byTask" is handleSearchByTask (inference-modelcatalog): the        *)
(*     results come through a channel, and the handler cancels what is     *)
(*     left once it has enough of them;                                    *)
(*   - "unified" is unifiedSearch (genai-custom-models) with               *)
(*     fetchCatalogModels: every goroutine has a place for its result, the *)
(*     handler waits for all of them and for the list of custom models     *)
(*     that is fetched next to them.                                       *)
(***************************************************************************)
EXTENDS Naturals, Sequences, FiniteSets

CONSTANTS
    Models,     \* the models of the catalogue
    Customs,    \* the custom models a unified search is to find
    Target,     \* targetMatchingCount, also the capacity of the channel
    MaxFetch    \* maxConcurrentFetch, or maxConcurrent

ASSUME ModelsAssumption == IsFiniteSet(Models) /\ Customs \intersect Models = {}
ASSUME BoundsAssumption == Target \in Nat \ {0} /\ MaxFetch \in Nat \ {0}

VARIABLES
    kind,       \* which search it is
    matching,   \* the models that meet the constraints and the task, if any
    pc,         \* "listing", "spawning", "collecting", "waiting", "answered"
    worker,     \* where the goroutine of a model is
    semaphore,  \* how many elements are in the semaphore channel
    wg,         \* the counter of the wait group
    results,    \* results that were delivered and not taken yet
    closed,     \* whether the channel of results is closed
    cancelled,  \* whether the context of the fetches is cancelled
    custom,     \* the list of custom models: "running", "listed", "failed"
    catalog,    \* whether the catalogue could be listed
    found,      \* the models the handler has collected
    answer,     \* "none", "done", "partial" or "error"
    gone,       \* whether the caller's context was cancelled
    failed      \* history: models whose metadata could not be fetched

vars == <<kind, matching, pc, worker, semaphore, wg, results, closed, cancelled,
          custom, catalog, found, answer, gone, failed>>
search == <<kind, matching>>
reply  == <<found, answer>>

Kinds   == {"byTask", "unified"}
Results == [model : Models, ok : BOOLEAN]
Holds   == {"fetching", "fetched", "releasing"}  \* an element of the semaphore

Holders == {m \in Models : worker[m] \in Holds}
Running == {m \in Models : worker[m] \notin {"none", "ended"}}

-----------------------------------------------------------------------------
(* The goroutine of a model of the catalogue.                              *)

At(m, before, after) == worker[m] = before /\ worker' = [worker EXCEPT ![m] = after]

\* Mutant: acquiring is left out.
Acquire_Free(m) ==
    /\ At(m, "waiting", "fetching") /\ semaphore' = semaphore + 1
    /\ UNCHANGED <<search, pc, wg, results, closed, cancelled, custom, catalog,
                   reply, gone, failed>>
Acquire(m) ==
    /\ semaphore < MaxFetch
    /\ At(m, "waiting", "fetching") /\ semaphore' = semaphore + 1
    /\ UNCHANGED <<search, pc, wg, results, closed, cancelled, custom, catalog,
                   reply, gone, failed>>

\* Only handleSearchByTask looks at the context while it waits.
Skip(m) ==
    /\ kind = "byTask" /\ cancelled
    /\ At(m, "waiting", "finishing")
    /\ UNCHANGED <<search, pc, semaphore, wg, results, closed, cancelled, custom,
                   catalog, reply, gone, failed>>

\* getModelMetadata, GetModelByUUID: once the context is cancelled they fail.
Fetch(m) ==
    /\ At(m, "fetching", "fetched")
    /\ \/ ~cancelled /\ UNCHANGED failed
       \/ failed' = failed \union {m}
    /\ UNCHANGED <<search, pc, semaphore, wg, results, closed, cancelled, custom,
                   catalog, reply, gone>>

\* The channel takes Target results; a result nobody takes is dropped when the
\* context is cancelled.  Mutant: the send does not look at the context.
Deliver_Stubborn(m) ==
    /\ At(m, "fetched", "releasing")
    /\ kind = "byTask" => Len(results) < Target
    /\ results' = Append(results, [model |-> m, ok |-> m \notin failed])
    /\ UNCHANGED <<search, pc, semaphore, wg, closed, cancelled, custom, catalog,
                   reply, gone, failed>>
Deliver(m) ==
    /\ At(m, "fetched", "releasing")
    /\ \/ /\ kind = "byTask" => Len(results) < Target
          /\ results' = Append(results, [model |-> m, ok |-> m \notin failed])
       \/ kind = "byTask" /\ cancelled /\ UNCHANGED results
    /\ UNCHANGED <<search, pc, semaphore, wg, closed, cancelled, custom, catalog,
                   reply, gone, failed>>

\* The deferred calls, in their order.
Release(m) ==
    /\ At(m, "releasing", "finishing") /\ semaphore' = semaphore - 1
    /\ UNCHANGED <<search, pc, wg, results, closed, cancelled, custom, catalog,
                   reply, gone, failed>>

Done(m) ==
    /\ At(m, "finishing", "ended") /\ wg' = wg - 1
    /\ UNCHANGED <<search, pc, semaphore, results, closed, cancelled, custom,
                   catalog, reply, gone, failed>>

Work(m) ==
    Acquire(m) \/ Skip(m) \/ Fetch(m) \/ Deliver(m) \/ Release(m) \/ Done(m)

-----------------------------------------------------------------------------
(* The handler: listing and spawning.                                      *)

\* The deferred cancel, when a handler has one.
Leave(a) ==
    /\ pc' = "answered" /\ answer' = a
    /\ cancelled' = (cancelled \/ kind = "byTask")

List ==
    /\ pc = "listing"
    /\ \/ /\ ~cancelled
          /\ pc' = "spawning" /\ catalog' = TRUE
          /\ UNCHANGED <<answer, cancelled>>
       \/ /\ kind = "byTask" /\ Leave("error") /\ catalog' = FALSE
       \/ /\ kind = "unified"
          /\ pc' = "waiting" /\ catalog' = FALSE
          /\ UNCHANGED <<answer, cancelled>>
    /\ UNCHANGED <<search, worker, semaphore, wg, results, closed, custom, found,
                   gone, failed>>

Spawn(m) ==
    /\ pc = "spawning" /\ worker[m] = "none"
    /\ worker' = [worker EXCEPT ![m] = "waiting"] /\ wg' = wg + 1
    /\ UNCHANGED <<search, pc, semaphore, results, closed, cancelled, custom,
                   catalog, reply, gone, failed>>

Spawned == \A m \in Models : worker[m] # "none"

Collecting ==
    /\ pc = "spawning" /\ Spawned
    /\ pc' = IF kind = "byTask" THEN "collecting" ELSE "waiting"
    /\ UNCHANGED <<search, worker, semaphore, wg, results, closed, cancelled,
                   custom, catalog, reply, gone, failed>>

-----------------------------------------------------------------------------
(* handleSearchByTask: the goroutine that closes, and the loop that takes. *)

\* Mutant: it closes when the last goroutine has been let in.
Close_Early ==
    /\ kind = "byTask" /\ ~closed /\ pc \in {"collecting", "answered"} /\ catalog
    /\ \A m \in Models : worker[m] # "waiting"
    /\ closed' = TRUE
    /\ UNCHANGED <<search, pc, worker, semaphore, wg, results, cancelled, custom,
                   catalog, reply, gone, failed>>
Close ==
    /\ kind = "byTask" /\ ~closed /\ pc \in {"collecting", "answered"} /\ catalog
    /\ wg = 0
    /\ closed' = TRUE
    /\ UNCHANGED <<search, pc, worker, semaphore, wg, results, cancelled, custom,
                   catalog, reply, gone, failed>>

\* What came with an error or does not meet the constraints is passed over.
\* Mutant: the first result that is passed over ends the loop.
Take_Break ==
    /\ pc = "collecting" /\ results # <<>>
    /\ results' = Tail(results)
    /\ LET r == Head(results)
       IN  IF r.ok /\ r.model \in matching
           THEN /\ found' = found \union {r.model}
                /\ IF Cardinality(found') >= Target
                   THEN Leave("done")
                   ELSE UNCHANGED <<pc, answer, cancelled>>
           ELSE Leave("done") /\ UNCHANGED found
    /\ UNCHANGED <<search, worker, semaphore, wg, closed, custom, catalog, gone,
                   failed>>
Take ==
    /\ pc = "collecting" /\ results # <<>>
    /\ results' = Tail(results)
    /\ LET r == Head(results)
       IN  found' = IF r.ok /\ r.model \in matching THEN found \union {r.model} ELSE found
    /\ IF found' # found /\ Cardinality(found') >= Target
       THEN Leave("done")
       ELSE UNCHANGED <<pc, answer, cancelled>>
    /\ UNCHANGED <<search, worker, semaphore, wg, closed, custom, catalog, gone,
                   failed>>

Drained ==
    /\ pc = "collecting" /\ results = <<>> /\ closed
    /\ Leave("done")
    /\ UNCHANGED <<search, worker, semaphore, wg, results, closed, custom, catalog,
                   found, gone, failed>>

-----------------------------------------------------------------------------
(* unifiedSearch: the custom models, and the end of the wait.              *)

ListCustom ==
    /\ kind = "unified" /\ custom = "running"
    /\ custom' \in IF cancelled THEN {"failed"} ELSE {"listed", "failed"}
    /\ UNCHANGED <<search, pc, worker, semaphore, wg, results, closed, cancelled,
                   catalog, reply, gone, failed>>

\* Mutant: the error of the custom list is left out.
Errors_CatalogOnly == IF catalog THEN 0 ELSE 1
Errors ==
    (IF catalog THEN 0 ELSE 1) + (IF custom = "failed" THEN 1 ELSE 0)

Gather ==
    /\ pc = "waiting" /\ wg = 0 /\ custom # "running"
    /\ found' = {results[i].model : i \in {j \in DOMAIN results : results[j].ok}}
                  \union (IF custom = "listed" THEN Customs ELSE {})
    /\ Leave(CASE Errors = 0 -> "done" [] Errors = 1 -> "partial" [] Errors = 2 -> "error")
    /\ UNCHANGED <<search, worker, semaphore, wg, results, closed, custom, catalog,
                   gone, failed>>

-----------------------------------------------------------------------------
\* The caller is not interested any more.
GoAway ==
    /\ ~gone /\ pc # "answered"
    /\ gone' = TRUE /\ cancelled' = TRUE
    /\ UNCHANGED <<search, pc, worker, semaphore, wg, results, closed, custom,
                   catalog, reply, failed>>

Init ==
    /\ kind \in Kinds
    /\ matching \in IF kind = "byTask" THEN SUBSET Models ELSE {Models}
    /\ pc = "listing" /\ worker = [m \in Models |-> "none"]
    /\ semaphore = 0 /\ wg = 0 /\ results = <<>>
    /\ closed = FALSE /\ cancelled = FALSE
    /\ custom = "running" /\ catalog = FALSE
    /\ found = {} /\ answer = "none" /\ gone = FALSE /\ failed = {}

Handle ==
    List \/ (\E m \in Models : Spawn(m)) \/ Collecting \/ Take \/ Drained \/ Gather

Next ==
    Handle \/ Close \/ ListCustom \/ GoAway \/ \E m \in Models : Work(m)

\* The goroutines of the process run; a request is answered or fails.
Fairness ==
    /\ WF_vars(Handle) /\ WF_vars(Close) /\ WF_vars(ListCustom)
    /\ \A m \in Models : WF_vars(Work(m))

Spec == Init /\ [][Next]_vars /\ Fairness

-----------------------------------------------------------------------------
(* Properties.                                                             *)

\* The variables have their types: no counter of the goroutines goes below zero,
\* whatever way they leave.
TypeOK ==
    /\ kind \in Kinds /\ matching \subseteq Models
    /\ pc \in {"listing", "spawning", "collecting", "waiting", "answered"}
    /\ worker \in [Models -> {"none", "waiting", "fetching", "fetched",
                              "releasing", "finishing", "ended"}]
    /\ semaphore \in Nat /\ wg \in Nat
    /\ results \in Seq(Results)
    /\ closed \in BOOLEAN /\ cancelled \in BOOLEAN /\ gone \in BOOLEAN
    /\ custom \in {"running", "listed", "failed"} /\ catalog \in BOOLEAN
    /\ found \subseteq Models \union Customs /\ failed \subseteq Models
    /\ answer \in {"none", "done", "partial", "error"}

\* No more requests are on their way than the semaphore is for, whichever way
\* the goroutines leave: through a delivery, a cancelled send, or a wait that
\* was given up.
FetchesAreBounded ==
    Cardinality({m \in Models : worker[m] = "fetching"}) <= MaxFetch

\* The channel is closed only when no goroutine can still send on it: a send on
\* a closed channel would end the process.
NoSendAfterClose == closed => \A m \in Models : worker[m] = "ended"

\* The rows of an answer are all that its sources had, and the answer says which
\* sources it has.  A search by task that is told as done, to a caller that is
\* still there, has Target models, or every match whose metadata could be fetched;
\* as an error, the catalogue could not be listed.  A unified search is told as done
\* only if both sources came, with the rows of both; as partial, if one came, with
\* every row of that one; and as an error, if neither came.  (A model whose own
\* request failed is missing without a word.)
TaskComplete ==
    /\ answer = "done" /\ ~gone =>
          \/ Cardinality(found) = Target /\ found \subseteq matching
          \/ found = matching \ failed
    /\ answer = "error" => ~catalog
    /\ answer # "partial"

Fetched == Models \ failed

UnifiedComplete ==
    /\ answer = "done" => catalog /\ custom = "listed" /\ found = Fetched \union Customs
    /\ answer = "partial" => \/ catalog /\ custom = "failed" /\ found = Fetched
                             \/ ~catalog /\ custom = "listed" /\ found = Customs
    /\ answer = "error" => ~catalog /\ custom = "failed" /\ found = {}

AnswerIsComplete ==
    /\ kind = "byTask" => TaskComplete
    /\ kind = "unified" => UnifiedComplete

\* What the description of the prompt says: a search by task returns all models
\* that match.  The code does not: it stops at Target of them, and leaves out those
\* whose metadata could not be fetched.
AllMatchesReturned ==
    kind = "byTask" /\ answer = "done" /\ ~gone => found = matching

\* The handler answers, and no goroutine is left behind, whether the search
\* was enough, everything failed or the caller went away.
SearchEnds == <>[](pc = "answered" /\ Running = {})
=============================================================================
