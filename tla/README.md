# A TLA+ development for mcp-digitalocean

mcp-digitalocean is an MCP server: it offers the DigitalOcean API, and a search
of DigitalOcean's documentation, as tools that a language model calls. Most of
its 469 tools are thin: they check their arguments, make one or two API calls and
format the answer. They are described in catalogues, one definition for a
handler, and one module is the life of a call through whichever of them. The
parts that keep state, run concurrently or follow a longer protocol have a module
each.

`PROJECT.json` is the machine-readable index: components, runs, mutants, the map
from definitions to source lines, findings, hazards and theorems.

## 1. Inventory

| Component (source) | State | Operations | What is hard |
|---|---|---|---|
| WebSocket logging (`internal/wslogging/handler.go`) | per handler: `wsEnabled`, `closed`; shared by a family: `wsBuffer`, `wsMu`, `closeOnce`; of the writer: `batch` | `ConfigureWebSocket`, `Start`, `WithAttrs`, `WithGroup`, `Handle`, `sendToWebSocket`, `Close`, `logWriter`, `flushBatch` | a goroutine per record; a channel closed by one of several users; partial writes and retries; shutdown by context, by channel, or both |
| Functions access keys (`functions/ow_resolver.go`) | `items` + `order` (LRU), `flight`; remotely: the access keys of each namespace | `Resolve`, `resolveAndCache`, `putLocked`, `sweepExpiredLocked`, `cleanupOrphanedKeys`, `createKey` | shared flights, expiry of entries and keys, a cleanup that deletes keys, several users of one namespace |
| Docs corpus (`docs/docs_corpus.go`) | `cache`, `corpusGroup`, `corpusSlots`, `timeouts` | `ContentExcerpts`, `corpusValue`, `noteTimeout`, `clearTimeouts` | two deadlines (the search's, the load's), abandoned loads, slots, negative caching |
| Docs index and pages (`docs/docs_client.go`) | `cache`, `staleIndex`, `indexGroup`, `fetchGroup` | `GetDocsIndex`, `loadIndex`, `cachedMarkdownURL`, `fetch`, `FetchDocPage`, `GetServiceIndex` | refresh during an outage, two sources of different quality, a bounded cache that may evict anything |
| Docs rate limiter (`docs/docs_http_ratelimit.go`) | 64 shards: `clients`, `lastSweep` | `take`, `bucketLocked`, `wrap` | time, rounding, idle sweeps and evictions that forget buckets |
| Docs tools and HTTP endpoint (`docs/docs_tools.go`, `docs_http.go`) | none of their own | search, list, fetch | callers of the three above |
| Server start-up (`cmd/mcp-digitalocean/main.go`) | flags, signal context, HTTP server, `errC` | validation of the command line, `registerRoutes`, `runServer`, exit | which deployments run without a token; exits that skip deferred calls |
| Authentication and middleware (`internal/middleware.go`, `internal/oauthmeta`, `clientFromContext`) | none | `RequireBearer`, `AuthFromRequest`, `clientFromContext`, `ToolMiddleware` | a token is looked at in three places; what is logged must be what happened |
| Tool registry (`registry/registry.go`, `registry/common/annotations.go`) | none | `Register`, the hint profiles | hints are promises about requests written elsewhere |
| Resource tools (droplets, databases, networking, apps, insights, harness runtime, ...) | none; remotely: the account | a handler per tool | schema, handler and hints are written apart; godo repeats requests |
| Model catalog (`inference-modelcatalog/model_prompts.go`), custom models (`genai-custom-models/`) | per call: workers, a semaphore, a channel, a wait group | parallel fetch, with early stop in one of two | bounded workers, a channel nobody reads any more |
| Evaluation workflows (`genai/evaluation_tools.go`, `model_evaluation_*.go`) | remotely: datasets, test cases, runs | preview and consent, upload, register, create or update, run, poll | a step of several fails; polling and deadlines; concurrent calls; consent given to something that changes |

How they interact: every tool call enters through the HTTP or stdio transport of
`main.go`, passes the logging middleware and, on HTTP, brings its token in its
context. The tool builds an API client from that token. The middleware's logger
is a handler of the `wslogging` family; `main` configures and starts the base
handler, derives one from it, logs through the derived one and closes that one on
its way out. Functions tools first ask the resolver for a key. Docs tools and the
docs endpoint (behind the rate limiter) share one `DocsClient`, hence one cache,
one set of flights and one set of slots.

## 2. Modules

| Module | Models | Built on |
|---|---|---|
| `LogRelay` | abstract: a relay that accepts records and delivers what it accepted, in order, repeating only what was not acknowledged | |
| `WsLogging` | `handler.go`, all of it | implements `LogRelay` |
| `WsLoggingProofs` | proofs | `WsLogging` |
| `LoadingCache` | abstract: a cache in front of shared loads, which tells a caller what is cached or what the one load of its key under way while it waits comes to | |
| `OWResolver` | `ow_resolver.go`, all of it, with the remote keys | implements `LoadingCache` |
| `DocsCorpus` | `ContentExcerpts` and `corpusValue` of `docs_corpus.go` | `corpusValue` implements `LoadingCache` |
| `DocsIndex` | `GetDocsIndex`, `loadIndex` and `cachedMarkdownURL` of `docs_client.go` | |
| `RateLimiter` | `docs_http_ratelimit.go`, one shard | |
| `ToolContract` | the vocabulary of the catalogues: hints, requests, handlers, calls | |
| `CatalogNetworking`, `CatalogDroplets`, `CatalogDatabases`, `CatalogInsights`, `CatalogGenAI`, `CatalogHarness`, `CatalogPlatform`, `CatalogStorage`, `CatalogAccount` | every tool that is registered: what its handler asks of its arguments and which requests it sends, its hints, what its schema requires | `ToolContract` |
| `ToolRegistry` | `registry.go` and the start-up validation of `main.go`: which server has which tools | the catalogues |
| `ToolCalls` | a call from the bearer guard to the logged outcome, and the account it changes | `ToolContract`; composed with `ToolRegistry` in `MCToolCalls` |
| `ModelSearch` | `handleSearchByTask`; `unifiedSearch` with `fetchCatalogModels` | |
| `Evaluations` | `runEvaluationWorkflow`, `runWorkflow`, `createRun` | |
| `OWResolverProofs`, `DocsCorpusProofs`, `DocsIndexProofs`, `RateLimiterProofs`, `ToolCallsProofs`, `ModelSearchProofs`, `EvaluationsProofs` | proofs | one each |
| `MC...` | the instances TLC checks | one each |

How state and actions correspond to the code:

* **WsLogging.** A variable per field that more than one party uses. A section under
  `wsMu` is one step, because nothing in it blocks; the log writer is a program
  counter through `select`, the head of `flushBatch` (both readings it makes
  before it dials), the dial, each write, and the write-back. `pending` holds the
  goroutines that `Handle` started. `closed` and `wsEnabled` are per handler, as
  in the code: a derived handler gets copies. A write may succeed, be lost, fail,
  or fail after it arrived (`WriteOutcomes`). A panic ends the process, so
  nothing happens after one.
* **OWResolver.** A call is a program counter through lookup, flight and the
  remote calls; `items` and `order` are the map and the list; `live` is what the
  platform holds. The clock counts hours. `recent` is a history variable: the
  order of last use, kept apart from the list the code maintains. What is cut
  from the list is described by what remains of it (`Room`, `AfterSweep`) and not
  by a loop; `Keep`, the filter, is a recursive function, which the proofs can unfold.
  The code keys its cache by the first 64 bits of a hash of the token; that two tokens share
  them is left out, so `cacheKey` never confuses two users by accident.
  As a `LoadingCache` (`Resolved`), its entries are those still fresh, so they go as the
  clock ticks; a load is a flight up to its stage "finish", and the call that leads it
  waits like those that joined.
* **DocsCorpus.** `task` is the stage of each `corpusValue` call of each search,
  `flight` the stage of the shared load of each key. The context of a search and
  the deadline of a load are Booleans that time sets at any moment. An entry of the
  cache may be forgotten at any moment: TTL, or eviction by unrelated entries.
  `corpusValue` for the manifest and for a shard differ only in what the caller
  does next. `groupByShard` is a recursive function over the results, as the loop in the
  code. As a `LoadingCache` (`Corpus`), each call of `corpusValue` is a caller, and a load is
  over from the moment it has an outcome, before it gives its slot back. A caller that
  finds its key cached uses it in the same step, which the abstract module does not see.
* **DocsIndex.** An index is its source and the number of its load, which is what the
  properties compare. The flight is one program counter, since singleflight lets
  only one run.
* **ToolContract and the catalogues.** A handler is what it asks of its arguments, when
  it asks for a client, and the sequences of requests it may send. A request is what
  it does to its resource (reads, creates, deletes by identity or by name, sets, ...),
  whether godo repeats it, and what becomes of its error. So `Asserts({"ID"}, Deletes)`
  is a handler that takes `ID` with an unchecked type assertion, asks for a client and
  sends one DELETE. What a handler reads if it is there and ignores otherwise is left
  out, and so are paging and the text of answers. The definition is named for the tool
  and mapped to the handler; the set after a group of handlers is what `Tools()`
  registers, with its hints and required arguments.
* **ToolCalls.** One tool, called, perhaps again: the guard, the handler's checks, one
  request after the other with the repetitions of godo, the answer and what
  `ToolMiddleware` logs. A request is served, rejected or unheard of, and an unheard
  one may have been executed. `account` is what the requests have done; somebody else
  may use the account in between (`Others`). An unchecked assertion that fails ends the
  process over stdio and the connection over HTTP (mcp-go is given no recovery
  option). `executed` is history.
* **ToolRegistry.** `Register` is the set of tools for a list of services, `Serves` and
  `Guarded` the decisions of `main` about a command line. `MCToolCalls` assumes, and TLC
  evaluates, that a server which `main` starts over HTTP without the guard has the tools
  of the documentation only, and that no two tools share a name.
* **ModelSearch.** A goroutine is a program counter per model: waiting for the semaphore,
  fetching, delivering, and its two deferred calls in their order. `semaphore` and `wg` are
  counted as the code counts them and not derived from the program counters, so that
  the properties can relate the two. `GoAway` cancels the request's context at any moment.
  `Customs` are the custom models of a unified search, which come all at once or not at all.
* **Evaluations.** A call is a program counter through the requests of its workflow; the
  service is whose file is in object storage, the datasets, the test cases of the one name, the
  runs, and which models (`bearers`: one of the catalogue, a custom one, both or none) have the
  one name, which others may change (`Rename`). A request fails before or after it was executed,
  or is executed twice because godo repeated it after a lost answer. The request of an agent
  workflow starts a run for each of its `Agents`, of which the code keeps the first. A preview
  changes nothing on the server: `shown` is what the client has seen. A yes resolves everything
  again, whether there was a preview or not; a uuid of another model than the name's is refused,
  and a list that fails is left out. `elapsed` counts the polling time; all times after the
  deadline are one (`Past`), and a poll takes any time, since the code puts no deadline on the
  request. `settled` and `expected` are history: what the user of a call may count on.
* **RateLimiter.** `take` holds the shard's mutex, so it is one step; the sweep and
  the eviction are sets of clients. Time is in ticks and tokens in integral
  units, so that the fractions the code computes in floating point are exact.
  `account` and `promise` are history.

## 3. Runs

| Run | Asks | Bounds |
|---|---|---|
| `wslog_family` | Safety of a family of two handlers, closed through either, and the refinement of `LogRelay` | 2 handlers that both log and may be closed, 3 records, a buffer of 2, a batch size of 2, every write outcome, 4 arrivals |
| `wslog_main` | One handler, as `main` uses it: no panic, retries succeed, Close stops the writer | 2 handlers of which the derived one logs and is closed, 3 records, buffer 2, batch size 2, writes that succeed or fail |
| `wslog_shutdown` | finding: records left in the channel at shutdown | the derived handler logs and is closed, 2 records |
| `ow_resolver` | Safety of cache, flights and keys | 2 calls, 2 users, 2 namespaces, 3 cache keys and room for 2, the life of a key (2 hours) |
| `ow_shared_namespace` | finding: the cleanup deletes keys in use | 2 calls, 2 users of one namespace, no time passes |
| `docs_corpus` | Safety of shared loads, and the refinement of `LoadingCache` | 2 searches, the manifest and one shard, 1 slot, 2 timeouts |
| `docs_corpus_live` | Searches and loads end | 1 search at a time, the manifest and one shard, 1 slot, 1 timeout |
| `docs_index` | Monotone reads, no downgrade, every call returns | 2 callers, 4 loads |
| `rate_limiter` | Budget, Retry-After, log, memory | 3 clients for a shard of 2, burst 2, five ticks of 2/3 token |
| `tool_calls` | Hints, answers, schemas and tokens, for every tool | all 469 tools, 2 calls, godo repeats a request once; 467,009 states |
| `model_search` | The fetch limit, the closed channel, answers that say which sources they have and have all their rows, the end of every goroutine | 3 models, a custom one, 2 fetches at a time, a target of 1; 107,640 states |
| `evaluations` | Results, test cases, the model that was shown, what is left behind, the end of every workflow | 2 calls of one workflow, 2 agents, 1 fault, a deadline of 1 and an interval of 1; 324,131 states |

Why these are enough. What can go wrong takes two parties: two handlers, a
sender and a closer, two calls for one key, a search that stays and one that
leaves, a client that is evicted by another, two workflows on one test case. Three records
and a buffer of two fill, overflow and partly write a batch of two. One slot is
the tightest bound that two loads can fight for. The clock of `OWResolver` reaches
the end of the first keys' life, so entries and keys expire; that of `RateLimiter` passes
an idle TTL, so sweeps drop buckets and evictions happen between sweeps. `MaxReceived`, `MaxKeys`,
`MaxTime`, `MaxVersion`, `MaxCalls` and `MaxFaults` only stop counters that grow for ever. The
instances of `DocsCorpus` have one shard: two shards were explored without a difference, and
take too long to be kept. A second call is what it takes to see a hint broken, and one repetition
by godo what it takes to do a request twice: `RETRY_MAX` of the code is 4, and the third to fifth
attempt do what the second does. With three models and a target of one, a search stops while
one worker is fetching and another is still waiting or sending on the full channel. One fault in
`Evaluations` reaches every point at which a workflow can be left, and two agents are enough for a
run that is not the one polled. `Past` keeps one time after the deadline, since the code only compares. A run
ends only while somebody polls it, and a model is renamed only while some call has yet to resolve it:
at other times nobody looks.

`MCToolCalls` names the tools whose hints (`MCNotRepeatable`) or schema (`MCMisfits`) promise
more than their handlers keep; the two properties are checked for all the others, and each of the
named ones violates its property when it is taken off its list. It also assumes, and TLC
evaluates, that `MCMisfits` are exactly the tools whose schema leaves out an argument the handler
demands or asserts (`SchemasOfMisfits`); that is the hypothesis of the theorem `SchemasFit`.

The refinement of `LoadingCache` by `OWResolver` (`ResolverImplementsCache`) is proved and not a
property of `ow_resolver`: TLC checks it on that instance without error, but the run, which visits
2,751,340 states, then takes more than twice as long.

Each property of a passing run has a mutant: a variant of one definition, as a
plausible slip in the code would make it, for which TLC finds the property
violated under the same configuration. The mutants stand next to the definitions
they mutate.

### Fairness

* `WsLogging!SchedulerFairness`: goroutines that can run, run, and the ticker ticks
  (the Go scheduler; `time.Ticker`). `NetworkFairness`: an endpoint that is dialled
  and written to over and over answers some time. `EventuallyWritten` needs both,
  `CloseStopsWriter` only the first and that writes return.
* `DocsCorpus!SearchFairness`: the goroutines of a search run, and the timer of its
  context fires. Nothing is assumed of the loads: that is what `SearchEnds` says.
  `LoadEnds` assumes, in its own statement, that a load's goroutine and timer run
  and that the HTTP client returns from a request whose context is done.
* `DocsIndex!Fairness`: goroutines run and fetches return (the HTTP client has a
  `Timeout`). Page reads are not forced to begin.
* `ModelSearch!Fairness`: goroutines run, and requests are answered or fail (godo's client
  gives up after its retries). The caller need not go away, and the semaphore need not be
  fair to any one worker.
* `Evaluations`: each call's own steps: requests are answered or fail, and timers fire. Nothing
  is assumed of the runs, which need not end, of the user, who need not say yes, or of the
  clients. A single poll may take longer than the deadline, which the code looks at before each
  request and nowhere else.
* `ToolCalls`: none. That a call ends is the shape of the model: the requests of a handler
  and their repetitions are counted down.
* `OWResolver` and `RateLimiter` have no liveness property of their own: a call
  of the resolver ends if the API's calls do, and `take` is one step.

## 4. Findings

The violation runs show where a comment and the code part:

1. **Shutdown does not flush** (`wslog_shutdown`). The comment at `ctx.Done` says that
   the remaining messages are flushed: those in the batch are, those in the
   channel are not.
2. **The cleanup deletes keys in use** (`ow_shared_namespace`): it goes by the prefix
   of the name alone.

Five more are stated by definitions of the modules and violated when added to a
configuration; they are not kept as runs.

3. **Panic on a closed channel** (`NoPanic` as an invariant of `wslog_family.cfg`). `Close`
   sets the flag of the handler it is called on, but closes the channel of the whole family.
   Another handler of the family still finds its own `closed` false, and its send panics.
   `main` closes the handler it logs through, and `OneHandlerNeverPanics`
   proves that this is safe; a logger obtained with `logger.With` is not.
4. **More than one key** (`OneKeyCreated` with two calls of one user for one namespace): a
   call that comes late to the flight finds no flight, and does not look at the cache again.
5. **Timeouts in a row** (`StallsInARow` as a property of `docs_corpus_live.cfg` with
   `MaxConsecutiveTimeouts = 2`): the count survives a failure that was no timeout.
6. **Faulty input is not always a result** (`FaultyInputIsAResult` as a property of
   `tool_calls.cfg`). `middleware.go:59` describes errors driven by faulty input as results the
   model can correct; handlers with unchecked type assertions (`account/keys_tools.go:32`, the
   droplet and reserved IP tools, the uptime alerts) panic instead, which over stdio
   ends the server.
7. **Not all matches** (`AllMatchesReturned` as an invariant of `model_search.cfg`). The
   description of the prompt `search-by-task` says "Returns all matching models with
   recommendations" (`model_prompts.go:455`); the code stops at `targetMatchingCount`, which is 10
   (`model_prompts.go:20`), and a model whose metadata could not be fetched is missing without
   a word. `AnswerIsComplete` is what it does keep.

Seen while reading, and built into the models as the code has it:

* `byoip-prefix-create` requires `Prefix`, `Signature` and `Region`
  (`networking/byoip_prefix_tools.go:197-199`) and reads `prefix`, `signature` and `region`
  (lines 70-81), so no call by its schema succeeds. `MCMisfits` lists the other tools whose
  handlers ask for more than their schemas.
* Some assertions are never true of what JSON decodes to (`load_balancers_tools.go:97` and
  `:364`), so the argument is always ignored.
* The comment at `middleware.go:62` calls an API that is down `tool_call_error`. Handlers return
  API errors as tool results, so an outage is logged as `tool_call_result_error`.
* The delete profile announces idempotence (`annotations.go:101-112`), which does not hold of what
  is deleted by name, nor of `harness-runtime-rollback-checkpoint`: a repetition can destroy what
  came after the first call (`MCNotRepeatable`).
* The functions tools that announce that they only read may mint an access key.
* godo is configured to retry (`main.go:420`) whatever the method is, so a creation whose answer was
  lost is executed again.
* The star metric that is run is not always the one that was shown, so no property says so.
  `createRun` sends the one among the arguments of the call with the yes, and none if there is none
  (`model_evaluation_tools.go:370`); its preview shows the default then
  (`model_evaluation_resolve.go:659-661`). The model workflow always sends the default of its
  metrics (`model_evaluation_tools.go:901`), whatever its `star_metric` argument says and the
  preview shows, and with no metrics given the preview shows none.
* The server does not check that a yes was preceded by a preview
  (`model_evaluation_resolve.go:616-619`), and resolves the model's name again: if the name was
  given to another model in between, or the list with one of two models of that name fails
  (`listAllEvalModels` leaves it out), another model is run than was shown, unless the client
  passes the uuid. `AsShown` says when it is not.
* The run request of an agent workflow starts a run for each agent and deployment; the workflow
  polls and names the first (`evaluation_tools.go:799-803`), and the others have to be looked for.
  The answer of the model workflow does not name the dataset it registered
  (`model_evaluation_tools.go:948-954`), which is found through its run. `MadeIsAccountedFor` says
  what can be found from an answer.
* Two agent workflows at once on one test case can run on each other's dataset (`AnswerIsItsRun`
  excludes them), and a workflow whose polling fails does not name the run it has started.
* A poll has no deadline of its own (`evaluation_tools.go:816-825`), so a workflow may take as long
  past `timeout_seconds` as one request does.
* `RequireBearer` accepts the scheme in any case, `clientFromContext` only cuts `Bearer `: with
  `bearer` the scheme is sent as part of the token.
* `unifiedSearch` asks once for the custom models, with no paging (`unified_search_tool.go:153`), so it finds
  what the API puts on its first page.
* `runServer`'s errors on shutdown end in `os.Exit`, which skips the deferred `Close` of the log
  handler (`main.go:377-379`, `526`).

## 5. Proofs

All theorems are checked by TLAPS for every value of the constants that the
assumptions in the modules allow.

**WsLogging** (`WsLoggingProofs`). `Conserved` says that what was accepted is what
was written, followed by the batch beyond what was sent, followed by the channel.
It is inductive together with the type invariant and with facts about the
program counter (`sent` is at most the length of the batch, and 0 outside a
flush): every step moves a record from the head of one part to the end of the
part before it, so the proof is algebra of sequences, and its opening lemmas hold
it. `FullBatchWasTried` and `ExitIsComplete` need `LeavingInv`: the writer leaves
only if its context is done, or if the channel is closed and drained, after
which nothing can be queued. `Refinement` maps the relay's queue to the batch
and the channel; each step of the writer is a step of the relay or a stutter.
`OneHandlerNeverPanics` assumes `OneHandlerInUse` (all that log or close is one
handler) and carries that the channel is only closed once that handler's flag is
set.

**RateLimiter** (`RateLimiterProofs`). The four properties of the module are proved.
The inductive invariant `IInv` adds to the types:

* `Timely`: nothing is dated in the future, and the shard is a finite set. The
  bound on its size then follows from `EvictionMakesRoom`.
* `Ledger`: what a client has spent *and what it can draw now* are within its
  budget. `BudgetKept` alone is not inductive, since it does not rule out a bucket that
  holds more than is left. The interesting case is a swept client, whose next
  bucket is full: its old one was full too, because the TTL refills it. That is the
  assumption `IdleMeansFull`, which no code checks (the default TTL of ten minutes
  satisfies it unless the burst exceeds what ten minutes bring in).
* `PromisesBacked`: at the time a refused client was told to come back, its bucket
  holds a token. `RetryAfter` rounds up, which `WaitSuffices` turns into enough gain, and
  a refusal draws nothing, so asking again before the time changes nothing.
* `LimitedIsPromised`: the bucket's `limited` flag says that its client is waiting,
  which makes the log line per episode exact even when buckets come and go.

`Requests` and `Others` say once what a request does to its own bucket and to those
of the others; one lemma per part of `IInv` uses them.

**OWResolver** (`OWResolverProofs`). `LedByOne` ties the flight group to the program
counters: a call is in a flight exactly as its key's leader, and no call waits on a key
without one. From it follow `AtMostOneFlight` and `NoLostWaiter`. `ItemsOwned`,
`FlightsOwned` and `ResultsOwned` follow a key from its creation to the cache, the
leader and those who share the flight, with the user and the namespace it is for
(`OwnKeysOnly`) and with what is left of its life (`FreshWhenHandedOut`): an entry
ends `RefreshBuffer` before its key, but for the time between the key's creation and
`putLocked`, which `MaxFlight` bounds.

The cache's list is proved about by induction. `InOrder` says that the code's list is the history
`recent`, names each key of the map once, and is no longer than the cache may be. A hit moves
the same key to the front of both (`MovedToFront`). For `putLocked`, what `Room` leaves is a
prefix, and filtering a distinct list by the members of a prefix of it gives that prefix
(`KeepOfPrefix`), so what the code cuts from the list is what the history loses with the map
(`PutKeeps`). `OrderIsRecency` follows, and so does `OnlyColdEvicted`: the sweep and the replacement drop only
what is not fresh, and what `Room` cuts off a list of at most `MaxCacheEntries` is its last
member. `KeysMade` (every key that is held anywhere was created) completes the types.

`ResolverRefinement`: every step of the resolver is a step of `LoadingCache` or changes nothing that
it sees. It needs `LedByOne` (that a step of one call touches no flight but the one it leads, and
that those in a flight of a key when it ends are its leader and those who joined), `FlightsOwned`
(a flight that fails has no key to tell) and `RefreshBuffer < KeyTTL` (what is put in the
cache is fresh).

**DocsCorpus** (`DocsCorpusProofs`). A slot is held by a load in the stages between
taking and freeing it, so counting those loads counts the slots. `LoadsMissing` (nothing
is cached for a key that is being loaded) is why looking at the cache again inside
the flight is enough for `ValueNeverReplacedByFailure`. `OneStallIsForgiven` needs
`MaxConsecutiveTimeouts > 1`; the code's constant is 3 (`docs_corpus.go:173`).

`SInv` is about the searches. `Scheduled`: the shards still to be read are distinct and none of them
is being read, no shard is asked for together with the manifest, and a search that has ended has
no call left. It starts from what `groupByShard` returns, which `HighestRankedFirst` proves by
induction on the results, and it is what makes `StartWorker` begin a call and never overwrite one.
`FewWorkers` counts. From both follow the types and `WorkersAreBounded`.

`CorpusRefinement` maps each call and each load step by step: a load's outcome is cached in the step
that decides it (`EntryMade`), a load that is forgiven or gets no slot is a failure that is not
cached, `Answers` tells everyone who waits, and who leaves waits no longer. `Scheduled` is needed
where a search begins a call or ends: neither may take away one that waits.

**DocsIndex** (`DocsIndexProofs`). `Best` is the index the next answer is to be at
least as good as: the stale one, except in the moment between caching a new index and
keeping it, when it is the new one. What is cached is `Best` (`CacheIsBest`), `Best` only
gets better (`BestGetsBetter`), and all that calls hold or have returned is superseded by
it; `ReadsNeverGoBack` and `NeverDowngraded` follow.

**ToolCalls** (`ToolCallsProofs`), for any catalogue in the vocabulary of `ToolContract`, any number
of repetitions and of calls. `Quiet`: before the first request nothing was executed and nothing
answered. `Underway`: every request behind the current step was executed or is optional, and `won`
says that an optional one was. `Told`: an answer or an outcome of success means that the plan is
done. Together they give `Honest`. `Entitled` follows the token from the guard: without one,
past the checks there is only a handler that uses no client, which by `OfferAssumption` mints no
keys; this gives `NoTokenNothing`.

The hints and the schemas are about the particular tools of the registry, so what is proved of
every catalogue has the form: what the tool's description says implies the property. For the hints,
`HintsAreDue` compares them with the requests of the handler, and `Held` says what a tool with
only such requests can have done to the account so far, whatever is lost, repeated or done by
others in between (`AccountInvariance`); `HintsAreKept` follows. `HintsAreDue`, evaluated once of the 469 tools (less
`MCNotRepeatable` for idempotence), holds of all; no run evaluates it, since the run checks the property itself. For the schemas, `Blamed` says that a
call is refused or dropped only for arguments the handler demands, checks or asserts, and never
for an answer of the API (`RefusalsAreEarned`); with `SchemaIsComplete` the property follows
(`CompleteSchemasFit`, `SchemasFit`).

**ModelSearch** (`ModelSearchProofs`). `Counted` relates what the code counts to where the
goroutines are: the semaphore holds one element per worker between acquiring and releasing, and
the wait group counts those that were spawned and have not ended. From it follow `Bounded` and,
with `Phases` (nothing is spawned once the handler collects), `NoSendOnClosed`: a wait group at
zero stays there. `Truthful` says that results are of models that were fetched or have failed,
`NothingLost` that until the context is cancelled every worker's result is in the channel,
collected or passed over rightly. `Finished` carries this to the answer: `TaskFinished` says that a
search by task ends with enough models or when no goroutine is left, `UnifiedFinished` that a unified
one ends when both sources have come or failed, which its answer then tells (nothing is spawned when
the catalogue could not be listed, so its rows are none, not some). `Complete` follows.

**Evaluations** (`EvaluationsProofs`), for any number of calls, agents, faults and runs, any
deadline and interval. The invariant says of each call: which requests its workflow has (`Stage`);
that before it registers a dataset there is none of it, and before it starts a run no run
(`NotYet`); that what it holds exists and is its own, and is with the other runs of the same request
all it has made, as long as no creation was repeated (`Holds`); and that a call which has been alone
so far is the only active one, so that between its update of the test case and its start nobody
changes the dataset there, and all its runs are of its own (`Alone`). `OneAtATime` adds to its
property that who is about to create a test case has found none, `Stored` that a registration
follows the upload. `Agreed`: a run is of the model its call has resolved, that model is the one the user
may count on, and while nothing is renamed the model that was shown still has the name, so that it is
the only one that resolving it again can give. The steps that only move a call on share a lemma
(`OnwardKeeps`); each step that creates something has its own, on top of `Appending`, for any number
of copies.

Induction. TLAPS has no prover here that can instantiate a theorem about a predicate, so the
induction theorems of its library cannot be used. The theorem that a well-founded relation gives
every set a minimal member (`WFMin`) has no such parameter: with it, `Induction` is stated about sets
of numbers, `SeqInduction` about sets of sequences, and a recursive function is unfolded after
induction has shown that there is one (`KeepsExists`, `ChoosesExists`).

Every invariant and every action property that a run checks is stated by a theorem. Only
model-checked: everything about liveness (TLAPS does not do fairness or ENABLED) and, by their
nature, the violations. Proved and no longer run, to keep the runs short: the types of
`WsLogging`, `DocsIndex`, `ToolCalls`, `ModelSearch` and `Evaluations`, `AtMostOneFlight`, `NoLoadOverCache`,
the `NoLostWaiter` of `DocsCorpus`, which the refinement covers, and `ResolverImplementsCache`.

## 6. Not modelled

* Text: formatting of log entries, Markdown, parsing of indexes and shards,
  scoring, the shapes of answers, evaluation files. Unit tests reach these.
* The fetch layer of the docs client: `fetch`, `FetchDocPage` and `GetServiceIndex` with the
  bounded cache they share. Two hazards of it are on record without a property.
* `runServer`: the race of signal and server error, and the shutdown of the HTTP server. What it
  means for the log handler is `wslog_shutdown`.
* The docs HTTP endpoint's reading of its query, the OAuth metadata document, the encrypted
  resource identifier, the OpenAI challenge: constants of a deployment, or pure functions of a request.
* `ConfigureWebSocket` or `Start` called twice on one family, which would replace the
  channel or share the batch: `main` does neither.
* The floating point of the rate limiter.
* Data races as such (`WithAttrs` reads without the mutex): modelled as one step.
* Optional arguments of the tools, paging, and what a handler does with them.
* Code that no call reaches: the partner attachment tools, which `registry.go:106-107` leaves out;
  generated mocks and the generated app specification; test helpers; the npm launcher.

## 7. Plan

Done, in this order: `WsLogging`, `OWResolver`, `DocsCorpus`, `DocsIndex`, `RateLimiter`; then the
catalogues, `ToolRegistry` and `ToolCalls`, `ModelSearch`, `Evaluations`, each with its proofs. What is left:

1. `DocsFetch`: `fetch`, `FetchDocPage`, `GetServiceIndex` and the bounded cache they
   share (a miss cached over a hit; a fallback's content under the page's key),
   with an abstract cache as its specification.
2. `ServerLifecycle`: `runServer` (signal against error) and the exit paths, composed
   with `WsLogging`'s writer at the level of `LogRelay`.
3. `ToolCalls` with several calls at once, composed with `OWResolver` in the place of `keyed`.
4. `DocsIndex` as a `LoadingCache`: its load falls back on an older value, so the abstract module
   needs a load that ends with a value it does not cache.
