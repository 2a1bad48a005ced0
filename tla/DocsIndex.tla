------------------------------ MODULE DocsIndex -----------------------------
(***************************************************************************)
(* pkg/registry/docs/docs_client.go: concurrent tool calls and searches    *)
(* obtain the searchable index of the docs site.  It is cached; a single   *)
(* flight refreshes it from llms-index.json, or from the much smaller      *)
(* llms.txt, and falls back on the index it loaded last when neither can   *)
(* be had.  Page reads use whatever index is at hand and load none.        *)
(*                                                                         *)
(* An index is [source, version], and version counts the loads.  The cached*)
(* index may go at any time: its TTL passes, or the cache makes room.      *)
(***************************************************************************)
EXTENDS Naturals, FiniteSets

CONSTANTS
    Callers,    \* the calls of GetDocsIndex and of cachedMarkdownURL in progress
    MaxVersion  \* bound on the number of indexes loaded

ASSUME IndexAssumption == MaxVersion \in Nat

VARIABLES
    cache,      \* the entry "docsIndex" of d.cache, or NoIndex
    staleIndex, \* d.staleIndex, or NoIndex
    version,    \* how many indexes have been loaded
    flight,     \* the stage of indexGroup's load in progress, or "none"
    loaded,     \* what the load has obtained so far, or NoIndex
    pc,         \* where each call is
    result,     \* what a call holds or returns, NoIndex for an error
    newest,     \* history: the newest version any call had returned ...
    since       \* history: ... when this call began

vars == <<cache, staleIndex, version, flight, loaded, pc, result, newest, since>>

Sources == {"json", "txt"}
NoIndex == [source |-> "none", version |-> 0]
Index == [source : Sources, version : 1 .. MaxVersion]

Init ==
    /\ cache = NoIndex
    /\ staleIndex = NoIndex
    /\ version = 0
    /\ flight = "none"
    /\ loaded = NoIndex
    /\ pc = [c \in Callers |-> "idle"]
    /\ result = [c \in Callers |-> NoIndex]
    /\ newest = NoIndex
    /\ since = [c \in Callers |-> NoIndex]
-----------------------------------------------------------------------------
(* The callers.                                                            *)

shared == <<cache, staleIndex, version, loaded>>
goto(c, label) == pc' = [pc EXCEPT ![c] = label]

GetDocsIndex(c) ==
    /\ pc[c] = "idle"
    /\ since' = [since EXCEPT ![c] = newest]
    /\ IF cache # NoIndex
       THEN goto(c, "done") /\ result' = [result EXCEPT ![c] = cache]
       ELSE goto(c, "missed") /\ UNCHANGED result
    /\ UNCHANGED <<shared, flight, newest>>

\* indexGroup.Do
Join(c) ==
    /\ pc[c] = "missed"
    /\ goto(c, "waiting")
    /\ flight' = IF flight = "none" THEN "check" ELSE flight
    /\ UNCHANGED <<shared, result, newest, since>>

\* cachedMarkdownURL reads staleIndex, and then prefers what is cached.
ReadStale(c) ==
    /\ pc[c] = "idle"
    /\ since' = [since EXCEPT ![c] = newest]
    /\ result' = [result EXCEPT ![c] = staleIndex]
    /\ goto(c, "read")
    /\ UNCHANGED <<shared, flight, newest>>

PreferCached(c) ==
    /\ pc[c] = "read"
    /\ result' = [result EXCEPT ![c] = IF cache # NoIndex THEN cache ELSE @]
    /\ goto(c, "held")
    /\ UNCHANGED <<shared, flight, newest, since>>

Return(c) ==
    /\ pc[c] \in {"done", "held"}
    /\ goto(c, "idle")
    /\ newest' = IF result[c].version > newest.version THEN result[c] ELSE newest
    /\ result' = [result EXCEPT ![c] = NoIndex]
    /\ since' = [since EXCEPT ![c] = NoIndex]
    /\ UNCHANGED <<shared, flight>>
-----------------------------------------------------------------------------
(* The flight.                                                             *)

callers == <<pc, result, newest, since>>

CacheFilled == cache # NoIndex

CheckAgain ==
    /\ flight = "check"
    /\ flight' = IF CacheFilled THEN "answer" ELSE "json"
    /\ loaded' = IF CacheFilled THEN cache ELSE NoIndex
    /\ UNCHANGED <<cache, staleIndex, version, callers>>

Obtain(source) ==
    /\ version < MaxVersion
    /\ version' = version + 1
    /\ loaded' = [source |-> source, version |-> version']
    /\ flight' = "set"

\* loadIndex: llms-index.json is fetched and parsed, ...
LoadJSON ==
    /\ flight = "json"
    /\ Obtain("json")
    /\ UNCHANGED <<cache, staleIndex, callers>>

\* Mutant: llms.txt is always tried.
KeepsStaleNever == FALSE
KeepsStale == staleIndex.source = "json"

\* ... or not, and then an index of that kind that is at hand is preferred to ...
JSONFails ==
    /\ flight = "json"
    /\ flight' = IF KeepsStale THEN "failed" ELSE "txt"
    /\ UNCHANGED <<shared, callers>>

\* ... llms.txt.
LoadTxt ==
    /\ flight = "txt"
    /\ Obtain("txt")
    /\ UNCHANGED <<cache, staleIndex, callers>>

TxtFails ==
    /\ flight = "txt"
    /\ flight' = "failed"
    /\ UNCHANGED <<shared, callers>>

\* With negativeCacheTTL, so that an outage does not cost every call a load.
ServeStale ==
    /\ flight = "failed"
    /\ loaded' = staleIndex
    /\ cache' = IF staleIndex # NoIndex THEN staleIndex ELSE cache
    /\ flight' = "answer"
    /\ UNCHANGED <<staleIndex, version, callers>>

SetCache ==
    /\ flight = "set"
    /\ cache' = loaded
    /\ flight' = "store"
    /\ UNCHANGED <<staleIndex, version, loaded, callers>>

\* Mutant: only the first index is kept for an outage.
StoreFirst ==
    /\ flight = "store"
    /\ staleIndex' = IF staleIndex = NoIndex THEN loaded ELSE staleIndex
    /\ flight' = "answer"
    /\ UNCHANGED <<cache, version, loaded, callers>>

StoreStale ==
    /\ flight = "store"
    /\ staleIndex' = loaded
    /\ flight' = "answer"
    /\ UNCHANGED <<cache, version, loaded, callers>>

\* Mutant: one caller is answered, as if the load were not shared.
AnswerOne ==
    /\ flight = "answer"
    /\ flight' = "none"
    /\ loaded' = NoIndex
    /\ \E c \in Callers :
          /\ pc[c] = "waiting"
          /\ pc' = [pc EXCEPT ![c] = "done"]
          /\ result' = [result EXCEPT ![c] = loaded]
    /\ UNCHANGED <<cache, staleIndex, version, newest, since>>

Answer ==
    /\ flight = "answer"
    /\ flight' = "none"
    /\ loaded' = NoIndex
    /\ pc' = [c \in Callers |-> IF pc[c] = "waiting" THEN "done" ELSE pc[c]]
    /\ result' = [c \in Callers |-> IF pc[c] = "waiting" THEN loaded ELSE result[c]]
    /\ UNCHANGED <<cache, staleIndex, version, newest, since>>

Forget ==
    /\ cache # NoIndex
    /\ cache' = NoIndex
    /\ UNCHANGED <<staleIndex, version, flight, loaded, callers>>
-----------------------------------------------------------------------------
loadIndex == LoadJSON \/ JSONFails \/ LoadTxt \/ TxtFails
Flight == CheckAgain \/ loadIndex \/ ServeStale \/ SetCache \/ StoreStale \/ Answer

Next ==
    \/ \E c \in Callers :
          \/ GetDocsIndex(c) \/ Join(c) \/ ReadStale(c) \/ PreferCached(c) \/ Return(c)
    \/ Flight
    \/ Forget

\* Every goroutine runs, and every fetch returns: the HTTP client's Timeout.
Fairness ==
    /\ \A c \in Callers : WF_vars(Join(c) \/ PreferCached(c) \/ Return(c))
    /\ WF_vars(Flight)

Spec == Init /\ [][Next]_vars /\ Fairness
-----------------------------------------------------------------------------
TypeOK ==
    /\ cache \in Index \cup {NoIndex}
    /\ staleIndex \in Index \cup {NoIndex}
    /\ version \in 0 .. MaxVersion
    /\ flight \in {"none", "check", "json", "txt", "failed", "set", "store", "answer"}
    /\ loaded \in Index \cup {NoIndex}
    /\ pc \in [Callers -> {"idle", "missed", "waiting", "read", "held", "done"}]
    /\ result \in [Callers -> Index \cup {NoIndex}]
    /\ newest \in Index \cup {NoIndex}
    /\ since \in [Callers -> Index \cup {NoIndex}]

\* Time does not run backwards for the users of the index: a call that begins
\* after another has returned an index gets that one or a later one, and never
\* an error, be it from the cache, from the flight or, in an outage, from the
\* stale index.
ReadsNeverGoBack ==
    \A c \in Callers : pc[c] = "done" => result[c].version >= since[c].version

\* "instead of replacing it with the much smaller llms.txt fallback": once calls
\* have had the complete index, no later call gets the smaller one.
NeverDowngraded ==
    \A c \in Callers :
        pc[c] = "done" /\ since[c].source = "json" => result[c].source = "json"

\* No load begins while the index is cached: what CheckAgain is for.
NoLoadOverCache == flight \in {"json", "txt", "failed", "set"} => cache = NoIndex

\* Every call returns, in an outage too.
CallsReturn == \A c \in Callers : pc[c] # "idle" ~> pc[c] = "idle"
=============================================================================
