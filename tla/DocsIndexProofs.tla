--------------------------- MODULE DocsIndexProofs --------------------------
(***************************************************************************)
(* The safety properties of DocsIndex, for any number of callers and loads. *)
(***************************************************************************)
EXTENDS DocsIndex, TLAPS

\* The index the next answer is to be at least as new as: the stale one, or the
\* one that is cached and about to be kept as the stale one.
Best == IF flight = "store" THEN loaded ELSE staleIndex

\* An index that another may replace: it is no newer, and not of a better source.
Superseded(index, by) ==
    /\ index.version <= by.version
    /\ index.source = "json" => by.source = "json"

\* What calls have, had when they began, and have returned.
ReadsSuperseded ==
    /\ Superseded(newest, Best)
    /\ \A c \in Callers : Superseded(result[c], Best) /\ Superseded(since[c], Best)

CacheIsBest == cache \in {NoIndex, Best}

\* What the flight holds at its stages; llms.txt is only loaded if it is no worse.
FlightHolds ==
    /\ flight = "answer" => loaded = staleIndex
    /\ flight \in {"set", "store"} =>
          /\ loaded \in Index /\ loaded.version = version
          /\ staleIndex.source = "json" => loaded.source = "json"
    /\ flight = "txt" => staleIndex.source # "json"
    /\ staleIndex.version <= version

IInv ==
    /\ TypeOK /\ NoLoadOverCache /\ CacheIsBest /\ FlightHolds /\ ReadsSuperseded
    /\ ReadsNeverGoBack /\ NeverDowngraded
-----------------------------------------------------------------------------
\* Indexes have a version that is a number, NoIndex the least.
LEMMA Versions ==
    /\ \A i \in Index \cup {NoIndex} : i.version \in Nat
    /\ NoIndex.version = 0 /\ NoIndex.source = "none"
    /\ NoIndex \notin Index
BY IndexAssumption DEF Index, NoIndex, Sources

LEMMA Initially == Init => IInv
<1> SUFFICES ASSUME Init PROVE IInv
  OBVIOUS
<1>1. TypeOK
  BY IndexAssumption DEF Init, TypeOK
<1>2. NoLoadOverCache /\ CacheIsBest /\ FlightHolds
  BY Versions DEF Init, NoLoadOverCache, CacheIsBest, FlightHolds, Best
<1>3. ReadsSuperseded
  BY Versions DEF Init, ReadsSuperseded, Superseded, Best
<1>4. ReadsNeverGoBack /\ NeverDowngraded
  BY DEF Init, ReadsNeverGoBack, NeverDowngraded
<1> QED BY <1>1, <1>2, <1>3, <1>4 DEF IInv

LEMMA StepsKeepTypes == TypeOK /\ [Next]_vars => TypeOK'
<1> SUFFICES ASSUME TypeOK, [Next]_vars PROVE TypeOK'
  OBVIOUS
<1> USE DEF TypeOK, shared, callers, goto
<1>1. ASSUME NEW c \in Callers, GetDocsIndex(c) \/ Join(c) \/ ReadStale(c)
      PROVE  TypeOK'
  BY <1>1 DEF GetDocsIndex, Join, ReadStale
<1>2. ASSUME NEW c \in Callers, PreferCached(c) \/ Return(c)
      PROVE  TypeOK'
  BY <1>2 DEF PreferCached, Return
<1>3. CASE CheckAgain \/ JSONFails \/ TxtFails \/ ServeStale \/ SetCache \/ StoreStale
  BY <1>3 DEF CheckAgain, JSONFails, TxtFails, ServeStale, SetCache, StoreStale
<1>4. CASE LoadJSON \/ LoadTxt
  BY <1>4, IndexAssumption DEF LoadJSON, LoadTxt, Obtain, Index, Sources
<1>5. CASE Answer
  BY <1>5 DEF Answer
<1>6. CASE Forget
  BY <1>6 DEF Forget
<1>7. CASE UNCHANGED vars
  BY <1>7 DEF vars
<1> QED BY <1>1, <1>2, <1>3, <1>4, <1>5, <1>6, <1>7 DEF Next, Flight, loadIndex

\* The part of the invariant that is about the flight and what is kept.
KeptInv == NoLoadOverCache /\ CacheIsBest /\ FlightHolds

LEMMA StepsKeepKept == TypeOK /\ KeptInv /\ [Next]_vars => KeptInv'
<1> SUFFICES ASSUME TypeOK, KeptInv, [Next]_vars PROVE KeptInv'
  OBVIOUS
<1> USE DEF KeptInv, NoLoadOverCache, CacheIsBest, FlightHolds, Best, shared, callers
<1>1. ASSUME NEW c \in Callers,
             GetDocsIndex(c) \/ Join(c) \/ ReadStale(c) \/ PreferCached(c) \/ Return(c)
      PROVE  KeptInv'
  BY <1>1 DEF GetDocsIndex, Join, ReadStale, PreferCached, Return
<1>2. CASE CheckAgain
  BY <1>2 DEF CheckAgain, CacheFilled
<1>3. CASE LoadJSON \/ LoadTxt
  <2>1. version \in Nat /\ version' = version + 1 /\ version' \in 1 .. MaxVersion
    BY <1>3, IndexAssumption DEF TypeOK, LoadJSON, LoadTxt, Obtain
  <2>2. loaded' \in Index /\ loaded'.version = version'
    BY <1>3, <2>1 DEF LoadJSON, LoadTxt, Obtain, Index, Sources
  <2>3. staleIndex.source = "json" => loaded'.source = "json"
    BY <1>3 DEF LoadJSON, LoadTxt, Obtain
  <2>4. staleIndex.version \in Nat
    BY Versions DEF TypeOK
  <2> QED BY <1>3, <2>1, <2>2, <2>3, <2>4 DEF LoadJSON, LoadTxt, Obtain
<1>4. CASE JSONFails
  BY <1>4 DEF JSONFails, KeepsStale
<1>5. CASE TxtFails
  BY <1>5 DEF TxtFails
<1>6. CASE ServeStale
  BY <1>6 DEF ServeStale
<1>7. CASE SetCache
  BY <1>7 DEF SetCache
<1>8. CASE StoreStale
  <2>1. version \in Nat
    BY IndexAssumption DEF TypeOK
  <2> QED BY <1>8, <2>1 DEF StoreStale
<1>9. CASE Answer
  BY <1>9 DEF Answer
<1>10. CASE Forget
  BY <1>10 DEF Forget
<1>11. CASE UNCHANGED vars
  BY <1>11 DEF vars
<1> QED BY <1>1, <1>2, <1>3, <1>4, <1>5, <1>6, <1>7, <1>8, <1>9, <1>10, <1>11
        DEF Next, Flight, loadIndex

\* What replaces the best index is no worse.
LEMMA BestGetsBetter ==
    ASSUME TypeOK, KeptInv, [Next]_vars,
           NEW i \in Index \cup {NoIndex}, Superseded(i, Best)
    PROVE  Superseded(i, Best')
<1> USE DEF Superseded, Best, shared
<1>1. CASE SetCache
  <2>1. /\ flight = "set" /\ flight' = "store" /\ loaded' = loaded
        /\ loaded.version = version /\ staleIndex.version <= version
        /\ staleIndex.source = "json" => loaded.source = "json"
    BY <1>1 DEF SetCache, KeptInv, FlightHolds
  <2>2. i.version \in Nat /\ staleIndex.version \in Nat /\ version \in Nat
    BY Versions, IndexAssumption DEF TypeOK
  <2> QED BY <2>1, <2>2
<1>2. CASE StoreStale
  BY <1>2 DEF StoreStale
<1>3. CASE ~SetCache /\ ~StoreStale
  <2>1. staleIndex' = staleIndex
    BY <1>3 DEF Next, GetDocsIndex, Join, ReadStale, PreferCached, Return, Flight,
       CheckAgain, loadIndex, LoadJSON, JSONFails, LoadTxt, TxtFails, Obtain, ServeStale,
       Answer, Forget, vars
  <2>2. (flight = "store" <=> flight' = "store") /\ (flight = "store" => loaded' = loaded)
    BY <1>3 DEF Next, GetDocsIndex, Join, ReadStale, PreferCached, Return, Flight,
       CheckAgain, loadIndex, LoadJSON, JSONFails, LoadTxt, TxtFails, Obtain, ServeStale,
       Answer, Forget, vars
  <2> QED BY <2>1, <2>2
<1> QED BY <1>1, <1>2, <1>3

\* Nothing that is kept is better than the best.
LEMMA KeptIsSuperseded ==
    ASSUME TypeOK, KeptInv
    PROVE  /\ Superseded(NoIndex, Best) /\ Superseded(staleIndex, Best)
           /\ Superseded(cache, Best)
           /\ flight = "answer" => Best = loaded
<1>1. Best.version \in Nat /\ staleIndex.version \in Nat /\ version \in Nat
  BY Versions, IndexAssumption DEF TypeOK, Best
<1>2. Superseded(NoIndex, Best)
  BY <1>1, Versions DEF Superseded
<1>3. Superseded(Best, Best)
  BY <1>1 DEF Superseded
<1>4. Superseded(staleIndex, Best)
  BY <1>1 DEF KeptInv, FlightHolds, Superseded, Best
<1> QED BY <1>2, <1>3, <1>4 DEF KeptInv, CacheIsBest, FlightHolds, Best

\* A call gets an index that is kept or that the flight has loaded.
LEMMA StepsKeepReads ==
    ASSUME TypeOK, KeptInv, ReadsSuperseded, [Next]_vars
    PROVE  ReadsSuperseded'
<1>1. /\ \A i \in {NoIndex, staleIndex, cache, newest} :
            i \in Index \cup {NoIndex} /\ Superseded(i, Best)
      /\ \A c \in Callers : \A i \in {result[c], since[c]} :
            i \in Index \cup {NoIndex} /\ Superseded(i, Best)
      /\ flight = "answer" => loaded \in Index \cup {NoIndex} /\ Superseded(loaded, Best)
  <2>1. Superseded(Best, Best)
    <3>1. Best.version \in Nat
      BY Versions DEF TypeOK, Best
    <3> QED BY <3>1 DEF Superseded
  <2> QED BY <2>1, KeptIsSuperseded DEF TypeOK, ReadsSuperseded
<1>2. newest' = newest \/ \E c \in Callers : newest' = result[c]
  BY DEF Next, GetDocsIndex, Join, ReadStale, PreferCached, Return, Flight,
     CheckAgain, loadIndex, LoadJSON, JSONFails, LoadTxt, TxtFails, Obtain, ServeStale,
     SetCache, StoreStale, Answer, Forget, vars, callers
<1>3. ASSUME NEW c \in Callers
      PROVE  /\ \/ result'[c] \in {result[c], NoIndex, staleIndex, cache}
                \/ flight = "answer" /\ result'[c] = loaded
             /\ since'[c] \in {since[c], NoIndex, newest}
  BY DEF Next, GetDocsIndex, Join, ReadStale, PreferCached, Return, Flight,
     CheckAgain, loadIndex, LoadJSON, JSONFails, LoadTxt, TxtFails, Obtain, ServeStale,
     SetCache, StoreStale, Answer, Forget, vars, callers, TypeOK
<1>4. ASSUME NEW c \in Callers
      PROVE  /\ result'[c] \in Index \cup {NoIndex} /\ Superseded(result'[c], Best)
             /\ since'[c] \in Index \cup {NoIndex} /\ Superseded(since'[c], Best)
  BY <1>1, <1>3
<1>5. newest' \in Index \cup {NoIndex} /\ Superseded(newest', Best)
  BY <1>1, <1>2
<1>6. \A i \in Index \cup {NoIndex} : Superseded(i, Best) => Superseded(i, Best')
  BY BestGetsBetter
<1> QED BY <1>4, <1>5, <1>6 DEF ReadsSuperseded

\* A call that begins has to reach what was newest then; it is answered with the best.
LEMMA StepsKeepOrder ==
    ASSUME TypeOK, KeptInv, ReadsSuperseded, ReadsNeverGoBack, NeverDowngraded, [Next]_vars
    PROVE  ReadsNeverGoBack' /\ NeverDowngraded'
<1>1. ASSUME NEW c \in Callers, pc'[c] = "done"
      PROVE  Superseded(since'[c], result'[c])
  <2>1. CASE pc[c] = "done" /\ result'[c] = result[c] /\ since'[c] = since[c]
    <3>1. result[c].version \in Nat /\ since[c].version \in Nat
      BY Versions DEF TypeOK
    <3> QED BY <2>1, <3>1 DEF Superseded, ReadsNeverGoBack, NeverDowngraded
  <2>2. CASE GetDocsIndex(c)
    <3>1. since'[c] = newest /\ result'[c] = cache /\ cache # NoIndex
      BY <1>1, <2>2 DEF GetDocsIndex, goto, TypeOK
    <3>2. cache = Best
      BY <3>1 DEF KeptInv, CacheIsBest
    <3> QED BY <3>1, <3>2 DEF ReadsSuperseded
  <2>3. CASE Answer /\ pc[c] = "waiting"
    <3>1. since'[c] = since[c] /\ result'[c] = loaded /\ flight = "answer"
      BY <2>3 DEF Answer
    <3> QED BY <3>1, KeptIsSuperseded DEF ReadsSuperseded
  <2> QED BY <1>1, <2>1, <2>2, <2>3 DEF Next, GetDocsIndex, Join, ReadStale, PreferCached,
     Return, goto, Flight, CheckAgain, loadIndex, LoadJSON, JSONFails, LoadTxt, TxtFails,
     Obtain, ServeStale, SetCache, StoreStale, Answer, Forget, vars, callers, TypeOK
<1>2. \A c \in Callers : result'[c].version \in Nat /\ since'[c].version \in Nat
  BY StepsKeepTypes, Versions DEF TypeOK
<1> QED BY <1>1, <1>2 DEF Superseded, ReadsNeverGoBack, NeverDowngraded
-----------------------------------------------------------------------------
\* The invariant holds of every run of the index cache.
THEOREM Invariant == Spec => []IInv
<1>1. IInv /\ [Next]_vars => IInv'
  <2> SUFFICES ASSUME IInv, [Next]_vars PROVE IInv'
    OBVIOUS
  <2>1. TypeOK'
    BY StepsKeepTypes DEF IInv
  <2>2. KeptInv'
    BY StepsKeepKept DEF IInv, KeptInv
  <2>3. ReadsSuperseded' /\ ReadsNeverGoBack' /\ NeverDowngraded'
    BY StepsKeepReads, StepsKeepOrder DEF IInv, KeptInv
  <2> QED BY <2>1, <2>2, <2>3 DEF IInv, KeptInv
<1> QED BY <1>1, Initially, PTL DEF Spec

\* The variables keep their types.
THEOREM TypeCorrect == Spec => []TypeOK
<1>1. IInv => TypeOK
  BY DEF IInv
<1> QED BY <1>1, Invariant, PTL

\* No call is answered with an index older than one a call had returned before it
\* began, whatever expires, is evicted or fails in between.
THEOREM ReadsGoForward == Spec => []ReadsNeverGoBack
<1>1. IInv => ReadsNeverGoBack
  BY DEF IInv
<1> QED BY <1>1, Invariant, PTL

\* Once calls have had the complete index, an outage never brings the smaller one.
THEOREM CompleteIndexIsKept == Spec => []NeverDowngraded
<1>1. IInv => NeverDowngraded
  BY DEF IInv
<1> QED BY <1>1, Invariant, PTL

\* Nothing is loaded while the index is cached.
THEOREM LoadsOnlyWhenMissing == Spec => []NoLoadOverCache
<1>1. IInv => NoLoadOverCache
  BY DEF IInv
<1> QED BY <1>1, Invariant, PTL
=============================================================================
