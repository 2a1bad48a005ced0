-------------------------- MODULE DocsCorpusProofs --------------------------
(***************************************************************************)
(* The safety properties of DocsCorpus, for any searches, shards and       *)
(* bounds.  First the loads, for which it is immaterial which shards a     *)
(* search wants; then the shards, and the searches that read them.         *)
(***************************************************************************)
EXTENDS DocsCorpus, FiniteSetTheorems, SequenceTheorems, WellFoundedInduction, TLAPS

Types ==
    /\ cache \in [Keys -> {"none", "value", "negative"}]
    /\ timeouts \in [Keys -> Nat]
    /\ slots \in 0 .. ShardConcurrency
    /\ flight \in [Keys -> {"none", "check", "slot", "load", "ending", "returned"}]
    /\ outcome \in [Keys -> BOOLEAN]
    /\ task \in [Queries -> [Keys -> Active \cup {"no"}]]

\* The loads that hold a slot.
Holding == {k \in Keys : flight[k] \in {"load", "ending"}}

SlotsHeld == IsFiniteSet(Holding) /\ slots = Cardinality(Holding)

\* Nothing is cached for a key while it is loaded: the flight looks again, and only
\* the load itself caches.
LoadsMissing == \A k \in Keys : flight[k] \in {"slot", "load"} => cache[k] = "none"

\* A success clears the count of stalls.
NoStallCounted == last \in {"none", "value"} => timeouts[Watched] = 0

IInv == Types /\ SlotsHeld /\ NoLostWaiter /\ LoadsMissing /\ NoStallCounted
-----------------------------------------------------------------------------
LEMMA Initially == Init => IInv
<1> SUFFICES ASSUME Init PROVE IInv
  OBVIOUS
<1>1. Types
  BY CorpusAssumption DEF Init, Types, Active
<1>2. SlotsHeld
  <2>1. Holding = {}
    BY DEF Init, Holding
  <2> QED BY <2>1, FS_EmptySet DEF Init, SlotsHeld
<1>3. NoLostWaiter /\ LoadsMissing /\ NoStallCounted
  BY CorpusAssumption DEF Init, NoLostWaiter, LoadsMissing, NoStallCounted, Keys
<1> QED BY <1>1, <1>2, <1>3 DEF IInv

\* A search moves on, and begins to wait only when it joins a load.
SearchStep(q) ==
    \/ ContentExcerpts(q) \/ Cancel(q)
    \/ \E k \in Keys :
          \/ CallsTooLate(q, k) \/ HitsCache(q, k) \/ MissesCache(q, k)
          \/ Receives(q, k) \/ Leaves(q, k)

LEMMA SearchSteps ==
    ASSUME Types, NEW q \in Queries, SearchStep(q)
    PROVE  /\ UNCHANGED loads
           /\ task' \in [Queries -> [Keys -> Active \cup {"no"}]]
           /\ \A r \in Queries, k \in Keys :
                 task'[r][k] = "waiting" => task[r][k] = "waiting"
<1>1. ASSUME NEW pages, Begin(q, pages)
      PROVE  /\ UNCHANGED loads
             /\ task' = [task EXCEPT ![q][Manifest] = "start"]
  BY <1>1 DEF Begin
<1>2. CASE NextShard(q) \/ Cancel(q)
  BY <1>2 DEF NextShard, Cancel, Types
<1>3. CASE StartWorker(q)
  BY <1>3 DEF StartWorker, Types, Active
<1>4. CASE Finish(q)
  BY <1>4 DEF Finish, Types, Active
<1>5. ASSUME NEW k \in Keys,
             CallsTooLate(q, k) \/ HitsCache(q, k) \/ Receives(q, k) \/ Leaves(q, k)
      PROVE  UNCHANGED loads /\ task' = [task EXCEPT ![q][k] = "no"]
  BY <1>5 DEF CallsTooLate, HitsCache, Receives, Leaves, Gets
<1>6. ASSUME NEW k \in Keys, MissesCache(q, k)
      PROVE  UNCHANGED loads /\ task' = [task EXCEPT ![q][k] = "missed"]
  BY <1>6 DEF MissesCache
<1> QED BY <1>1, <1>2, <1>3, <1>4, <1>5, <1>6 DEF SearchStep, ContentExcerpts, Types, Active

\* The steps, by what they do to the loads.
LEMMA Steps ==
    ASSUME Next
    PROVE  \/ \E q \in Queries : SearchStep(q)
           \/ \E q \in Queries, k \in Keys : Joins(q, k)
           \/ \E k \in Keys : SharedLoad(k) \/ Deadline(k) \/ Forget(k)
BY DEF Next, SearchStep, corpusValue

LEMMA JoinKeepsInvariant ==
    ASSUME IInv, NEW q \in Queries, NEW k \in Keys, Joins(q, k)
    PROVE  IInv'
<1>1. /\ task' = [task EXCEPT ![q][k] = "waiting"]
      /\ flight' = [flight EXCEPT ![k] = IF @ = "none" THEN "check" ELSE @]
      /\ cache' = cache /\ timeouts' = timeouts /\ slots' = slots
      /\ outcome' = outcome /\ last' = last
  BY DEF Joins
<1>2. Types'
  BY <1>1 DEF IInv, Types, Active
<1>3. SlotsHeld'
  <2>1. Holding' = Holding
    BY <1>1 DEF IInv, Types, Holding
  <2> QED BY <1>1, <2>1 DEF IInv, SlotsHeld
<1>4. NoLostWaiter'
  BY <1>1 DEF IInv, Types, NoLostWaiter
<1>5. LoadsMissing' /\ NoStallCounted'
  BY <1>1 DEF IInv, Types, LoadsMissing, NoStallCounted
<1> QED BY <1>2, <1>3, <1>4, <1>5 DEF IInv

\* A load takes the slot it waits for and, however it ends, gives it back.
LEMMA LoadKeepsSlots ==
    ASSUME Types, SlotsHeld, NEW k \in Keys, SharedLoad(k) \/ Deadline(k) \/ Forget(k)
    PROVE  SlotsHeld' /\ slots' \in 0 .. ShardConcurrency
<1>1. CASE TakesSlot(k)
  <2>1. k \notin Holding /\ Holding' = Holding \cup {k}
    BY <1>1 DEF TakesSlot, goto, Holding, Types
  <2>2. IsFiniteSet(Holding \cup {k}) /\ Cardinality(Holding \cup {k}) = Cardinality(Holding) + 1
    BY <2>1, FS_AddElement DEF SlotsHeld
  <2> QED BY <1>1, <2>1, <2>2, CorpusAssumption DEF TakesSlot, SlotsHeld, Types
<1>2. CASE FreesSlot(k)
  <2>1. k \in Holding /\ Holding' = Holding \ {k}
    BY <1>2 DEF FreesSlot, goto, Holding, Types
  <2>2. IsFiniteSet(Holding \ {k}) /\ Cardinality(Holding \ {k}) = Cardinality(Holding) - 1
    BY <2>1, FS_RemoveElement DEF SlotsHeld
  <2>3. Cardinality(Holding \ {k}) \in Nat
    BY <2>2, FS_CardinalityType
  <2>4. slots' = Cardinality(Holding)' /\ slots' = slots - 1
    BY <1>2, <2>1, <2>2 DEF FreesSlot, SlotsHeld
  <2>5. slots' \in Nat
    BY <2>1, <2>3, <2>4
  <2> QED BY <2>1, <2>2, <2>4, <2>5, CorpusAssumption DEF SlotsHeld, Types
<1>3. CASE ~TakesSlot(k) /\ ~FreesSlot(k)
  <2>1. slots' = slots
    BY <1>3 DEF SharedLoad, load, ChecksAgain, WantsSlot, SlotWaitTimesOut, Loaded, LoadFails,
       LoadTimesOut, Answers, Deadline, Forget
  <2>2. \/ flight' = flight
        \/ /\ flight[k] \notin {"load", "ending"}
           /\ \/ flight' = [flight EXCEPT ![k] = "none"]
              \/ flight' = [flight EXCEPT ![k] = "slot"]
              \/ flight' = [flight EXCEPT ![k] = "returned"]
        \/ flight[k] = "load" /\ flight' = [flight EXCEPT ![k] = "ending"]
    BY <1>3 DEF SharedLoad, load, ChecksAgain, WantsSlot, SlotWaitTimesOut, Loaded, LoadFails,
       LoadTimesOut, Answers, Deadline, Forget, goto
  <2>3. Holding' = Holding
    BY <2>2 DEF Holding, Types
  <2> QED BY <2>1, <2>3 DEF SlotsHeld, Types
<1> QED BY <1>1, <1>2, <1>3

LEMMA LoadKeepsTypes ==
    ASSUME Types, SlotsHeld, NEW k \in Keys, SharedLoad(k) \/ Deadline(k) \/ Forget(k)
    PROVE  Types'
<1>0. slots' \in 0 .. ShardConcurrency
  BY LoadKeepsSlots
<1> USE <1>0 DEF Types, goto, outsideLoad, searches
<1>1. CASE ChecksAgain(k) \/ WantsSlot(k) \/ TakesSlot(k) \/ SlotWaitTimesOut(k) \/ FreesSlot(k)
  <2>1. /\ cache' = cache /\ timeouts' = timeouts /\ task' = task
        /\ \/ outcome' = outcome
           \/ \E b \in BOOLEAN : outcome' = [outcome EXCEPT ![k] = b]
    BY <1>1 DEF ChecksAgain, WantsSlot, TakesSlot, SlotWaitTimesOut, FreesSlot
  <2>2. \E stage \in {"slot", "load", "returned"} : flight' = [flight EXCEPT ![k] = stage]
    BY <1>1 DEF ChecksAgain, WantsSlot, TakesSlot, SlotWaitTimesOut, FreesSlot
  <2> QED BY <2>1, <2>2
<1>2. CASE load(k)
  <2>1. /\ \/ timeouts' = timeouts
           \/ \E n \in Nat : timeouts' = [timeouts EXCEPT ![k] = n]
        /\ \/ cache' = cache
           \/ \E entry \in {"value", "negative"} : cache' = [cache EXCEPT ![k] = entry]
    BY <1>2 DEF load, Loaded, LoadFails, LoadTimesOut, clearTimeouts
  <2>2. /\ \E b \in BOOLEAN : outcome' = [outcome EXCEPT ![k] = b]
        /\ flight' = [flight EXCEPT ![k] = "ending"] /\ task' = task
    BY <1>2 DEF load, Loaded, LoadFails, LoadTimesOut
  <2> QED BY <2>1, <2>2
<1>3. CASE Answers(k)
  <2>1. /\ cache' = cache /\ timeouts' = timeouts
        /\ outcome' = [outcome EXCEPT ![k] = FALSE]
        /\ flight' = [flight EXCEPT ![k] = "none"]
        /\ task' = [q \in Queries |->
                IF task[q][k] # "waiting" THEN task[q]
                ELSE [task[q] EXCEPT ![k] = IF outcome[k] THEN "gotValue" ELSE "gotNothing"]]
    BY <1>3 DEF Answers
  <2>2. ASSUME NEW q \in Queries
        PROVE  task'[q] \in [Keys -> Active \cup {"no"}]
    BY <2>1 DEF Active
  <2>3. task' \in [Queries -> [Keys -> Active \cup {"no"}]]
    BY <2>1, <2>2
  <2> QED BY <2>1, <2>3
<1>4. CASE Deadline(k) \/ Forget(k)
  BY <1>4 DEF Deadline, Forget
<1> QED BY <1>1, <1>2, <1>3, <1>4 DEF SharedLoad

\* A load answers all who wait for it when it goes.
LEMMA LoadKeepsWaiters ==
    ASSUME Types, NoLostWaiter, NEW k \in Keys, SharedLoad(k) \/ Deadline(k) \/ Forget(k)
    PROVE  NoLostWaiter'
<1>1. CASE Answers(k)
  <2>1. /\ flight' = [flight EXCEPT ![k] = "none"]
        /\ \A q \in Queries : task'[q] =
              IF task[q][k] # "waiting" THEN task[q]
              ELSE [task[q] EXCEPT ![k] = IF outcome[k] THEN "gotValue" ELSE "gotNothing"]
    BY <1>1 DEF Answers, goto
  <2>2. ASSUME NEW q \in Queries, NEW j \in Keys, task'[q][j] = "waiting"
        PROVE  j # k /\ task[q][j] = "waiting"
    <3>1. CASE task[q][k] # "waiting"
      BY <2>1, <2>2, <3>1
    <3>2. CASE task[q][k] = "waiting"
      <4>1. /\ task[q] \in [Keys -> Active \cup {"no"}]
            /\ \E end \in {"gotValue", "gotNothing"} : task'[q] = [task[q] EXCEPT ![k] = end]
        BY <2>1, <3>2 DEF Types
      <4> QED BY <2>2, <4>1
    <3> QED BY <3>1, <3>2
  <2> QED BY <2>1, <2>2 DEF NoLostWaiter, Types
<1>2. CASE ~Answers(k)
  <2>1. task' = task
    BY <1>2 DEF SharedLoad, load, ChecksAgain, WantsSlot, TakesSlot, SlotWaitTimesOut, Loaded,
       LoadFails, LoadTimesOut, FreesSlot, Deadline, Forget, outsideLoad
  <2>2. flight' = flight \/ \E stage \in {"slot", "load", "ending", "returned"} :
                               flight' = [flight EXCEPT ![k] = stage]
    BY <1>2 DEF SharedLoad, load, ChecksAgain, WantsSlot, TakesSlot, SlotWaitTimesOut, Loaded,
       LoadFails, LoadTimesOut, FreesSlot, Deadline, Forget, goto
  <2> QED BY <2>1, <2>2 DEF NoLostWaiter, Types
<1> QED BY <1>1, <1>2

LEMMA LoadKeepsMissing ==
    ASSUME Types, LoadsMissing, NEW k \in Keys, SharedLoad(k) \/ Deadline(k) \/ Forget(k)
    PROVE  LoadsMissing'
<1> USE DEF Types, LoadsMissing, goto
<1>1. CASE ChecksAgain(k) \/ WantsSlot(k) \/ TakesSlot(k) \/ SlotWaitTimesOut(k) \/ FreesSlot(k)
  BY <1>1 DEF ChecksAgain, WantsSlot, TakesSlot, SlotWaitTimesOut, FreesSlot
<1>2. CASE Loaded(k) \/ LoadFails(k) \/ LoadTimesOut(k)
  BY <1>2 DEF Loaded, LoadFails, LoadTimesOut
<1>3. CASE Answers(k) \/ Deadline(k) \/ Forget(k)
  BY <1>3 DEF Answers, Deadline, Forget
<1> QED BY <1>1, <1>2, <1>3 DEF SharedLoad, load

LEMMA LoadKeepsCount ==
    ASSUME Types, NoStallCounted, NEW k \in Keys, SharedLoad(k) \/ Deadline(k) \/ Forget(k)
    PROVE  NoStallCounted'
<1> USE DEF Types, NoStallCounted
<1>0. Watched \in Keys
  BY CorpusAssumption DEF Keys
<1>1. CASE Loaded(k)
  BY <1>0, <1>1 DEF Loaded, clearTimeouts, Notes
<1>2. CASE LoadFails(k)
  BY <1>0, <1>2 DEF LoadFails, Notes
<1>3. CASE LoadTimesOut(k)
  BY <1>0, <1>3 DEF LoadTimesOut, Notes
<1>4. CASE ~load(k)
  BY <1>4 DEF SharedLoad, load, ChecksAgain, WantsSlot, TakesSlot, SlotWaitTimesOut, FreesSlot,
     Answers, Deadline, Forget
<1> QED BY <1>1, <1>2, <1>3, <1>4 DEF load

LEMMA InvariantIsInductive == IInv /\ [Next]_vars => IInv'
<1> SUFFICES ASSUME IInv, [Next]_vars PROVE IInv'
  OBVIOUS
<1>1. ASSUME NEW q \in Queries, SearchStep(q)
      PROVE  IInv'
  <2>1. /\ cache' = cache /\ timeouts' = timeouts /\ slots' = slots /\ flight' = flight
        /\ outcome' = outcome /\ last' = last
        /\ task' \in [Queries -> [Keys -> Active \cup {"no"}]]
        /\ \A r \in Queries, k \in Keys : task'[r][k] = "waiting" => task[r][k] = "waiting"
    BY <1>1, SearchSteps DEF IInv, loads
  <2> QED BY <2>1 DEF IInv, Types, SlotsHeld, Holding, NoLostWaiter, LoadsMissing,
          NoStallCounted
<1>2. ASSUME NEW q \in Queries, NEW k \in Keys, Joins(q, k)
      PROVE  IInv'
  BY <1>2, JoinKeepsInvariant
<1>3. ASSUME NEW k \in Keys, SharedLoad(k) \/ Deadline(k) \/ Forget(k)
      PROVE  IInv'
  BY <1>3, LoadKeepsTypes, LoadKeepsSlots, LoadKeepsWaiters, LoadKeepsMissing, LoadKeepsCount
     DEF IInv
<1>4. CASE UNCHANGED vars
  BY <1>4 DEF vars, loads, IInv, Types, SlotsHeld, Holding, NoLostWaiter, LoadsMissing,
     NoStallCounted
<1> QED BY <1>1, <1>2, <1>3, <1>4, Steps

\* The invariant holds of every run of the corpus.
THEOREM Invariant == Spec => []IInv
BY Initially, InvariantIsInductive, PTL DEF Spec

\* The slots that are taken are those of the loads at work, and no more than there are:
\* no failure, timeout or departing search leaks one.
THEOREM SlotsAreNotLeaked == Spec => [](SlotsAccountedFor /\ slots <= ShardConcurrency)
<1>1. IInv => SlotsAccountedFor /\ slots <= ShardConcurrency
  BY CorpusAssumption DEF IInv, SlotsHeld, Holding, SlotsAccountedFor, Types
<1> QED BY <1>1, Invariant, PTL

\* A search that waits waits for a load that is still to answer it.
THEOREM WaitersAreAnswered == Spec => []NoLostWaiter
<1>1. IInv => NoLostWaiter
  BY DEF IInv
<1> QED BY <1>1, Invariant, PTL

\* A value in the cache is never replaced by a failure.
THEOREM ValuesStay == Spec => ValueNeverReplacedByFailure
<1> DEFINE Stays == \A k \in Keys : cache[k] = "value" => cache'[k] # "negative"
<1>1. IInv /\ [Next]_vars => [Stays]_vars
  <2> SUFFICES ASSUME IInv, Next, NEW k \in Keys, cache[k] = "value"
               PROVE  cache'[k] # "negative"
    OBVIOUS
  <2>1. CASE \E q \in Queries : SearchStep(q) \/ \E j \in Keys : Joins(q, j)
    BY <2>1, SearchSteps DEF IInv, Joins, loads
  <2>2. ASSUME NEW j \in Keys, SharedLoad(j) \/ Deadline(j) \/ Forget(j)
        PROVE  cache'[k] # "negative"
    <3>1. flight[k] # "load"
      BY DEF IInv, LoadsMissing
    <3>2. CASE load(j)
      BY <3>1, <3>2 DEF load, Loaded, LoadFails, LoadTimesOut, IInv, Types
    <3>3. CASE ~load(j)
      BY <2>2, <3>3 DEF SharedLoad, ChecksAgain, WantsSlot, TakesSlot, SlotWaitTimesOut,
         FreesSlot, Answers, Deadline, Forget, IInv, Types
    <3> QED BY <3>2, <3>3
  <2> QED BY <2>1, <2>2, Steps
<1> QED BY <1>1, Invariant, PTL DEF Spec, ValueNeverReplacedByFailure

\* If more than one stall is needed, the first after a load that had a value is not
\* negative-cached.
THEOREM OneStallIsForgiven ==
    ASSUME MaxConsecutiveTimeouts > 1
    PROVE  Spec => StallForgiven
<1> DEFINE Forgiven == GivenUp(Watched) => last \notin {"none", "value"}
<1>1. IInv /\ [Next]_vars => [Forgiven]_vars
  <2> SUFFICES ASSUME IInv, Next, GivenUp(Watched), last \in {"none", "value"}
               PROVE  FALSE
    OBVIOUS
  <2>1. /\ Watched \in Keys /\ timeouts[Watched] = 0
        /\ flight[Watched] = "load" /\ late[Watched]
        /\ cache'[Watched] # cache[Watched] /\ cache'[Watched] = "negative"
    BY CorpusAssumption DEF IInv, NoStallCounted, GivenUp, Keys
  <2>2. CASE \E q \in Queries : SearchStep(q) \/ \E j \in Keys : Joins(q, j)
    BY <2>1, <2>2, SearchSteps DEF IInv, Joins, loads
  <2>3. ASSUME NEW j \in Keys, SharedLoad(j) \/ Deadline(j) \/ Forget(j)
        PROVE  FALSE
    <3>1. CASE load(j)
      <4>1. ~(timeouts[Watched] + 1 < MaxConsecutiveTimeouts)
        BY <2>1, <3>1 DEF load, Loaded, LoadFails, LoadTimesOut, IInv, Types
      <4> QED BY <2>1, <4>1, CorpusAssumption
    <3>2. CASE ~load(j)
      BY <2>1, <2>3, <3>2 DEF SharedLoad, ChecksAgain, WantsSlot, TakesSlot, SlotWaitTimesOut,
         FreesSlot, Answers, Deadline, Forget, IInv, Types
    <3> QED BY <3>1, <3>2
  <2> QED BY <2>2, <2>3, Steps
<1> QED BY <1>1, Invariant, PTL DEF Spec, StallForgiven
-----------------------------------------------------------------------------
(* groupByShard, by induction on the results.                              *)

\* The order of the natural numbers, as a relation.
NatLess == {p \in Nat \X Nat : p[1] < p[2]}

\* The natural numbers are well founded.
LEMMA NatIsWellFounded == IsWellFoundedOn(NatLess, Nat)
BY NatLessThanWellFounded DEF OpToRel, NatLess

\* Every set of natural numbers that is not empty has a least member.
LEMMA LeastNumber ==
    ASSUME NEW T, T \subseteq Nat, T # {}
    PROVE  \E n \in T : \A m \in T : n <= m
<1>1. PICK n \in T : \A m \in T : <<m, n>> \notin NatLess
  BY WFMin, NatIsWellFounded
<1>2. ASSUME NEW m \in T, m < n
      PROVE  FALSE
  <2>1. <<m, n>> \in Nat \X Nat /\ <<m, n>>[1] = m /\ <<m, n>>[2] = n
    BY <1>2
  <2> QED BY <1>1, <1>2, <2>1 DEF NatLess
<1> QED BY <1>2

\* Induction, over a set in place of a predicate: the form the provers can
\* instantiate.
LEMMA Induction ==
    ASSUME NEW T, 0 \in T, \A n \in Nat : n \in T => n + 1 \in T
    PROVE  Nat \subseteq T
<1> SUFFICES ASSUME Nat \ T # {} PROVE FALSE
  OBVIOUS
<1>1. PICK n \in Nat \ T : \A m \in Nat \ T : n <= m
  BY LeastNumber
<1>2. n - 1 \in Nat /\ n - 1 \in T
  BY <1>1
<1> QED BY <1>1, <1>2

\* No member of s is there twice.
Distinct(s) == \A i, j \in 1 .. Len(s) : s[i] = s[j] => i = j

\* The members of a sequence and of one with a member more.
LEMMA MembersOfAppend ==
    ASSUME NEW A, NEW s \in Seq(A), NEW x \in A
    PROVE  ToSet(Append(s, x)) = ToSet(s) \cup {x}
<1>1. /\ Len(s) \in Nat /\ DOMAIN s = 1 .. Len(s)
      /\ Append(s, x) \in Seq(A) /\ Len(Append(s, x)) = Len(s) + 1
      /\ DOMAIN Append(s, x) = 1 .. Len(s) + 1
      /\ \A i \in 1 .. Len(s) : Append(s, x)[i] = s[i]
      /\ Append(s, x)[Len(s) + 1] = x
  BY AppendProperties, LenProperties
<1>2. ASSUME NEW y \in ToSet(Append(s, x)) PROVE y \in ToSet(s) \cup {x}
  BY <1>1, <1>2 DEF ToSet
<1>3. ASSUME NEW y \in ToSet(s) \cup {x} PROVE y \in ToSet(Append(s, x))
  <2>1. CASE y = x
    BY <1>1, <2>1 DEF ToSet
  <2>2. CASE y \in ToSet(s)
    <3>1. PICK i \in 1 .. Len(s) : y = s[i]
      BY <1>1, <2>2 DEF ToSet
    <3>2. i \in 1 .. Len(s) + 1 /\ y = Append(s, x)[i]
      BY <1>1, <3>1
    <3> QED BY <1>1, <3>2 DEF ToSet
  <2> QED BY <1>3, <2>1, <2>2
<1> QED BY <1>2, <1>3

\* The members of a sequence, by their positions.
LEMMA MembersOfSeq ==
    ASSUME NEW A, NEW s \in Seq(A)
    PROVE  /\ ToSet(s) \subseteq A
           /\ \A i \in 1 .. Len(s) : s[i] \in ToSet(s)
           /\ \A x \in ToSet(s) : \E i \in 1 .. Len(s) : x = s[i]
BY LenProperties, ElementOfSeq DEF ToSet

\* A new member keeps a sequence distinct, and only a new one.
LEMMA DistinctAppend ==
    ASSUME NEW A, NEW s \in Seq(A), NEW x \in A
    PROVE  Distinct(Append(s, x)) <=> (Distinct(s) /\ x \notin ToSet(s))
<1>1. /\ Len(s) \in Nat /\ Len(Append(s, x)) = Len(s) + 1
      /\ \A i \in 1 .. Len(s) : Append(s, x)[i] = s[i]
      /\ Append(s, x)[Len(s) + 1] = x
  BY AppendProperties, LenProperties
<1>2. /\ \A i \in 1 .. Len(s) : s[i] \in ToSet(s)
      /\ \A y \in ToSet(s) : \E i \in 1 .. Len(s) : y = s[i]
  BY MembersOfSeq
<1> QED BY <1>1, <1>2 DEF Distinct

\* What is left of a distinct sequence without its head.
LEMMA MembersOfTail ==
    ASSUME NEW A, NEW s \in Seq(A), s # <<>>, Distinct(s)
    PROVE  /\ Head(s) \in A /\ Head(s) \in ToSet(s)
           /\ Tail(s) \in Seq(A) /\ Len(Tail(s)) = Len(s) - 1
           /\ Distinct(Tail(s)) /\ ToSet(Tail(s)) = ToSet(s) \ {Head(s)}
<1> DEFINE t == Tail(s)
<1>1. Len(s) \in Nat \ {0} /\ Head(s) = s[1] /\ Head(s) \in A
  BY EmptySeq, HeadTailProperties
<1>2. t \in Seq(A) /\ Len(t) = Len(s) - 1 /\ \A i \in 1 .. Len(t) : t[i] = s[i + 1]
  BY HeadTailProperties
<1> HIDE DEF t
<1>3. /\ \A i \in 1 .. Len(s) : s[i] \in ToSet(s)
      /\ \A x \in ToSet(s) : \E i \in 1 .. Len(s) : x = s[i]
      /\ \A i \in 1 .. Len(t) : t[i] \in ToSet(t)
      /\ \A x \in ToSet(t) : \E i \in 1 .. Len(t) : x = t[i]
  BY <1>2, MembersOfSeq
<1>4. Distinct(t)
  <2> SUFFICES ASSUME NEW i \in 1 .. Len(t), NEW j \in 1 .. Len(t), t[i] = t[j] PROVE i = j
    BY DEF Distinct
  <2>1. i + 1 \in 1 .. Len(s) /\ j + 1 \in 1 .. Len(s) /\ s[i + 1] = s[j + 1]
    BY <1>1, <1>2
  <2>2. i + 1 = j + 1
    BY <2>1 DEF Distinct
  <2> QED BY <2>2
<1>5. ASSUME NEW x \in ToSet(t)
      PROVE  x \in ToSet(s) \ {Head(s)}
  <2>1. PICK i \in 1 .. Len(t) : x = t[i]
    BY <1>3
  <2>2. i + 1 \in 1 .. Len(s) /\ x = s[i + 1] /\ 1 \in 1 .. Len(s) /\ i + 1 # 1
    BY <1>1, <1>2, <2>1
  <2>3. s[i + 1] # s[1]
    BY <2>2 DEF Distinct
  <2> QED BY <1>1, <1>3, <2>2, <2>3
<1>6. ASSUME NEW x \in ToSet(s) \ {Head(s)}
      PROVE  x \in ToSet(t)
  <2>1. PICK i \in 1 .. Len(s) : x = s[i]
    BY <1>3
  <2>2. i # 1
    BY <1>1, <1>6, <2>1
  <2>3. i - 1 \in 1 .. Len(t) /\ (i - 1) + 1 = i
    BY <1>1, <1>2, <2>2
  <2> QED BY <1>2, <1>3, <2>1, <2>3
<1>7. Head(s) \in ToSet(s)
  BY <1>1, <1>3
<1> QED BY <1>1, <1>2, <1>4, <1>5, <1>6, <1>7 DEF t

\* What groupByShard has chosen, with one result more.
Adds(chosen, shard) ==
    IF shard = NoShard \/ shard \in ToSet(chosen) \/ Len(chosen) = MaxShardsPerQuery
    THEN chosen ELSE Append(chosen, shard)

\* chosen[n] is what groupByShard has chosen of the first n results.
Chooses(chosen, pages, m) ==
    chosen = [n \in 0 .. m |-> IF n = 0 THEN <<>> ELSE Adds(chosen[n - 1], pages[n])]

LEMMA ChoosesExists ==
    ASSUME NEW pages, NEW m \in Nat
    PROVE  \E chosen : Chooses(chosen, pages, m)
<1> DEFINE T == {n \in Nat : \E chosen : Chooses(chosen, pages, n)}
<1>1. 0 \in T
  <2>1. Chooses([n \in 0 .. 0 |-> <<>>], pages, 0)
    BY DEF Chooses
  <2> QED BY <2>1
<1>2. ASSUME NEW n \in Nat, n \in T
      PROVE  n + 1 \in T
  <2>1. PICK g : Chooses(g, pages, n)
    BY <1>2
  <2> DEFINE h == [i \in 0 .. n + 1 |-> IF i = n + 1 THEN Adds(g[n], pages[n + 1]) ELSE g[i]]
  <2>2. ASSUME NEW i \in 0 .. n + 1
        PROVE  h[i] = IF i = 0 THEN <<>> ELSE Adds(h[i - 1], pages[i])
    <3>1. CASE i = n + 1
      BY <3>1
    <3>2. CASE i # n + 1
      <4>1. i \in 0 .. n
        BY <3>2
      <4>2. h[i] = g[i] /\ (i # 0 => h[i - 1] = g[i - 1])
        BY <4>1
      <4>3. g[i] = IF i = 0 THEN <<>> ELSE Adds(g[i - 1], pages[i])
        BY <2>1, <4>1 DEF Chooses
      <4> QED BY <4>2, <4>3
    <3> QED BY <3>1, <3>2
  <2>3. Chooses(h, pages, n + 1)
    BY <2>2 DEF Chooses
  <2> QED BY <2>3
<1> HIDE DEF T
<1>3. Nat \subseteq T
  BY <1>1, <1>2, Induction
<1> QED BY <1>3 DEF T

LEMMA GroupIsChosen ==
    ASSUME NEW pages, Len(pages) \in Nat
    PROVE  \E chosen : Chooses(chosen, pages, Len(pages))
                       /\ groupByShard(pages) = chosen[Len(pages)]
<1> DEFINE chosen == CHOOSE g : Chooses(g, pages, Len(pages))
<1>1. Chooses(chosen, pages, Len(pages))
  BY ChoosesExists
<1>2. groupByShard(pages) = chosen[Len(pages)]
  BY DEF groupByShard, Chooses, Adds
<1> QED BY <1>1, <1>2

\* The shards of the first n results: each once, no more than there may be, and a
\* shard is left out only for as many that were all wanted before it.
FirstShards(chosen, pages, n) ==
    /\ chosen \in Seq(Shards) /\ Distinct(chosen)
    /\ Len(chosen) <= MaxShardsPerQuery
    /\ \A s \in ToSet(chosen) : \E i \in 1 .. n : pages[i] = s
    /\ \A i \in 1 .. n :
          pages[i] # NoShard /\ pages[i] \notin ToSet(chosen) =>
              /\ Len(chosen) = MaxShardsPerQuery
              /\ \A s \in ToSet(chosen) : \E j \in 1 .. i - 1 : pages[j] = s

LEMMA AddsNext ==
    ASSUME NEW pages \in Seq(Shards \cup {NoShard}), NEW n \in Nat, n + 1 <= Len(pages),
           NEW chosen, FirstShards(chosen, pages, n)
    PROVE  FirstShards(Adds(chosen, pages[n + 1]), pages, n + 1)
<1> DEFINE p == pages[n + 1]
<1>1. p \in Shards \cup {NoShard}
  <2>1. n + 1 \in 1 .. Len(pages)
    BY LenProperties
  <2> QED BY <2>1, ElementOfSeq
<1>2. Len(chosen) \in Nat
  BY LenProperties DEF FirstShards
<1>3. 1 .. n + 1 = (1 .. n) \cup {n + 1} /\ (n + 1) - 1 = n
  OBVIOUS
<1>4. CASE p = NoShard \/ p \in ToSet(chosen) \/ Len(chosen) = MaxShardsPerQuery
  <2>1. Adds(chosen, p) = chosen
    BY <1>4 DEF Adds
  <2>2. ASSUME NEW i \in 1 .. n + 1, pages[i] # NoShard, pages[i] \notin ToSet(chosen)
        PROVE  /\ Len(chosen) = MaxShardsPerQuery
               /\ \A s \in ToSet(chosen) : \E j \in 1 .. i - 1 : pages[j] = s
    BY <1>3, <1>4, <2>2 DEF FirstShards
  <2>3. \A s \in ToSet(chosen) : \E i \in 1 .. n + 1 : pages[i] = s
    BY <1>3 DEF FirstShards
  <2> QED BY <2>1, <2>2, <2>3 DEF FirstShards
<1>5. CASE ~(p = NoShard \/ p \in ToSet(chosen) \/ Len(chosen) = MaxShardsPerQuery)
  <2> DEFINE c == Append(chosen, p)
  <2>1. Adds(chosen, p) = c /\ p \in Shards
    BY <1>1, <1>5 DEF Adds
  <2>2. c \in Seq(Shards) /\ Len(c) = Len(chosen) + 1
    BY <2>1, AppendProperties DEF FirstShards
  <2>3. ToSet(c) = ToSet(chosen) \cup {p} /\ Distinct(c)
    BY <1>5, <2>1, MembersOfAppend, DistinctAppend DEF FirstShards
  <2> HIDE DEF c
  <2>4. Len(c) <= MaxShardsPerQuery
    BY <1>2, <1>5, <2>2, CorpusAssumption DEF FirstShards
  <2>5. \A s \in ToSet(c) : \E i \in 1 .. n + 1 : pages[i] = s
    BY <1>3, <2>3 DEF FirstShards
  <2>6. \A i \in 1 .. n + 1 : pages[i] # NoShard => pages[i] \in ToSet(c)
    BY <1>3, <1>5, <2>3 DEF FirstShards
  <2> QED BY <2>1, <2>2, <2>3, <2>4, <2>5, <2>6 DEF FirstShards
<1> QED BY <1>4, <1>5

\* "So the highest-ranked results are scheduled first": a search reads the shards its
\* results name, each once and no more than MaxShardsPerQuery, and a result's shard is
\* left out only when as many others were all named by results ranked above it.
THEOREM HighestRankedFirst ==
    ASSUME NEW pages \in Seq(Shards \cup {NoShard})
    PROVE  FirstShards(groupByShard(pages), pages, Len(pages))
<1>1. Len(pages) \in Nat
  BY LenProperties
<1>2. PICK chosen : Chooses(chosen, pages, Len(pages))
                    /\ groupByShard(pages) = chosen[Len(pages)]
  BY <1>1, GroupIsChosen
<1> DEFINE T == {n \in Nat : n <= Len(pages) => FirstShards(chosen[n], pages, n)}
<1>3. 0 \in T
  <2>1. chosen[0] = <<>>
    BY <1>1, <1>2 DEF Chooses
  <2>2. /\ <<>> \in Seq(Shards) /\ Len(<<>>) = 0 /\ ToSet(<<>>) = {} /\ Distinct(<<>>)
    BY EmptySeq, LenProperties DEF ToSet, Distinct
  <2>3. 0 <= MaxShardsPerQuery /\ 1 .. 0 = {}
    BY CorpusAssumption
  <2>4. FirstShards(<<>>, pages, 0)
    BY <2>2, <2>3, Zenon DEF FirstShards
  <2> QED BY <2>1, <2>4
<1>4. ASSUME NEW n \in Nat, n \in T
      PROVE  n + 1 \in T
  <2> SUFFICES ASSUME n + 1 <= Len(pages)
               PROVE  FirstShards(chosen[n + 1], pages, n + 1)
    OBVIOUS
  <2>1. FirstShards(chosen[n], pages, n)
    BY <1>1, <1>4
  <2>2. n + 1 \in 0 .. Len(pages) /\ n + 1 # 0 /\ (n + 1) - 1 = n
    BY <1>1
  <2>3. chosen[n + 1] = Adds(chosen[n], pages[n + 1])
    BY <1>2, <2>2 DEF Chooses
  <2> QED BY <2>1, <2>3, AddsNext
<1> HIDE DEF T
<1>5. Nat \subseteq T
  BY <1>3, <1>4, Induction
<1> QED BY <1>1, <1>2, <1>5 DEF T
-----------------------------------------------------------------------------
(* The searches.                                                           *)

\* The ranges of what the loads count and note.
LoadTypes ==
    /\ timeouts \in [Keys -> 0 .. MaxConsecutiveTimeouts - 1]
    /\ late \in [Keys -> BOOLEAN]
    /\ last \in {"none", "value", "failure", "late"}

\* The ranges of where the searches are.
SearchTypes ==
    /\ pc \in [Queries -> {"idle", "manifest", "loop", "go", "wait"}]
    /\ over \in [Queries -> BOOLEAN]
    /\ todo \in [Queries -> Seq(Shards)]

\* What a search has yet to start on are other shards than those its workers read, it
\* asks for the manifest before it asks for any of them, and it has a shard at hand
\* when it waits for a worker.
Scheduled(q) ==
    /\ Distinct(todo[q]) /\ Len(todo[q]) <= MaxShardsPerQuery
    /\ \A s \in ToSet(todo[q]) : task[q][s] = "no"
    /\ pc[q] = "go" => todo[q] # <<>>
    /\ pc[q] = "idle" => \A k \in Keys : task[q][k] = "no"
    /\ pc[q] = "manifest" <=> task[q][Manifest] # "no"
    /\ pc[q] = "manifest" => Workers(q) = {}

\* A search has no more workers than it may.
FewWorkers(q) == IsFiniteSet(Workers(q)) /\ Cardinality(Workers(q)) <= ShardConcurrency

SInv ==
    /\ LoadTypes /\ SearchTypes
    /\ \A q \in Queries : Scheduled(q) /\ FewWorkers(q)

LEMMA SearchesInitially == Init => SInv
<1> SUFFICES ASSUME Init PROVE SInv
  OBVIOUS
<1>1. LoadTypes /\ SearchTypes
  BY CorpusAssumption, EmptySeq DEF Init, LoadTypes, SearchTypes
<1>2. ASSUME NEW q \in Queries
      PROVE  Scheduled(q) /\ FewWorkers(q)
  <2>1. Workers(q) = {}
    BY <1>2 DEF Init, Workers, Active, Keys
  <2>2. ToSet(<<>>) = {} /\ Len(<<>>) = 0 /\ Distinct(<<>>)
    BY EmptySeq, LenProperties DEF ToSet, Distinct
  <2>3. todo[q] = <<>> /\ pc[q] = "idle" /\ \A k \in Keys : task[q][k] = "no"
    BY <1>2 DEF Init
  <2>4. Manifest \in Keys /\ 0 <= MaxShardsPerQuery /\ 0 <= ShardConcurrency
    BY CorpusAssumption DEF Keys
  <2>5. Scheduled(q)
    BY <2>2, <2>3, <2>4 DEF Scheduled
  <2>6. FewWorkers(q)
    BY <2>1, <2>4, FS_EmptySet DEF FewWorkers
  <2> QED BY <2>5, <2>6
<1> QED BY <1>1, <1>2 DEF SInv

\* The workers of a search are its calls for shards that are under way.
LEMMA WorkersAtWork ==
    ASSUME Types, NEW q \in Queries
    PROVE  Workers(q) = {s \in Shards : task[q][s] # "no"}
BY DEF Types, Workers, Active, Keys

\* A step that begins and ends none of a search's calls leaves its schedule as it is.
Undisturbed(q) ==
    /\ pc'[q] = pc[q] /\ todo'[q] = todo[q]
    /\ \A k \in Keys : task'[q][k] = "no" <=> task[q][k] = "no"

LEMMA UndisturbedKeeps ==
    ASSUME Types, Types', SearchTypes,
           NEW q \in Queries, Scheduled(q), FewWorkers(q), Undisturbed(q)
    PROVE  Scheduled(q)' /\ FewWorkers(q)'
<1>1. Workers(q) = {s \in Shards : task[q][s] # "no"}
  BY WorkersAtWork
<1>2. Workers(q)' = {s \in Shards : task'[q][s] # "no"}
  BY DEF Types, Workers, Active, Keys
<1>3. Workers(q)' = Workers(q)
  BY <1>1, <1>2 DEF Undisturbed, Keys
<1>4. Manifest \in Keys
  BY DEF Keys
<1>5. ASSUME NEW s \in ToSet(todo[q])
      PROVE  task'[q][s] = "no"
  <2>1. todo[q] \in Seq(Shards)
    BY DEF SearchTypes
  <2>2. s \in Keys
    BY <2>1, MembersOfSeq DEF Keys
  <2> QED BY <2>2 DEF Scheduled, Undisturbed
<1> QED BY <1>3, <1>4, <1>5 DEF Scheduled, FewWorkers, Undisturbed

\* A search takes the shards its results name.
LEMMA BeginSchedules ==
    ASSUME Types, SearchTypes, NEW q \in Queries, Scheduled(q),
           NEW pages \in Results, Begin(q, pages)
    PROVE  todo'[q] \in Seq(Shards) /\ Scheduled(q)' /\ FewWorkers(q)'
<1>1. pages \in Seq(Shards \cup {NoShard})
  BY CorpusAssumption
<1>2. FirstShards(groupByShard(pages), pages, Len(pages))
  BY <1>1, HighestRankedFirst
<1> DEFINE g == groupByShard(pages)
<1>3. g \in Seq(Shards) /\ Distinct(g) /\ Len(g) <= MaxShardsPerQuery
  BY <1>2 DEF FirstShards
<1>4. pc'[q] = "manifest" /\ todo'[q] = g /\ \A k \in Keys : task[q][k] = "no"
  BY DEF Begin, Types, SearchTypes, Scheduled
<1> HIDE DEF g
<1>5. Manifest \in Keys /\ Manifest \notin Shards
  BY CorpusAssumption DEF Keys
<1>6. task'[q][Manifest] = "start" /\ \A s \in Shards : task'[q][s] = "no"
  BY <1>4, <1>5 DEF Begin, Types, Keys
<1>7. Workers(q)' = {}
  BY <1>6 DEF Workers, Active
<1>8. \A s \in ToSet(g) : task'[q][s] = "no"
  BY <1>3, <1>6, MembersOfSeq
<1>9. Scheduled(q)'
  BY <1>3, <1>4, <1>6, <1>7, <1>8 DEF Scheduled
<1>10. FewWorkers(q)'
  BY <1>7, FS_EmptySet, CorpusAssumption DEF FewWorkers
<1> QED BY <1>3, <1>4, <1>9, <1>10

\* A worker starts on the shard at hand, which none reads, and only when one is free.
LEMMA StartSchedules ==
    ASSUME Types, SearchTypes, NEW q \in Queries, Scheduled(q), FewWorkers(q), StartWorker(q)
    PROVE  todo'[q] \in Seq(Shards) /\ Scheduled(q)' /\ FewWorkers(q)'
<1> DEFINE h == Head(todo[q])
           t == Tail(todo[q])
<1>1. pc[q] = "go" /\ todo[q] \in Seq(Shards) /\ todo[q] # <<>> /\ Distinct(todo[q])
  BY DEF StartWorker, SearchTypes, Scheduled
<1>2. /\ h \in Shards /\ h \in ToSet(todo[q])
      /\ t \in Seq(Shards) /\ Len(t) = Len(todo[q]) - 1
      /\ Distinct(t) /\ ToSet(t) = ToSet(todo[q]) \ {h}
  BY <1>1, MembersOfTail
<1>3. pc'[q] = "loop" /\ todo'[q] = t /\ task' = [task EXCEPT ![q][h] = "start"]
  BY DEF StartWorker, SearchTypes
<1> HIDE DEF h, t
<1>4. task[q][h] = "no" /\ Manifest # h /\ Manifest \in Keys /\ h \in Keys
  BY <1>2, CorpusAssumption DEF Scheduled, Keys
<1>5. task'[q][h] = "start" /\ \A k \in Keys \ {h} : task'[q][k] = task[q][k]
  BY <1>3, <1>4 DEF Types
<1>6. Workers(q)' = Workers(q) \cup {h} /\ h \notin Workers(q)
  BY <1>2, <1>4, <1>5 DEF Workers, Active, Keys
<1>7. /\ IsFiniteSet(Workers(q) \cup {h})
      /\ Cardinality(Workers(q) \cup {h}) = Cardinality(Workers(q)) + 1
  BY <1>6, FS_AddElement DEF FewWorkers
<1>8. Cardinality(Workers(q)) < ShardConcurrency /\ Cardinality(Workers(q)) \in Nat
  BY FS_CardinalityType DEF StartWorker, FewWorkers
<1>9. FewWorkers(q)'
  BY <1>6, <1>7, <1>8, CorpusAssumption DEF FewWorkers
<1>10. task'[q][Manifest] = "no"
  BY <1>1, <1>4, <1>5 DEF Scheduled
<1>11. \A s \in ToSet(t) : task'[q][s] = "no"
  <2> SUFFICES ASSUME NEW s \in ToSet(t) PROVE task'[q][s] = "no"
    OBVIOUS
  <2>1. s \in ToSet(todo[q]) /\ s # h /\ s \in Keys
    BY <1>1, <1>2, MembersOfSeq DEF Keys
  <2> QED BY <1>5, <2>1 DEF Scheduled
<1>12. Len(t) <= MaxShardsPerQuery
  BY <1>1, <1>2, LenProperties, CorpusAssumption DEF Scheduled
<1>13. Scheduled(q)'
  BY <1>2, <1>3, <1>10, <1>11, <1>12 DEF Scheduled
<1> QED BY <1>2, <1>3, <1>9, <1>13

\* A call ends; that for the manifest sends the search on.
Ends(q, k) ==
    /\ task[q][k] # "no"
    /\ task' = [task EXCEPT ![q][k] = "no"]
    /\ pc' = IF k # Manifest THEN pc
             ELSE [pc EXCEPT ![q] = pc'[q]]
    /\ k = Manifest => pc'[q] \in {"loop", "wait"}
    /\ UNCHANGED <<over, todo>>

LEMMA CallEnds ==
    ASSUME Types, SearchTypes, NEW q \in Queries, NEW k \in Keys,
           CallsTooLate(q, k) \/ HitsCache(q, k) \/ Receives(q, k) \/ Leaves(q, k)
    PROVE  Ends(q, k)
<1>1. task[q][k] # "no" /\ \E found \in BOOLEAN : Gets(q, k, found)
  BY DEF CallsTooLate, HitsCache, Receives, Leaves
<1>2. PICK found \in BOOLEAN : Gets(q, k, found)
  BY <1>1
<1>3. task' = [task EXCEPT ![q][k] = "no"] /\ UNCHANGED <<over, todo>>
  BY <1>2 DEF Gets
<1>4. CASE k # Manifest
  BY <1>1, <1>2, <1>3, <1>4 DEF Gets, Ends, SearchTypes
<1>5. CASE k = Manifest
  <2>1. \E stage \in {"loop", "wait"} : pc' = [pc EXCEPT ![q] = stage]
    BY <1>2, <1>5 DEF Gets
  <2> QED BY <1>1, <1>3, <1>5, <2>1 DEF Ends, SearchTypes
<1> QED BY <1>4, <1>5

LEMMA EndSchedules ==
    ASSUME Types, SearchTypes, NEW q \in Queries, Scheduled(q), FewWorkers(q),
           NEW k \in Keys, Ends(q, k)
    PROVE  todo'[q] \in Seq(Shards) /\ Scheduled(q)' /\ FewWorkers(q)'
<1>1. todo'[q] = todo[q] /\ todo[q] \in Seq(Shards)
  BY DEF Ends, SearchTypes
<1>2. task'[q][k] = "no" /\ \A j \in Keys \ {k} : task'[q][j] = task[q][j]
  BY DEF Ends, Types
<1>3. \A s \in ToSet(todo[q]) : task'[q][s] = "no"
  <2> SUFFICES ASSUME NEW s \in ToSet(todo[q]) PROVE task'[q][s] = "no"
    OBVIOUS
  <2>1. s \in Keys
    BY <1>1, MembersOfSeq DEF Keys
  <2> QED BY <1>2, <2>1 DEF Scheduled
<1>4. Manifest \in Keys /\ Manifest \notin Shards
  BY CorpusAssumption DEF Keys
<1>5. CASE k = Manifest
  <2>1. pc[q] = "manifest" /\ pc'[q] \in {"loop", "wait"} /\ task'[q][Manifest] = "no"
    BY <1>2, <1>5 DEF Scheduled, Ends
  <2>2. Workers(q)' = Workers(q)
    BY <1>2, <1>4, <1>5 DEF Workers, Keys
  <2>3. Workers(q) = {} /\ pc'[q] # "go" /\ pc'[q] # "idle" /\ pc'[q] # "manifest"
    BY <2>1 DEF Scheduled
  <2>4. Scheduled(q)'
    BY <1>1, <1>3, <2>1, <2>2, <2>3 DEF Scheduled
  <2> QED BY <1>1, <2>2, <2>4 DEF FewWorkers
<1>6. CASE k # Manifest
  <2>1. pc' = pc /\ k \in Shards /\ task'[q][Manifest] = task[q][Manifest]
    BY <1>2, <1>4, <1>6 DEF Ends, Keys
  <2>2. Workers(q)' = Workers(q) \ {k} /\ k \in Workers(q)
    BY <1>2, <2>1 DEF Workers, Active, Keys, Ends, Types
  <2>3. /\ IsFiniteSet(Workers(q) \ {k})
        /\ Cardinality(Workers(q) \ {k}) = Cardinality(Workers(q)) - 1
    BY <2>2, FS_RemoveElement DEF FewWorkers
  <2>4. Cardinality(Workers(q)) \in Nat
    BY FS_CardinalityType DEF FewWorkers
  <2>5. FewWorkers(q)'
    BY <2>2, <2>3, <2>4, CorpusAssumption DEF FewWorkers
  <2>6. pc[q] # "manifest" /\ pc[q] # "idle"
    BY <2>2 DEF Scheduled, Ends
  <2>7. Scheduled(q)'
    BY <1>1, <1>3, <2>1, <2>6 DEF Scheduled
  <2> QED BY <1>1, <2>5, <2>7
<1> QED BY <1>5, <1>6

\* A step of one search keeps the schedules of all.
LEMMA SearchKeepsSchedules ==
    ASSUME Types, Types', SInv, NEW q \in Queries, SearchStep(q)
    PROVE  SInv'
<1>0. Scheduled(q) /\ FewWorkers(q) /\ SearchTypes /\ LoadTypes
  BY DEF SInv
<1>1. LoadTypes'
  <2>1. UNCHANGED loads
    BY SearchSteps
  <2> QED BY <1>0, <2>1 DEF LoadTypes, loads
<1>2. /\ todo'[q] \in Seq(Shards) /\ Scheduled(q)' /\ FewWorkers(q)'
      /\ pc' = [pc EXCEPT ![q] = pc'[q]]
      /\ pc'[q] \in {"idle", "manifest", "loop", "go", "wait"}
      /\ over' = [over EXCEPT ![q] = over'[q]] /\ over'[q] \in BOOLEAN
      /\ todo' = [todo EXCEPT ![q] = todo'[q]]
      /\ \A r \in Queries \ {q} : task'[r] = task[r]
  <2>1. CASE \E pages \in Results : Begin(q, pages)
    <3>1. PICK pages \in Results : Begin(q, pages)
      BY <2>1
    <3>2. todo'[q] \in Seq(Shards) /\ Scheduled(q)' /\ FewWorkers(q)'
      BY <1>0, <3>1, BeginSchedules
    <3>3. /\ pc' = [pc EXCEPT ![q] = "manifest"] /\ over' = [over EXCEPT ![q] = FALSE]
          /\ \E g : todo' = [todo EXCEPT ![q] = g]
          /\ task' = [task EXCEPT ![q][Manifest] = "start"]
      BY <3>1 DEF Begin
    <3> QED BY <1>0, <3>2, <3>3 DEF SearchTypes, Types
  <2>2. CASE NextShard(q)
    <3>1. /\ pc[q] = "loop" /\ over' = over /\ todo' = todo /\ task' = task
          /\ \E stage \in {"wait", "go"} :
                pc' = [pc EXCEPT ![q] = stage] /\ (stage = "go" => todo[q] # <<>>)
      BY <2>2 DEF NextShard, searches
    <3>2. Workers(q)' = Workers(q)
      BY <3>1 DEF Workers
    <3>3. /\ pc'[q] \in {"wait", "go"} /\ (pc'[q] = "go" => todo[q] # <<>>)
          /\ pc' = [pc EXCEPT ![q] = pc'[q]]
      BY <1>0, <3>1 DEF SearchTypes
    <3>4. task[q][Manifest] = "no"
      BY <1>0, <3>1 DEF Scheduled
    <3>5. Scheduled(q)'
      BY <1>0, <3>1, <3>3, <3>4 DEF Scheduled
    <3>6. FewWorkers(q)'
      BY <1>0, <3>2 DEF FewWorkers
    <3> QED BY <1>0, <3>1, <3>3, <3>5, <3>6 DEF SearchTypes
  <2>3. CASE StartWorker(q)
    <3>1. todo'[q] \in Seq(Shards) /\ Scheduled(q)' /\ FewWorkers(q)'
      BY <1>0, <2>3, StartSchedules
    <3>2. /\ pc' = [pc EXCEPT ![q] = "loop"] /\ over' = over
          /\ \E t : todo' = [todo EXCEPT ![q] = t]
          /\ \E h : task' = [task EXCEPT ![q][h] = "start"]
      BY <2>3 DEF StartWorker
    <3> QED BY <1>0, <3>1, <3>2 DEF SearchTypes, Types
  <2>4. CASE Finish(q)
    <3>1. /\ pc' = [pc EXCEPT ![q] = "idle"] /\ over' = [over EXCEPT ![q] = FALSE]
          /\ todo' = [todo EXCEPT ![q] = <<>>]
          /\ task' = [task EXCEPT ![q] = [k \in Keys |-> "no"]]
      BY <2>4 DEF Finish
    <3>2. /\ pc'[q] = "idle" /\ todo'[q] = <<>> /\ \A k \in Keys : task'[q][k] = "no"
          /\ <<>> \in Seq(Shards) /\ Len(<<>>) = 0 /\ ToSet(<<>>) = {} /\ Distinct(<<>>)
      BY <1>0, <3>1, EmptySeq, LenProperties DEF SearchTypes, Types, ToSet, Distinct
    <3>3. Workers(q)' = {}
      BY <3>2 DEF Workers, Active, Keys
    <3>4. FewWorkers(q)'
      BY <3>3, FS_EmptySet, CorpusAssumption DEF FewWorkers
    <3>5. Manifest \in Keys /\ 0 <= MaxShardsPerQuery
      BY CorpusAssumption DEF Keys
    <3>6. Scheduled(q)'
      BY <3>2, <3>5 DEF Scheduled
    <3> QED BY <1>0, <3>1, <3>2, <3>4, <3>6 DEF SearchTypes, Types
  <2>5. CASE Cancel(q)
    <3>1. pc' = pc /\ todo' = todo /\ task' = task /\ over' = [over EXCEPT ![q] = TRUE]
      BY <2>5 DEF Cancel
    <3>2. Undisturbed(q)
      BY <3>1 DEF Undisturbed
    <3>3. Scheduled(q)' /\ FewWorkers(q)'
      BY <1>0, <3>2, UndisturbedKeeps
    <3> QED BY <1>0, <3>1, <3>3 DEF SearchTypes
  <2>6. CASE \E k \in Keys : MissesCache(q, k)
    <3>1. PICK k \in Keys : MissesCache(q, k)
      BY <2>6
    <3>2. /\ pc' = pc /\ todo' = todo /\ over' = over
          /\ task[q][k] = "start" /\ task' = [task EXCEPT ![q][k] = "missed"]
      BY <3>1 DEF MissesCache, searches
    <3>3. Undisturbed(q)
      BY <3>2 DEF Undisturbed, Types
    <3>4. Scheduled(q)' /\ FewWorkers(q)'
      BY <1>0, <3>3, UndisturbedKeeps
    <3> QED BY <1>0, <3>2, <3>4 DEF SearchTypes, Types
  <2>7. CASE \E k \in Keys : CallsTooLate(q, k) \/ HitsCache(q, k) \/ Receives(q, k)
                             \/ Leaves(q, k)
    <3>1. PICK k \in Keys : Ends(q, k)
      BY <1>0, <2>7, CallEnds
    <3>2. todo'[q] \in Seq(Shards) /\ Scheduled(q)' /\ FewWorkers(q)'
      BY <1>0, <3>1, EndSchedules
    <3>3. CASE k # Manifest
      BY <1>0, <3>1, <3>2, <3>3 DEF Ends, SearchTypes, Types
    <3>4. CASE k = Manifest
      BY <1>0, <3>1, <3>2, <3>4 DEF Ends, SearchTypes, Types
    <3> QED BY <3>3, <3>4
  <2> QED BY <2>1, <2>2, <2>3, <2>4, <2>5, <2>6, <2>7 DEF SearchStep, ContentExcerpts
<1>3. SearchTypes'
  BY <1>0, <1>2 DEF SearchTypes
<1>4. ASSUME NEW r \in Queries, r # q
      PROVE  Scheduled(r)' /\ FewWorkers(r)'
  <2>1. Undisturbed(r)
    BY <1>0, <1>2, <1>4 DEF Undisturbed, SearchTypes
  <2>2. Scheduled(r) /\ FewWorkers(r)
    BY DEF SInv
  <2> QED BY <1>0, <2>1, <2>2, UndisturbedKeeps
<1> QED BY <1>1, <1>2, <1>3, <1>4 DEF SInv

\* A load begins and ends no call, and counts no further than it may.
LEMMA LoadsKeepSchedules ==
    ASSUME Types, Types', SInv,
           \/ \E q \in Queries, k \in Keys : Joins(q, k)
           \/ \E k \in Keys : SharedLoad(k) \/ Deadline(k) \/ Forget(k)
    PROVE  SInv'
<1>1. /\ UNCHANGED searches
      /\ \A r \in Queries, j \in Keys : task'[r][j] = "no" <=> task[r][j] = "no"
      /\ LoadTypes'
  <2>0. LoadTypes
    BY DEF SInv
  <2>1. ASSUME NEW q \in Queries, NEW k \in Keys, Joins(q, k)
        PROVE  <1>1!1 /\ <1>1!2 /\ <1>1!3
    BY <2>0, <2>1 DEF Joins, LoadTypes, Types
  <2>2. ASSUME NEW k \in Keys, Answers(k)
        PROVE  <1>1!1 /\ <1>1!2 /\ <1>1!3
    <3>1. /\ UNCHANGED searches /\ timeouts' = timeouts /\ last' = last
          /\ late' = [late EXCEPT ![k] = FALSE]
          /\ \A r \in Queries : task'[r] =
                IF task[r][k] # "waiting" THEN task[r]
                ELSE [task[r] EXCEPT ![k] = IF outcome[k] THEN "gotValue" ELSE "gotNothing"]
      BY <2>2 DEF Answers
    <3>2. ASSUME NEW r \in Queries, NEW j \in Keys
          PROVE  task'[r][j] = "no" <=> task[r][j] = "no"
      <4>1. CASE task[r][k] # "waiting"
        BY <3>1, <4>1
      <4>2. CASE task[r][k] = "waiting"
        <5>1. /\ task[r] \in [Keys -> Active \cup {"no"}]
              /\ \E end \in {"gotValue", "gotNothing"} : task'[r] = [task[r] EXCEPT ![k] = end]
          BY <3>1, <4>2 DEF Types
        <5> QED BY <4>2, <5>1
      <4> QED BY <4>1, <4>2
    <3>3. LoadTypes'
      BY <2>0, <3>1 DEF LoadTypes
    <3> QED BY <3>1, <3>2, <3>3
  <2>3. ASSUME NEW k \in Keys, load(k)
        PROVE  <1>1!1 /\ <1>1!2 /\ <1>1!3
    <3>1. UNCHANGED outsideLoad /\ late' = late
      BY <2>3 DEF load, Loaded, LoadFails, LoadTimesOut
    <3>2. \/ timeouts' = timeouts
          \/ \E n \in 0 .. MaxConsecutiveTimeouts - 1 : timeouts' = [timeouts EXCEPT ![k] = n]
      <4>1. 0 \in 0 .. MaxConsecutiveTimeouts - 1
        BY CorpusAssumption
      <4>2. CASE Loaded(k) \/ LoadFails(k)
        BY <4>1, <4>2 DEF Loaded, LoadFails, clearTimeouts
      <4>3. CASE LoadTimesOut(k)
        <5>1. timeouts[k] \in Nat
          BY DEF Types
        <5>2. CASE timeouts[k] + 1 < MaxConsecutiveTimeouts
          <6>1. /\ timeouts[k] + 1 \in 0 .. MaxConsecutiveTimeouts - 1
                /\ timeouts' = [timeouts EXCEPT ![k] = timeouts[k] + 1]
            BY <4>3, <5>1, <5>2, CorpusAssumption DEF LoadTimesOut
          <6> QED BY <6>1
        <5>3. CASE ~(timeouts[k] + 1 < MaxConsecutiveTimeouts)
          BY <4>1, <4>3, <5>3 DEF LoadTimesOut
        <5> QED BY <5>2, <5>3
      <4> QED BY <2>3, <4>2, <4>3 DEF load
    <3>3. last' \in {"none", "value", "failure", "late"}
      BY <2>0, <2>3 DEF load, Loaded, LoadFails, LoadTimesOut, Notes, LoadTypes
    <3>4. LoadTypes'
      BY <2>0, <3>1, <3>2, <3>3 DEF LoadTypes
    <3> QED BY <3>1, <3>4 DEF outsideLoad
  <2>4. ASSUME NEW k \in Keys, SharedLoad(k) \/ Deadline(k) \/ Forget(k),
               ~load(k), ~Answers(k)
        PROVE  <1>1!1 /\ <1>1!2 /\ <1>1!3
    <3>1. /\ UNCHANGED outsideLoad /\ timeouts' = timeouts /\ last' = last
          /\ \/ late' = late
             \/ \E b \in BOOLEAN : late' = [late EXCEPT ![k] = b]
      BY <2>4 DEF SharedLoad, ChecksAgain, WantsSlot, TakesSlot, SlotWaitTimesOut, FreesSlot,
         Deadline, Forget
    <3> QED BY <2>0, <3>1 DEF LoadTypes, outsideLoad
  <2> QED BY <2>1, <2>2, <2>3, <2>4 DEF SharedLoad
<1>2. SearchTypes /\ SearchTypes'
  BY <1>1 DEF SInv, SearchTypes, searches
<1>3. ASSUME NEW r \in Queries
      PROVE  Scheduled(r)' /\ FewWorkers(r)'
  <2>1. Undisturbed(r)
    BY <1>1 DEF Undisturbed, searches
  <2>2. Scheduled(r) /\ FewWorkers(r)
    BY DEF SInv
  <2> QED BY <1>2, <2>1, <2>2, UndisturbedKeeps
<1> QED BY <1>1, <1>2, <1>3 DEF SInv

LEMMA SchedulesAreInductive == IInv /\ IInv' /\ SInv /\ [Next]_vars => SInv'
<1> SUFFICES ASSUME IInv, IInv', SInv, [Next]_vars PROVE SInv'
  OBVIOUS
<1>0. Types /\ Types'
  BY DEF IInv
<1>1. CASE Next
  BY <1>0, <1>1, Steps, SearchKeepsSchedules, LoadsKeepSchedules
<1>2. CASE UNCHANGED vars
  <2>1. SearchTypes /\ LoadTypes' /\ SearchTypes'
    BY <1>2 DEF vars, loads, searches, SInv, LoadTypes, SearchTypes
  <2>2. ASSUME NEW r \in Queries
        PROVE  Scheduled(r)' /\ FewWorkers(r)'
    <3>1. Undisturbed(r)
      BY <1>2 DEF Undisturbed, vars, searches
    <3>2. Scheduled(r) /\ FewWorkers(r)
      BY DEF SInv
    <3> QED BY <1>0, <2>1, <3>1, <3>2, UndisturbedKeeps
  <2> QED BY <2>1, <2>2 DEF SInv
<1> QED BY <1>1, <1>2

\* The invariant of the searches holds of every run of the corpus.
THEOREM Schedules == Spec => []SInv
BY Invariant, SearchesInitially, SchedulesAreInductive, PTL DEF Spec

\* Every variable keeps its type; in particular no key counts as many stalls as make
\* it negative-cached.
THEOREM TypeCorrect == Spec => []TypeOK
<1>1. IInv /\ SInv => TypeOK
  BY DEF IInv, SInv, Types, LoadTypes, SearchTypes, TypeOK
<1> QED BY <1>1, Invariant, Schedules, PTL

\* No shard of a search is read twice at a time, and it has no more workers than it
\* may: the shard at hand is none that a worker reads, and a search that asks for the
\* manifest, or has ended, reads none.
OneWorkerEach ==
    \A q \in Queries :
        /\ pc[q] = "go" => Head(todo[q]) \in Shards \ Workers(q)
        /\ pc[q] \in {"idle", "manifest"} => Workers(q) = {}
        /\ Cardinality(Workers(q)) <= ShardConcurrency
        /\ Len(todo[q]) <= MaxShardsPerQuery

\* The workers of a search are as many as group.SetLimit lets run, each on a shard of
\* its own, and none outlives the search.
THEOREM WorkersAreBounded == Spec => []OneWorkerEach
<1>1. IInv /\ SInv => OneWorkerEach
  <2> SUFFICES ASSUME IInv, SInv, NEW q \in Queries
               PROVE  /\ pc[q] = "go" => Head(todo[q]) \in Shards \ Workers(q)
                      /\ pc[q] \in {"idle", "manifest"} => Workers(q) = {}
                      /\ Cardinality(Workers(q)) <= ShardConcurrency
                      /\ Len(todo[q]) <= MaxShardsPerQuery
    BY DEF OneWorkerEach
  <2>1. Types /\ Scheduled(q) /\ FewWorkers(q) /\ todo[q] \in Seq(Shards)
    BY DEF IInv, SInv, SearchTypes
  <2>2. Workers(q) = {s \in Shards : task[q][s] # "no"}
    BY <2>1, WorkersAtWork
  <2>3. ASSUME pc[q] = "go"
        PROVE  Head(todo[q]) \in Shards \ Workers(q)
    <3>1. Head(todo[q]) \in Shards /\ Head(todo[q]) \in ToSet(todo[q])
      BY <2>1, <2>3, MembersOfTail DEF Scheduled
    <3> QED BY <2>1, <2>2, <3>1 DEF Scheduled
  <2>4. pc[q] \in {"idle", "manifest"} => Workers(q) = {}
    BY <2>1, <2>2 DEF Scheduled, Keys
  <2> QED BY <2>1, <2>3, <2>4 DEF Scheduled, FewWorkers
<1> QED BY <1>1, Invariant, Schedules, PTL
-----------------------------------------------------------------------------
(* DocsCorpus implements LoadingCache.                                     *)

\* The calls that wait are the same when none begins or ceases to.
LEMMA SameWaiters ==
    ASSUME \A d \in Callers : Stage(d)' = "waiting" <=> Stage(d) = "waiting"
    PROVE  waiters' = waiters
BY DEF waiters

\* The calls that were told something are the same when each is told the same.
LEMMA SameAnswers ==
    ASSUME \A d \in Callers :
              \/ Stage(d)' = Stage(d)
              \/ /\ Stage(d) \notin {"gotValue", "gotNothing"}
                 /\ Stage(d)' \notin {"gotValue", "gotNothing"}
    PROVE  answered' = answered
<1>1. DOMAIN answered' = DOMAIN answered
  BY DEF answered
<1>2. \A d \in DOMAIN answered' : answered'[d] = answered[d]
  BY <1>1 DEF answered
<1>3. answered' = [d \in DOMAIN answered' |-> answered'[d]]
      /\ answered = [d \in DOMAIN answered |-> answered[d]]
  BY DEF answered
<1> QED BY <1>1, <1>2, <1>3

\* The cache and the loads, as LoadingCache sees them, depend on nothing else.
LEMMA SameLoads ==
    /\ cache' = cache => entries' = entries
    /\ flight' = flight /\ outcome' = outcome =>
          loadsUnderWay' = loadsUnderWay /\ loadsOver' = loadsOver
BY DEF entries, loadsUnderWay, loadsOver

\* A step of one call, for what the others do.
OneCall(q, k) ==
    \A r \in Queries, j \in Keys : r # q \/ j # k => task'[r][j] = task[r][j]

\* Its change of task touches no other call.
LEMMA OneCallChanges ==
    ASSUME Types, NEW q \in Queries, NEW k \in Keys, NEW stage,
           task' = [task EXCEPT ![q][k] = stage]
    PROVE  OneCall(q, k) /\ task'[q][k] = stage
BY DEF Types, OneCall

\* A call that is not waiting and has nothing to receive, before and after the step.
LEMMA QuietCall ==
    ASSUME NEW q \in Queries, NEW k \in Keys, OneCall(q, k),
           task[q][k] \in {"no", "start", "missed"},
           task'[q][k] \in {"no", "start", "missed"},
           UNCHANGED loads
    PROVE  UNCHANGED Corpus!cacheVars
<1>1. \A d \in Callers : d[1] \in Queries /\ d[2] \in Keys
  BY DEF Callers
<1>2. \A d \in Callers :
         \/ Stage(d)' = Stage(d)
         \/ /\ Stage(d) \in {"no", "start", "missed"}
            /\ Stage(d)' \in {"no", "start", "missed"}
  BY <1>1 DEF OneCall, Stage
<1>3. waiters' = waiters
  BY <1>2, SameWaiters
<1>4. answered' = answered
  BY <1>2, SameAnswers
<1> QED BY <1>3, <1>4, SameLoads DEF Corpus!cacheVars, loads

\* A step that changes no call and leaves the loads as they are.
LEMMA QuietStep ==
    ASSUME UNCHANGED <<loads, task>>
    PROVE  UNCHANGED Corpus!cacheVars
<1>1. \A d \in Callers : Stage(d)' = Stage(d)
  BY DEF Stage
<1> QED BY <1>1, SameWaiters, SameAnswers, SameLoads DEF Corpus!cacheVars, loads

\* What a search does beside its calls.
LEMMA SearchIsQuiet ==
    ASSUME Types, SInv, NEW q \in Queries, ContentExcerpts(q) \/ Cancel(q)
    PROVE  UNCHANGED Corpus!cacheVars
<1>0. Scheduled(q)
  BY DEF SInv
<1>1. ASSUME NEW pages \in Results, Begin(q, pages)
      PROVE  UNCHANGED Corpus!cacheVars
  <2>1. /\ pc[q] = "idle" /\ UNCHANGED loads
        /\ task' = [task EXCEPT ![q][Manifest] = "start"]
    BY <1>1 DEF Begin
  <2>2. Manifest \in Keys /\ task[q][Manifest] = "no"
    BY <1>0, <2>1 DEF Scheduled, Keys
  <2>3. OneCall(q, Manifest) /\ task'[q][Manifest] = "start"
    BY <2>1, <2>2, OneCallChanges
  <2> QED BY <2>1, <2>2, <2>3, QuietCall
<1>2. CASE NextShard(q) \/ Cancel(q)
  BY <1>2, QuietStep DEF NextShard, Cancel
<1>3. CASE StartWorker(q)
  <2> DEFINE s == Head(todo[q])
  <2>1. /\ pc[q] = "go" /\ UNCHANGED loads
        /\ task' = [task EXCEPT ![q][s] = "start"]
    BY <1>3 DEF StartWorker
  <2>2. todo[q] \in Seq(Shards) /\ todo[q] # <<>>
    BY <1>0, <2>1 DEF Scheduled, SInv, SearchTypes
  <2>3. s \in Shards /\ s \in ToSet(todo[q])
    BY <1>0, <2>2, MembersOfTail DEF Scheduled
  <2> HIDE DEF s
  <2>4. s \in Keys /\ task[q][s] = "no"
    BY <1>0, <2>3 DEF Scheduled, Keys
  <2>5. OneCall(q, s) /\ task'[q][s] = "start"
    BY <2>1, <2>4, OneCallChanges
  <2> QED BY <2>1, <2>4, <2>5, QuietCall
<1>4. CASE Finish(q)
  <2>1. /\ pc[q] = "wait" /\ Workers(q) = {} /\ UNCHANGED loads
        /\ task' = [task EXCEPT ![q] = [k \in Keys |-> "no"]]
    BY <1>4 DEF Finish
  <2>2. \A k \in Keys : task[q][k] = "no"
    BY <1>0, <2>1, WorkersAtWork DEF Scheduled, Keys
  <2>3. \A r \in Queries, k \in Keys : task'[r][k] = task[r][k]
    BY <2>1, <2>2 DEF Types
  <2>4. \A d \in Callers : Stage(d)' = Stage(d)
    BY <2>3 DEF Callers, Stage
  <2> QED BY <2>1, <2>4, SameWaiters, SameAnswers, SameLoads DEF Corpus!cacheVars, loads
<1> QED BY <1>1, <1>2, <1>3, <1>4 DEF ContentExcerpts

\* A call, as a caller.
LEMMA CallIsCaller ==
    ASSUME NEW q \in Queries, NEW k \in Keys
    PROVE  /\ <<q, k>> \in Callers /\ <<q, k>>[2] = k /\ Stage(<<q, k>>) = task[q][k]
           /\ Stage(<<q, k>>)' = task'[q][k]
           /\ OneCall(q, k) => \A d \in Callers : d # <<q, k>> => Stage(d)' = Stage(d)
<1>1. \A d \in Callers : /\ d[1] \in Queries /\ d[2] \in Keys
                         /\ d # <<q, k>> => d[1] # q \/ d[2] # k
  BY DEF Callers
<1> QED BY <1>1 DEF Callers, Stage, OneCall

\* A call that waits no longer has left, or was told.
LEMMA CallLeaves ==
    ASSUME NEW q \in Queries, NEW k \in Keys, OneCall(q, k),
           task[q][k] = "waiting", task'[q][k] = "no", UNCHANGED loads
    PROVE  Corpus!Leave(<<q, k>>)
<1> DEFINE c == <<q, k>>
<1>1. /\ c \in Callers /\ Stage(c) = "waiting" /\ Stage(c)' = "no"
      /\ \A d \in Callers : d # c => Stage(d)' = Stage(d)
  BY CallIsCaller
<1> HIDE DEF c
<1>2. answered' = answered
  <2>1. \A d \in Callers : \/ Stage(d)' = Stage(d)
                           \/ /\ Stage(d) \notin {"gotValue", "gotNothing"}
                              /\ Stage(d)' \notin {"gotValue", "gotNothing"}
    BY <1>1
  <2> QED BY <2>1, SameAnswers
<1>3. c \in DOMAIN waiters /\ DOMAIN waiters' = DOMAIN waiters \ {c}
  BY <1>1 DEF waiters
<1>4. waiters' = Corpus!Less(waiters, {c})
  <2>1. \A d \in DOMAIN waiters' : waiters'[d] = waiters[d]
    BY <1>3 DEF waiters
  <2>2. waiters' = [d \in DOMAIN waiters' |-> waiters'[d]]
    BY DEF waiters
  <2> QED BY <1>3, <2>1, <2>2 DEF Corpus!Less
<1> QED BY <1>2, <1>3, <1>4, SameLoads DEF Corpus!Leave, loads, c

LEMMA CallReturns ==
    ASSUME NEW q \in Queries, NEW k \in Keys, OneCall(q, k),
           task[q][k] \in {"gotValue", "gotNothing"}, task'[q][k] = "no", UNCHANGED loads
    PROVE  Corpus!Return(<<q, k>>)
<1> DEFINE c == <<q, k>>
<1>1. /\ c \in Callers /\ Stage(c) \in {"gotValue", "gotNothing"} /\ Stage(c)' = "no"
      /\ \A d \in Callers : d # c => Stage(d)' = Stage(d)
  BY CallIsCaller
<1> HIDE DEF c
<1>2. waiters' = waiters
  <2>1. \A d \in Callers : Stage(d)' = "waiting" <=> Stage(d) = "waiting"
    BY <1>1
  <2> QED BY <2>1, SameWaiters
<1>3. c \in DOMAIN answered /\ DOMAIN answered' = DOMAIN answered \ {c}
  BY <1>1 DEF answered
<1>4. answered' = Corpus!Less(answered, {c})
  <2>1. \A d \in DOMAIN answered' : d \in Callers /\ Stage(d)' = Stage(d)
    BY <1>1, <1>3 DEF answered
  <2>2. \A d \in DOMAIN answered' : answered'[d] = answered[d]
    BY <1>3, <2>1 DEF answered
  <2>3. answered' = [d \in DOMAIN answered' |-> answered'[d]]
    BY DEF answered
  <2> QED BY <1>3, <2>2, <2>3 DEF Corpus!Less
<1> QED BY <1>2, <1>3, <1>4, SameLoads DEF Corpus!Return, loads, c

LEMMA JoinJoins ==
    ASSUME Types, NEW q \in Queries, NEW k \in Keys, Joins(q, k)
    PROVE  Corpus!Join(<<q, k>>, k)
<1> DEFINE c == <<q, k>>
<1>1. /\ task[q][k] = "missed" /\ task' = [task EXCEPT ![q][k] = "waiting"]
      /\ flight' = [flight EXCEPT ![k] = IF @ = "none" THEN "check" ELSE @]
      /\ UNCHANGED <<cache, outcome>>
  BY DEF Joins
<1>2. /\ c \in Callers /\ Stage(c) = "missed" /\ Stage(c)' = "waiting" /\ c[2] = k
      /\ \A d \in Callers : d # c => Stage(d)' = Stage(d)
  <2>1. OneCall(q, k) /\ task'[q][k] = "waiting"
    BY <1>1, OneCallChanges
  <2> QED BY <1>1, <2>1, CallIsCaller
<1> HIDE DEF c
<1>3. answered' = answered
  <2>1. \A d \in Callers : \/ Stage(d)' = Stage(d)
                           \/ /\ Stage(d) \notin {"gotValue", "gotNothing"}
                              /\ Stage(d)' \notin {"gotValue", "gotNothing"}
    BY <1>2
  <2> QED BY <2>1, SameAnswers
<1>4. c \notin DOMAIN waiters /\ c \notin DOMAIN answered
  BY <1>2 DEF waiters, answered
<1>5. waiters' = Corpus!With(waiters, c, k)
  <2>1. DOMAIN waiters' = DOMAIN waiters \union {c}
    BY <1>2 DEF waiters
  <2>2. \A d \in DOMAIN waiters' : waiters'[d] = IF d = c THEN k ELSE waiters[d]
    BY <1>2, <2>1 DEF waiters
  <2>3. waiters' = [d \in DOMAIN waiters' |-> waiters'[d]]
    BY DEF waiters
  <2> QED BY <2>1, <2>2, <2>3 DEF Corpus!With
<1>6. loadsOver' = loadsOver
  BY <1>1 DEF loadsOver, Types
<1>7. loadsUnderWay' = IF k \in DOMAIN loadsOver THEN loadsUnderWay
                       ELSE loadsUnderWay \union {k}
  BY <1>1 DEF loadsUnderWay, loadsOver, Types
<1> QED BY <1>1, <1>3, <1>4, <1>5, <1>6, <1>7, SameLoads DEF Corpus!Join, Corpus!Idle, c

\* A call of corpusValue.
LEMMA CallStep ==
    ASSUME Types, NEW q \in Queries, NEW k \in Keys, corpusValue(q, k)
    PROVE  Corpus!Next \/ UNCHANGED Corpus!cacheVars
<1>0. <<q, k>> \in Callers
  BY CallIsCaller
<1>1. CASE CallsTooLate(q, k) \/ HitsCache(q, k) \/ MissesCache(q, k)
  <2>1. /\ task[q][k] = "start" /\ UNCHANGED loads
        /\ \E stage \in {"no", "missed"} : task' = [task EXCEPT ![q][k] = stage]
    BY <1>1 DEF CallsTooLate, HitsCache, MissesCache, Gets
  <2>2. PICK stage \in {"no", "missed"} : task' = [task EXCEPT ![q][k] = stage]
    BY <2>1
  <2>3. OneCall(q, k) /\ task'[q][k] = stage
    BY <2>2, OneCallChanges
  <2> QED BY <2>1, <2>3, QuietCall
<1>2. CASE Joins(q, k)
  BY <1>0, <1>2, JoinJoins DEF Corpus!Next
<1>3. CASE Receives(q, k) \/ Leaves(q, k)
  <2>1. /\ task[q][k] \in {"waiting", "gotValue", "gotNothing"} /\ UNCHANGED loads
        /\ task' = [task EXCEPT ![q][k] = "no"]
    BY <1>3 DEF Receives, Leaves, Gets
  <2>2. OneCall(q, k) /\ task'[q][k] = "no"
    BY <2>1, OneCallChanges
  <2>3. CASE task[q][k] = "waiting"
    BY <2>1, <2>2, <2>3, CallLeaves DEF Corpus!Next, Corpus!Leave
  <2>4. CASE task[q][k] # "waiting"
    BY <2>1, <2>2, <2>4, CallReturns DEF Corpus!Next, Corpus!Return
  <2> QED BY <2>3, <2>4
<1> QED BY <1>1, <1>2, <1>3 DEF corpusValue

\* A load that is over.
LEMMA LoadOver ==
    ASSUME Types, NEW k \in Keys, flight[k] \in {"check", "slot", "load"},
           NEW stage \in {"ending", "returned"}, NEW v \in BOOLEAN,
           flight' = [flight EXCEPT ![k] = stage],
           outcome' = [outcome EXCEPT ![k] = v], task' = task
    PROVE  /\ k \in loadsUnderWay /\ loadsUnderWay' = loadsUnderWay \ {k}
           /\ loadsOver' = Corpus!With(loadsOver, k, IF v THEN "value" ELSE "negative")
           /\ waiters' = waiters /\ answered' = answered
<1>1. k \in loadsUnderWay /\ loadsUnderWay' = loadsUnderWay \ {k}
  BY DEF loadsUnderWay, Types
<1>2. DOMAIN loadsOver' = DOMAIN loadsOver \union {k}
  BY DEF loadsOver, Types
<1>3. \A x \in DOMAIN loadsOver' :
         loadsOver'[x] = IF x = k THEN (IF v THEN "value" ELSE "negative") ELSE loadsOver[x]
  BY <1>2 DEF loadsOver, Types
<1>4. loadsOver' = [x \in DOMAIN loadsOver' |-> loadsOver'[x]]
  BY DEF loadsOver
<1>5. loadsOver' = Corpus!With(loadsOver, k, IF v THEN "value" ELSE "negative")
  BY <1>2, <1>3, <1>4 DEF Corpus!With
<1>6. waiters' = waiters /\ answered' = answered
  <2>1. \A d \in Callers : Stage(d)' = Stage(d)
    BY DEF Stage
  <2> QED BY <2>1, SameWaiters, SameAnswers
<1> QED BY <1>1, <1>5, <1>6

\* A value, or a failure, that is cached.
LEMMA EntryMade ==
    ASSUME Types, NEW k \in Keys, NEW e \in {"value", "negative"},
           cache' = [cache EXCEPT ![k] = e]
    PROVE  k \in DOMAIN entries' /\ entries'[k] = e /\ Corpus!OthersMayGo({k})
BY DEF Types, entries, Corpus!OthersMayGo

\* The shared load of a key, up to its end.
LEMMA LoadStep ==
    ASSUME Types, NEW k \in Keys,
           ChecksAgain(k) \/ WantsSlot(k) \/ TakesSlot(k) \/ SlotWaitTimesOut(k) \/ load(k)
           \/ FreesSlot(k) \/ Deadline(k)
    PROVE  Corpus!Load(k) \/ Corpus!Fail(k) \/ UNCHANGED Corpus!cacheVars
<1>1. CASE ChecksAgain(k)
  <2>1. /\ flight[k] = "check" /\ flight' = [flight EXCEPT ![k] = "returned"]
        /\ cache[k] # "none" /\ cache' = cache /\ task' = task
    BY <1>1 DEF ChecksAgain, goto, outsideLoad
  <2> DEFINE v == cache[k] = "value"
  <2>2. v \in BOOLEAN /\ outcome' = [outcome EXCEPT ![k] = v]
    BY <1>1 DEF ChecksAgain
  <2>3. (IF v THEN "value" ELSE "negative") = cache[k]
    BY <2>1 DEF Types
  <2> HIDE DEF v
  <2>4. /\ k \in loadsUnderWay /\ loadsUnderWay' = loadsUnderWay \ {k}
        /\ loadsOver' = Corpus!With(loadsOver, k, cache[k])
        /\ waiters' = waiters /\ answered' = answered
    BY <2>1, <2>2, <2>3, LoadOver
  <2>5. k \in DOMAIN entries' /\ entries'[k] = cache[k] /\ Corpus!OthersMayGo({k})
    BY <2>1 DEF entries, Corpus!OthersMayGo
  <2> QED BY <2>4, <2>5 DEF Corpus!Load
<1>2. CASE WantsSlot(k) \/ TakesSlot(k) \/ Deadline(k)
  <2>1. /\ UNCHANGED <<cache, outcome, task>>
        /\ flight[k] \in {"check", "slot", "load"}
        /\ \E stage \in {"check", "slot", "load"} : flight' = [flight EXCEPT ![k] = stage]
    BY <1>2 DEF WantsSlot, TakesSlot, Deadline, goto, outsideLoad, Types
  <2>2. loadsUnderWay' = loadsUnderWay /\ loadsOver' = loadsOver
    BY <2>1 DEF loadsUnderWay, loadsOver, Types
  <2>3. \A d \in Callers : Stage(d)' = Stage(d)
    BY <2>1 DEF Stage
  <2> QED BY <2>1, <2>2, <2>3, SameWaiters, SameAnswers, SameLoads DEF Corpus!cacheVars
<1>3. CASE FreesSlot(k)
  <2>1. /\ UNCHANGED <<cache, outcome, task>>
        /\ flight[k] = "ending" /\ flight' = [flight EXCEPT ![k] = "returned"]
    BY <1>3 DEF FreesSlot, goto, outsideLoad
  <2>2. loadsUnderWay' = loadsUnderWay /\ loadsOver' = loadsOver
    BY <2>1 DEF loadsUnderWay, loadsOver, Types
  <2>3. \A d \in Callers : Stage(d)' = Stage(d)
    BY <2>1 DEF Stage
  <2> QED BY <2>1, <2>2, <2>3, SameWaiters, SameAnswers, SameLoads DEF Corpus!cacheVars
<1>4. CASE SlotWaitTimesOut(k)
  <2>1. /\ flight[k] = "slot" /\ flight' = [flight EXCEPT ![k] = "returned"]
        /\ outcome' = [outcome EXCEPT ![k] = FALSE] /\ cache' = cache /\ task' = task
    BY <1>4 DEF SlotWaitTimesOut, goto, outsideLoad
  <2>2. /\ k \in loadsUnderWay /\ loadsUnderWay' = loadsUnderWay \ {k}
        /\ loadsOver' = Corpus!With(loadsOver, k, "negative")
        /\ waiters' = waiters /\ answered' = answered
    BY <2>1, LoadOver
  <2> QED BY <2>1, <2>2, SameLoads DEF Corpus!Fail
<1>5. CASE load(k)
  <2>1. /\ flight[k] = "load" /\ flight' = [flight EXCEPT ![k] = "ending"] /\ task' = task
        /\ \E v \in BOOLEAN :
              /\ outcome' = [outcome EXCEPT ![k] = v]
              /\ \/ cache' = [cache EXCEPT ![k] = IF v THEN "value" ELSE "negative"]
                 \/ cache' = cache /\ ~v
    BY <1>5 DEF load, Loaded, LoadFails, LoadTimesOut, goto, outsideLoad
  <2>2. PICK v \in BOOLEAN :
              /\ outcome' = [outcome EXCEPT ![k] = v]
              /\ \/ cache' = [cache EXCEPT ![k] = IF v THEN "value" ELSE "negative"]
                 \/ cache' = cache /\ ~v
    BY <2>1
  <2> DEFINE e == IF v THEN "value" ELSE "negative"
  <2>3. e \in {"value", "negative"} /\ (~v => e = "negative")
    OBVIOUS
  <2>4. /\ k \in loadsUnderWay /\ loadsUnderWay' = loadsUnderWay \ {k}
        /\ loadsOver' = Corpus!With(loadsOver, k, e)
        /\ waiters' = waiters /\ answered' = answered
    BY <2>1, <2>2, LoadOver
  <2> HIDE DEF e
  <2>5. CASE cache' = [cache EXCEPT ![k] = e]
    BY <2>3, <2>4, <2>5, EntryMade DEF Corpus!Load
  <2>6. CASE cache' = cache /\ ~v
    BY <2>3, <2>4, <2>6, SameLoads DEF Corpus!Fail
  <2> QED BY <2>2, <2>5, <2>6 DEF e
<1> QED BY <1>1, <1>2, <1>3, <1>4, <1>5

\* Everyone who waits for the load is told what it has come to.
LEMMA AnswersEnd ==
    ASSUME Types, NEW k \in Keys, Answers(k)
    PROVE  Corpus!End(k)
<1> DEFINE told == {d \in DOMAIN waiters : waiters[d] = k}
           got == IF outcome[k] THEN "gotValue" ELSE "gotNothing"
<1>1. /\ flight[k] = "returned" /\ flight' = [flight EXCEPT ![k] = "none"]
      /\ outcome' = [outcome EXCEPT ![k] = FALSE] /\ cache' = cache
  BY DEF Answers, goto
<1>2. \A r \in Queries, j \in Keys :
         task'[r][j] = IF j = k /\ task[r][j] = "waiting" THEN got ELSE task[r][j]
  BY DEF Answers, Types
<1>3. \A d \in Callers : d \in told <=> d[2] = k /\ Stage(d) = "waiting"
  BY DEF waiters
<1>4. told \subseteq Callers
  BY DEF waiters
<1>5. got \in {"gotValue", "gotNothing"}
      /\ (IF got = "gotValue" THEN "value" ELSE "negative")
            = (IF outcome[k] THEN "value" ELSE "negative")
  OBVIOUS
<1> HIDE DEF told, got
<1>6. \A d \in Callers : Stage(d)' = IF d \in told THEN got ELSE Stage(d)
  BY <1>2, <1>3 DEF Callers, Stage
<1>7. loadsUnderWay' = loadsUnderWay /\ entries' = entries
  BY <1>1 DEF loadsUnderWay, entries, Types
<1>8. k \in DOMAIN loadsOver /\ loadsOver[k] = IF outcome[k] THEN "value" ELSE "negative"
  BY <1>1 DEF loadsOver
<1>9. loadsOver' = Corpus!Less(loadsOver, {k})
  <2>1. DOMAIN loadsOver' = DOMAIN loadsOver \ {k}
    BY <1>1 DEF loadsOver, Types
  <2>2. \A x \in DOMAIN loadsOver' : loadsOver'[x] = loadsOver[x]
    BY <1>1, <2>1 DEF loadsOver, Types
  <2>3. loadsOver' = [x \in DOMAIN loadsOver' |-> loadsOver'[x]]
    BY DEF loadsOver
  <2> QED BY <2>1, <2>2, <2>3 DEF Corpus!Less
<1>10. waiters' = Corpus!Less(waiters, told)
  <2>1. DOMAIN waiters' = DOMAIN waiters \ told
    BY <1>5, <1>6 DEF waiters
  <2>2. \A d \in DOMAIN waiters' : waiters'[d] = waiters[d]
    BY <2>1 DEF waiters
  <2>3. waiters' = [d \in DOMAIN waiters' |-> waiters'[d]]
    BY DEF waiters
  <2> QED BY <2>1, <2>2, <2>3 DEF Corpus!Less
<1>11. answered' = [d \in DOMAIN answered \union told |->
                      IF d \in told THEN loadsOver[k] ELSE answered[d]]
  <2>1. DOMAIN answered' = DOMAIN answered \union told
    BY <1>4, <1>5, <1>6 DEF answered
  <2>2. \A d \in DOMAIN answered' :
           answered'[d] = IF d \in told THEN loadsOver[k] ELSE answered[d]
    <3>1. \A d \in DOMAIN answered' :
             d \in Callers /\ answered'[d] = IF Stage(d)' = "gotValue" THEN "value" ELSE "negative"
      BY DEF answered
    <3>2. \A d \in DOMAIN answered :
             answered[d] = IF Stage(d) = "gotValue" THEN "value" ELSE "negative"
      BY DEF answered
    <3> QED BY <1>5, <1>6, <1>8, <2>1, <3>1, <3>2
  <2>3. answered' = [d \in DOMAIN answered' |-> answered'[d]]
    BY DEF answered
  <2> QED BY <2>1, <2>2, <2>3
<1> QED BY <1>7, <1>8, <1>9, <1>10, <1>11 DEF Corpus!End, told

\* A value that goes.
LEMMA ForgetForgets ==
    ASSUME Types, NEW k \in Keys, Forget(k)
    PROVE  Corpus!Forget
<1>1. /\ cache' = [cache EXCEPT ![k] = "none"]
      /\ UNCHANGED <<flight, outcome, task>>
  BY DEF Forget, outsideLoad
<1>2. Corpus!OthersMayGo({})
  BY <1>1 DEF Corpus!OthersMayGo, entries, Types
<1>3. \A d \in Callers : Stage(d)' = Stage(d)
  BY <1>1 DEF Stage
<1> QED BY <1>1, <1>2, <1>3, SameWaiters, SameAnswers, SameLoads DEF Corpus!Forget

\* Every step of the corpus is one of the cache, or none.
LEMMA CorpusStep ==
    IInv /\ SInv /\ [Next]_vars => [Corpus!Next]_(Corpus!cacheVars)
<1> SUFFICES ASSUME IInv, SInv, [Next]_vars
             PROVE  Corpus!Next \/ UNCHANGED Corpus!cacheVars
  OBVIOUS
<1>0. Types
  BY DEF IInv
<1>1. ASSUME NEW q \in Queries, ContentExcerpts(q) \/ Cancel(q)
      PROVE  UNCHANGED Corpus!cacheVars
  BY <1>0, <1>1, SearchIsQuiet
<1>2. ASSUME NEW q \in Queries, NEW k \in Keys, corpusValue(q, k)
      PROVE  Corpus!Next \/ UNCHANGED Corpus!cacheVars
  BY <1>0, <1>2, CallStep
<1>3. ASSUME NEW k \in Keys, SharedLoad(k) \/ Deadline(k)
      PROVE  Corpus!Next \/ UNCHANGED Corpus!cacheVars
  <2>1. CASE Answers(k)
    BY <1>0, <2>1, AnswersEnd DEF Corpus!Next, Corpus!End
  <2>2. CASE ~Answers(k)
    <3>1. Corpus!Load(k) \/ Corpus!Fail(k) \/ UNCHANGED Corpus!cacheVars
      BY <1>0, <1>3, <2>2, LoadStep DEF SharedLoad
    <3>2. Corpus!Load(k) \/ Corpus!Fail(k) => k \in loadsUnderWay
      BY DEF Corpus!Load, Corpus!Fail
    <3> QED BY <3>1, <3>2 DEF Corpus!Next
  <2> QED BY <2>1, <2>2
<1>4. ASSUME NEW k \in Keys, Forget(k)
      PROVE  Corpus!Next
  BY <1>0, <1>4, ForgetForgets DEF Corpus!Next
<1>5. CASE UNCHANGED vars
  BY <1>5, QuietStep DEF vars
<1> QED BY <1>1, <1>2, <1>3, <1>4, <1>5 DEF Next

\* corpusValue keeps the promise of a cache in front of shared loads, for any number of
\* searches and shards: whoever waits is told what the one load of its key that was
\* under way while it waited has come to, and what is loaded is cached or a failure.
THEOREM CorpusRefinement == Spec => CorpusImplementsCache
<1>1. Init => Corpus!Init
  <2> SUFFICES ASSUME Init PROVE Corpus!Init
    OBVIOUS
  <2>1. DOMAIN entries = {} /\ loadsUnderWay = {} /\ DOMAIN loadsOver = {}
    BY DEF Init, entries, loadsUnderWay, loadsOver
  <2>2. DOMAIN waiters = {} /\ DOMAIN answered = {}
    BY DEF Init, waiters, answered, Stage, Callers
  <2> QED BY <2>1, <2>2 DEF Corpus!Init, entries, loadsOver, waiters, answered
<1> QED BY <1>1, CorpusStep, Invariant, Schedules, PTL
       DEF Spec, CorpusImplementsCache, Corpus!Spec
=============================================================================
