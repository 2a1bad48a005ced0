-------------------------- MODULE ModelSearchProofs --------------------------
(***************************************************************************)
(* What holds of ModelSearch for every finite set of models, every target  *)
(* and every size of the semaphore.                                        *)
(***************************************************************************)
EXTENDS ModelSearch, FiniteSetTheorems, TLAPS

-----------------------------------------------------------------------------
(* The inductive invariant.                                                *)

\* The semaphore and the wait group count the goroutines.
Counted ==
    /\ semaphore = Cardinality(Holders) /\ semaphore <= MaxFetch
    /\ wg = Cardinality(Running)

\* What the handler has done says how far it is.
Phases ==
    /\ pc = "listing" => ~catalog
    /\ pc \in {"spawning", "collecting"} => catalog
    /\ pc = "collecting" => kind = "byTask"
    /\ pc = "waiting" => kind = "unified"
    /\ catalog /\ pc # "spawning" => Spawned
    /\ ~catalog => \A m \in Models : worker[m] = "none"
    /\ pc # "answered" => answer = "none"
    /\ pc # "answered" /\ cancelled => gone
    /\ answer = "done" => catalog
    /\ closed => kind = "byTask" /\ \A m \in Models : worker[m] = "ended"

Delivered == {m \in Models : worker[m] \in {"releasing", "finishing", "ended"}}

\* A result tells what became of the fetch, and nothing fetches twice.
Truthful ==
    /\ \A i \in 1..Len(results) :
          results[i].model \in Delivered /\ (results[i].ok <=> results[i].model \notin failed)
    /\ kind = "byTask" => found \subseteq (matching \ failed) \intersect Delivered

\* No result is lost unless the context was cancelled: it is in the channel, or
\* it was collected or passed over.
Passed(m) == m \in found \union failed \/ m \notin matching
Pending(m) == \E i \in 1..Len(results) : results[i].model = m
NothingLost ==
    /\ kind = "byTask" /\ ~cancelled => \A m \in Delivered : Pending(m) \/ Passed(m)
    /\ kind = "unified" => matching = Models /\ \A m \in Delivered : Pending(m)

\* The loop ends as soon as there are enough, and nothing moves under an answer.
Enough == Cardinality(found) = Target /\ found \subseteq matching
TaskFinished ==
    /\ pc # "answered" => Cardinality(found) < Target
    /\ answer = "done" /\ ~gone => Enough \/ (Running = {} /\ found = matching \ failed)
    /\ answer = "error" => ~catalog
    /\ answer # "partial"
UnifiedFinished ==
    answer # "none" => custom # "running" /\ Running = {} /\ UnifiedComplete
Finished ==
    /\ kind = "byTask" => TaskFinished
    /\ kind = "unified" => UnifiedFinished

IInv == TypeOK /\ Counted /\ Phases /\ Truthful /\ NothingLost /\ Finished
-----------------------------------------------------------------------------
(* Sets of models, and a goroutine that moves.                             *)

\* Sets of models are finite, so they can be counted.
LEMMA Counting ==
    ASSUME NEW S \in SUBSET Models, NEW m \in Models
    PROVE  /\ IsFiniteSet(S) /\ Cardinality(S) \in Nat
           /\ m \notin S => Cardinality(S \union {m}) = Cardinality(S) + 1
           /\ m \in S => Cardinality(S \ {m}) = Cardinality(S) - 1 /\ Cardinality(S) # 0
           /\ Cardinality(S) = 0 <=> S = {}
<1>1. IsFiniteSet(S)
  BY ModelsAssumption, FS_Subset
<1>2. Cardinality(S) \in Nat
  BY <1>1, FS_CardinalityType
<1>3. m \notin S => Cardinality(S \union {m}) = Cardinality(S) + 1
  BY <1>1, FS_AddElement
<1>4. m \in S => Cardinality(S \ {m}) = Cardinality(S) - 1
  BY <1>1, FS_RemoveElement
<1>5. Cardinality(S) = 0 <=> S = {}
  BY <1>1, FS_EmptySet
<1> QED BY <1>1, <1>2, <1>3, <1>4, <1>5

\* What a step of one goroutine does to the sets of goroutines.
LEMMA Moving ==
    ASSUME TypeOK, NEW m \in Models, NEW before, NEW after, At(m, before, after)
    PROVE  /\ worker' \in [Models -> {"none", "waiting", "fetching", "fetched",
                                      "releasing", "finishing", "ended", after}]
           /\ \A n \in Models : worker'[n] = IF n = m THEN after ELSE worker[n]
           /\ Holders' = IF after \in Holds THEN Holders \union {m} ELSE Holders \ {m}
           /\ Running' = IF after \in {"none", "ended"} THEN Running \ {m}
                                                        ELSE Running \union {m}
           /\ m \in Holders <=> before \in Holds
           /\ m \in Running <=> before \notin {"none", "ended"}
           /\ m \in Delivered <=> before \in {"releasing", "finishing", "ended"}
           /\ after \in {"releasing", "finishing", "ended"} => Delivered' = Delivered \union {m}
<1>1. worker \in [Models -> {"none", "waiting", "fetching", "fetched",
                              "releasing", "finishing", "ended"}]
  BY DEF TypeOK
<1>2. worker[m] = before /\ worker' = [worker EXCEPT ![m] = after]
  BY DEF At
<1>3. \A n \in Models : worker'[n] = IF n = m THEN after ELSE worker[n]
  BY <1>1, <1>2
<1>4. worker' \in [Models -> {"none", "waiting", "fetching", "fetched",
                               "releasing", "finishing", "ended", after}]
  BY <1>1, <1>2
<1>5. Holders' = IF after \in Holds THEN Holders \union {m} ELSE Holders \ {m}
  BY <1>3 DEF Holders
<1>6. Running' = IF after \in {"none", "ended"} THEN Running \ {m}
                                                ELSE Running \union {m}
  BY <1>3 DEF Running
<1>7. /\ m \in Holders <=> before \in Holds
      /\ m \in Running <=> before \notin {"none", "ended"}
      /\ m \in Delivered <=> before \in {"releasing", "finishing", "ended"}
  BY <1>2 DEF Holders, Running, Delivered
<1>8. after \in {"releasing", "finishing", "ended"} => Delivered' = Delivered \union {m}
  BY <1>3 DEF Delivered
<1> QED BY <1>3, <1>4, <1>5, <1>6, <1>7, <1>8

-----------------------------------------------------------------------------
(* The steps.                                                              *)

LEMMA Initially == Init => IInv
<1> SUFFICES ASSUME Init PROVE IInv
  OBVIOUS
<1>1. Holders = {} /\ Running = {} /\ Delivered = {}
  BY DEF Init, Holders, Holds, Running, Delivered
<1>2. Cardinality({}) = 0
  BY FS_EmptySet
<1>3. TypeOK
  <2>1. results \in Seq(Results)
    BY DEF Init
  <2>2. worker \in [Models -> {"none", "waiting", "fetching", "fetched",
                              "releasing", "finishing", "ended"}]
    BY DEF Init
  <2>3. /\ kind \in Kinds /\ matching \subseteq Models
        /\ found \subseteq Models \union Customs /\ failed \subseteq Models
    BY DEF Init
  <2> QED BY <2>1, <2>2, <2>3 DEF Init, TypeOK
<1>4. Counted
  BY <1>1, <1>2, BoundsAssumption DEF Init, Counted
<1>5. Phases
  BY DEF Init, Phases
<1>6. Truthful
  BY DEF Init, Truthful
<1>7. NothingLost
  BY <1>1 DEF Init, NothingLost, Kinds
<1>8. Finished
  BY <1>2, BoundsAssumption DEF Init, Finished, TaskFinished, UnifiedFinished
<1> QED BY <1>3, <1>4, <1>5, <1>6, <1>7, <1>8 DEF IInv

\* Types, and the counts they need.
LEMMA TypesAndCounts == TypeOK /\ Counted /\ Phases /\ [Next]_vars => TypeOK' /\ Counted'
<1> SUFFICES ASSUME TypeOK, Counted, Phases, [Next]_vars PROVE TypeOK' /\ Counted'
  OBVIOUS
<1> DEFINE Same == worker' = worker /\ semaphore' = semaphore /\ wg' = wg
<1>0. ASSUME Same PROVE Counted' /\ worker' = worker /\ semaphore' = semaphore /\ wg' = wg
  BY <1>0 DEF Counted, Holders, Running
<1>1. ASSUME NEW m \in Models, Acquire(m) PROVE TypeOK' /\ Counted'
  <2>1. At(m, "waiting", "fetching") /\ semaphore' = semaphore + 1 /\ wg' = wg
        /\ semaphore < MaxFetch
    BY <1>1 DEF Acquire
  <2>2. Holders' = Holders \union {m} /\ m \notin Holders /\ Running' = Running \union {m}
        /\ m \in Running
        /\ worker' \in [Models -> {"none", "waiting", "fetching", "fetched",
                                   "releasing", "finishing", "ended"}]
    BY <2>1, Moving DEF Holds
  <2>3. Holders \in SUBSET Models
    BY DEF Holders
  <2>4. Cardinality(Holders \union {m}) = Cardinality(Holders) + 1
    BY <2>2, <2>3, Counting
  <2>5. Running' = Running
    BY <2>2
  <2>6. semaphore' <= MaxFetch
    BY <2>1, BoundsAssumption DEF TypeOK
  <2>7. semaphore' = Cardinality(Holders')
    BY <2>1, <2>2, <2>4 DEF Counted
  <2>8. Counted'
    BY <2>1, <2>5, <2>6, <2>7 DEF Counted
  <2>9. TypeOK'
    BY <1>1, <2>1, <2>2 DEF Acquire, TypeOK, search, reply
  <2> QED BY <2>8, <2>9
<1>2. ASSUME NEW m \in Models, Skip(m) PROVE TypeOK' /\ Counted'
  <2>1. At(m, "waiting", "finishing") /\ semaphore' = semaphore /\ wg' = wg
    BY <1>2 DEF Skip
  <2>2. Holders' = Holders /\ Running' = Running
        /\ worker' \in [Models -> {"none", "waiting", "fetching", "fetched",
                                   "releasing", "finishing", "ended"}]
    BY <2>1, Moving DEF Holds
  <2>3. Counted'
    BY <2>1, <2>2 DEF Counted
  <2>4. TypeOK'
    BY <1>2, <2>1, <2>2 DEF Skip, TypeOK, search, reply
  <2> QED BY <2>3, <2>4
<1>3. ASSUME NEW m \in Models, Fetch(m) PROVE TypeOK' /\ Counted'
  <2>1. At(m, "fetching", "fetched") /\ semaphore' = semaphore /\ wg' = wg
        /\ failed' \subseteq Models
    BY <1>3 DEF Fetch, TypeOK
  <2>2. Holders' = Holders /\ Running' = Running
        /\ worker' \in [Models -> {"none", "waiting", "fetching", "fetched",
                                   "releasing", "finishing", "ended"}]
    BY <2>1, Moving DEF Holds
  <2>3. Counted'
    BY <2>1, <2>2 DEF Counted
  <2>4. TypeOK'
    BY <1>3, <2>1, <2>2 DEF Fetch, TypeOK, search, reply
  <2> QED BY <2>3, <2>4
<1>4. ASSUME NEW m \in Models, Deliver(m) PROVE TypeOK' /\ Counted'
  <2>1. At(m, "fetched", "releasing") /\ semaphore' = semaphore /\ wg' = wg
    BY <1>4 DEF Deliver
  <2>2. Holders' = Holders /\ Running' = Running
        /\ worker' \in [Models -> {"none", "waiting", "fetching", "fetched",
                                   "releasing", "finishing", "ended"}]
    BY <2>1, Moving DEF Holds
  <2>3. Counted'
    BY <2>1, <2>2 DEF Counted
  <2>4. [model |-> m, ok |-> m \notin failed] \in Results
    BY DEF Results
  <2>5. results' \in Seq(Results)
    BY <1>4, <2>4 DEF Deliver, TypeOK
  <2>6. TypeOK'
    BY <1>4, <2>1, <2>2, <2>5 DEF Deliver, TypeOK, search, reply
  <2> QED BY <2>3, <2>6
<1>5. ASSUME NEW m \in Models, Release(m) PROVE TypeOK' /\ Counted'
  <2>1. At(m, "releasing", "finishing") /\ semaphore' = semaphore - 1 /\ wg' = wg
    BY <1>5 DEF Release
  <2>2. Holders' = Holders \ {m} /\ m \in Holders /\ Running' = Running
        /\ worker' \in [Models -> {"none", "waiting", "fetching", "fetched",
                                   "releasing", "finishing", "ended"}]
    BY <2>1, Moving DEF Holds
  <2>3. Holders \in SUBSET Models
    BY DEF Holders
  <2>4. Cardinality(Holders \ {m}) = Cardinality(Holders) - 1 /\ Cardinality(Holders) # 0
    BY <2>2, <2>3, Counting
  <2>5. Counted' /\ semaphore' \in Nat
    BY <2>1, <2>2, <2>4, BoundsAssumption DEF Counted, TypeOK
  <2>6. TypeOK'
    BY <1>5, <2>1, <2>2, <2>5 DEF Release, TypeOK, search, reply
  <2> QED BY <2>5, <2>6
<1>6. ASSUME NEW m \in Models, Done(m) PROVE TypeOK' /\ Counted'
  <2>1. At(m, "finishing", "ended") /\ semaphore' = semaphore /\ wg' = wg - 1
    BY <1>6 DEF Done
  <2>2. Running' = Running \ {m} /\ m \in Running /\ Holders' = Holders
        /\ worker' \in [Models -> {"none", "waiting", "fetching", "fetched",
                                   "releasing", "finishing", "ended"}]
    BY <2>1, Moving DEF Holds
  <2>3. Running \in SUBSET Models
    BY DEF Running
  <2>4. Cardinality(Running \ {m}) = Cardinality(Running) - 1 /\ Cardinality(Running) # 0
    BY <2>2, <2>3, Counting
  <2>5. Counted' /\ wg' \in Nat
    BY <2>1, <2>2, <2>4 DEF Counted, TypeOK
  <2>6. TypeOK'
    BY <1>6, <2>1, <2>2, <2>5 DEF Done, TypeOK, search, reply
  <2> QED BY <2>5, <2>6
<1>7. ASSUME NEW m \in Models, Spawn(m) PROVE TypeOK' /\ Counted'
  <2>1. At(m, "none", "waiting") /\ semaphore' = semaphore /\ wg' = wg + 1
    BY <1>7 DEF Spawn, At
  <2>2. Running' = Running \union {m} /\ m \notin Running /\ Holders' = Holders
        /\ worker' \in [Models -> {"none", "waiting", "fetching", "fetched",
                                   "releasing", "finishing", "ended"}]
    BY <2>1, Moving DEF Holds
  <2>3. Running \in SUBSET Models
    BY DEF Running
  <2>4. Cardinality(Running \union {m}) = Cardinality(Running) + 1
    BY <2>2, <2>3, Counting
  <2>5. Counted' /\ wg' \in Nat
    BY <2>1, <2>2, <2>4 DEF Counted, TypeOK
  <2>6. TypeOK'
    BY <1>7, <2>1, <2>2, <2>5 DEF Spawn, TypeOK, search, reply
  <2> QED BY <2>5, <2>6
<1>8. CASE List
  <2>1. Same
    BY <1>8 DEF List
  <2>2. TypeOK'
    BY <1>8, <2>1 DEF List, Leave, TypeOK, search
  <2> QED BY <1>0, <2>1, <2>2
<1>9. CASE Collecting
  <2>1. Same
    BY <1>9 DEF Collecting
  <2>2. TypeOK'
    BY <1>9, <2>1 DEF Collecting, TypeOK, search, reply
  <2> QED BY <1>0, <2>1, <2>2
<1>10. CASE Take
  <2>1. Same
    BY <1>10 DEF Take
  <2>2. results \in Seq(Results) /\ results # <<>>
    BY <1>10 DEF Take, TypeOK
  <2>3. Head(results) \in Results /\ Tail(results) \in Seq(Results)
    BY <2>2
  <2>4. found' \subseteq Models \union Customs /\ results' \in Seq(Results)
    BY <1>10, <2>3 DEF Take, Results, TypeOK
  <2>5. pc' \in {"collecting", "answered"} /\ answer' \in {"none", "done", "partial", "error"}
        /\ cancelled' \in BOOLEAN
    BY <1>10 DEF Take, Leave, TypeOK
  <2>6. TypeOK'
    BY <1>10, <2>1, <2>4, <2>5 DEF Take, TypeOK, search
  <2> QED BY <1>0, <2>1, <2>6
<1>11. CASE Drained
  <2>1. Same
    BY <1>11 DEF Drained
  <2>2. TypeOK'
    BY <1>11, <2>1 DEF Drained, Leave, TypeOK, search
  <2> QED BY <1>0, <2>1, <2>2
<1>12. CASE Gather
  <2>1. Same
    BY <1>12 DEF Gather
  <2>2. ASSUME NEW i \in 1..Len(results) PROVE results[i].model \in Models
    <3>1. results \in Seq(Results)
      BY DEF TypeOK
    <3>2. results[i] \in Results
      BY <3>1
    <3> QED BY <3>2 DEF Results
  <2>3. found' \subseteq Models \union Customs
    <3>1. results \in Seq(Results)
      BY DEF TypeOK
    <3>2. DOMAIN results = 1..Len(results)
      BY <3>1
    <3> QED BY <1>12, <2>2, <3>2 DEF Gather
  <2>4. Errors \in {0, 1, 2}
    BY DEF Errors
  <2>5. pc' = "answered" /\ answer' \in {"done", "partial", "error"} /\ cancelled' \in BOOLEAN
    BY <1>12, <2>4 DEF Gather, Leave, TypeOK
  <2>6. TypeOK'
    BY <1>12, <2>1, <2>3, <2>5 DEF Gather, TypeOK, search
  <2> QED BY <1>0, <2>1, <2>6
<1>13. CASE Close
  <2>1. Same
    BY <1>13 DEF Close
  <2>2. TypeOK'
    BY <1>13, <2>1 DEF Close, TypeOK, search, reply
  <2> QED BY <1>0, <2>1, <2>2
<1>14. CASE ListCustom
  <2>1. Same
    BY <1>14 DEF ListCustom
  <2>2. TypeOK'
    BY <1>14, <2>1 DEF ListCustom, TypeOK, search, reply
  <2> QED BY <1>0, <2>1, <2>2
<1>15. CASE GoAway
  <2>1. Same
    BY <1>15 DEF GoAway
  <2>2. TypeOK'
    BY <1>15, <2>1 DEF GoAway, TypeOK, search, reply
  <2> QED BY <1>0, <2>1, <2>2
<1>16. CASE UNCHANGED vars
  <2>1. Same
    BY <1>16 DEF vars
  <2>2. TypeOK'
    BY <1>16, <2>1 DEF vars, TypeOK, search, reply
  <2> QED BY <1>0, <2>1, <2>2
<1> QED
  BY <1>1, <1>2, <1>3, <1>4, <1>5, <1>6, <1>7, <1>8, <1>9, <1>10, <1>11, <1>12,
     <1>13, <1>14, <1>15, <1>16 DEF Next, Handle, Work

\* What any step of a goroutine leaves alone, and how it can change the rest.
LEMMA Working ==
    ASSUME TypeOK, NEW m \in Models, Work(m)
    PROVE  /\ UNCHANGED <<kind, matching, pc, closed, cancelled, custom, catalog,
                          found, answer, gone>>
           /\ \A n \in Models : n # m => worker'[n] = worker[n]
           /\ worker[m] \notin {"none", "ended"} /\ worker'[m] # "none"
           /\ m \in Delivered => failed' = failed /\ results' = results /\ m \in Delivered'
           /\ failed' = failed \/ (failed' = failed \union {m} /\ m \notin Delivered')
           /\ \/ results' = results /\ (m \in Delivered' => m \in Delivered \/ (kind = "byTask" /\ cancelled))
              \/ /\ m \notin Delivered /\ m \in Delivered' /\ failed' = failed
                 /\ results' = Append(results, [model |-> m, ok |-> m \notin failed])
<1> USE DEF search, reply
<1>1. CASE Acquire(m)
  <2>1. At(m, "waiting", "fetching")
    BY <1>1 DEF Acquire
  <2>2. \A n \in Models : worker'[n] = IF n = m THEN "fetching" ELSE worker[n]
    BY <2>1, Moving
  <2>3. m \notin Delivered /\ m \notin Delivered' /\ worker[m] = "waiting"
    BY <2>1, <2>2 DEF At, Delivered
  <2> QED BY <1>1, <2>2, <2>3 DEF Acquire
<1>2. CASE Skip(m)
  <2>1. At(m, "waiting", "finishing")
    BY <1>2 DEF Skip
  <2>2. \A n \in Models : worker'[n] = IF n = m THEN "finishing" ELSE worker[n]
    BY <2>1, Moving
  <2>3. m \notin Delivered /\ m \in Delivered' /\ worker[m] = "waiting"
    BY <2>1, <2>2 DEF At, Delivered
  <2> QED BY <1>2, <2>2, <2>3 DEF Skip
<1>3. CASE Fetch(m)
  <2>1. At(m, "fetching", "fetched")
    BY <1>3 DEF Fetch
  <2>2. \A n \in Models : worker'[n] = IF n = m THEN "fetched" ELSE worker[n]
    BY <2>1, Moving
  <2>3. m \notin Delivered /\ m \notin Delivered' /\ worker[m] = "fetching"
    BY <2>1, <2>2 DEF At, Delivered
  <2>4. UNCHANGED <<kind, matching, pc, closed, cancelled, custom, catalog, found, answer,
                    gone, results>>
    BY <1>3 DEF Fetch
  <2>5. failed' = failed \/ failed' = failed \union {m}
    BY <1>3 DEF Fetch
  <2> QED BY <2>2, <2>3, <2>4, <2>5
<1>4. CASE Deliver(m)
  <2>1. At(m, "fetched", "releasing")
    BY <1>4 DEF Deliver
  <2>2. \A n \in Models : worker'[n] = IF n = m THEN "releasing" ELSE worker[n]
    BY <2>1, Moving
  <2>3. m \notin Delivered /\ m \in Delivered' /\ worker[m] = "fetched"
    BY <2>1, <2>2 DEF At, Delivered
  <2>4. UNCHANGED <<kind, matching, pc, closed, cancelled, custom, catalog, found, answer,
                    gone, failed>>
    BY <1>4 DEF Deliver
  <2>5. \/ results' = Append(results, [model |-> m, ok |-> m \notin failed])
        \/ results' = results /\ kind = "byTask" /\ cancelled
    BY <1>4 DEF Deliver
  <2> QED BY <2>2, <2>3, <2>4, <2>5
<1>5. CASE Release(m)
  <2>1. At(m, "releasing", "finishing")
    BY <1>5 DEF Release
  <2>2. \A n \in Models : worker'[n] = IF n = m THEN "finishing" ELSE worker[n]
    BY <2>1, Moving
  <2>3. m \in Delivered /\ m \in Delivered' /\ worker[m] = "releasing"
    BY <2>1, <2>2 DEF At, Delivered
  <2> QED BY <1>5, <2>2, <2>3 DEF Release
<1>6. CASE Done(m)
  <2>1. At(m, "finishing", "ended")
    BY <1>6 DEF Done
  <2>2. \A n \in Models : worker'[n] = IF n = m THEN "ended" ELSE worker[n]
    BY <2>1, Moving
  <2>3. m \in Delivered /\ m \in Delivered' /\ worker[m] = "finishing"
    BY <2>1, <2>2 DEF At, Delivered
  <2> QED BY <1>6, <2>2, <2>3 DEF Done
<1> QED BY <1>1, <1>2, <1>3, <1>4, <1>5, <1>6 DEF Work

\* A wait group at zero means that no goroutine is left.
LEMMA NobodyLeft ==
    ASSUME Counted, wg = 0
    PROVE  Running = {} /\ (Spawned => \A m \in Models : worker[m] = "ended")
<1>1. Running \in SUBSET Models
  BY DEF Running
<1>2. Running = {}
  <2>1. CASE Models = {}
    BY <1>1, <2>1
  <2>2. CASE Models # {}
    BY <1>1, <2>2, Counting DEF Counted
  <2> QED BY <2>1, <2>2
<1> QED BY <1>2 DEF Running, Spawned

LEMMA PhasesKept == TypeOK /\ Counted /\ Phases /\ [Next]_vars => Phases'
<1> SUFFICES ASSUME TypeOK, Counted, Phases, [Next]_vars PROVE Phases'
  OBVIOUS
<1>1. ASSUME NEW m \in Models, Work(m) PROVE Phases'
  <2>1. UNCHANGED <<kind, pc, closed, cancelled, catalog, answer, gone>>
    BY <1>1, Working
  <2>2. \A n \in Models : n # m => worker'[n] = worker[n]
    BY <1>1, Working
  <2>3. worker[m] \notin {"none", "ended"} /\ worker'[m] # "none"
    BY <1>1, Working
  <2>4. Spawned => Spawned'
    BY <2>2, <2>3 DEF Spawned
  <2>5. ~closed /\ catalog
    BY <2>3 DEF Phases
  <2> QED BY <2>1, <2>4, <2>5 DEF Phases
<1>2. ASSUME NEW m \in Models, Spawn(m) PROVE Phases'
  <2>1. UNCHANGED <<kind, pc, closed, cancelled, catalog, answer, gone>>
    BY <1>2 DEF Spawn, search, reply
  <2>2. pc = "spawning" /\ ~closed /\ catalog
    BY <1>2 DEF Spawn, Phases
  <2> QED BY <2>1, <2>2 DEF Phases
<1>3. CASE List
  <2>1. worker' = worker /\ closed' = closed /\ kind' = kind /\ gone' = gone
    BY <1>3 DEF List, search
  <2>2. pc = "listing" /\ ~catalog /\ answer = "none"
    BY <1>3 DEF List, Phases
  <2> QED BY <1>3, <2>1, <2>2 DEF List, Leave, Phases, Spawned, TypeOK, Kinds
<1>4. CASE Collecting
  BY <1>4 DEF Collecting, Phases, Spawned, search, reply, TypeOK, Kinds
<1>5. CASE Close
  <2>1. \A m \in Models : worker[m] = "ended"
    BY <1>5, NobodyLeft DEF Close, Phases
  <2> QED BY <1>5, <2>1 DEF Close, Phases, Spawned, search, reply
<1>6. CASE Take
  BY <1>6 DEF Take, Leave, Phases, Spawned, search
<1>7. CASE Drained
  BY <1>7 DEF Drained, Leave, Phases, Spawned, search
<1>8. CASE ListCustom
  BY <1>8 DEF ListCustom, Phases, Spawned, search, reply
<1>9. CASE Gather
  <2>1. answer' = "done" => catalog
    BY <1>9 DEF Gather, Leave, Errors
  <2>2. pc = "waiting" /\ pc' = "answered" /\ kind = "unified"
    BY <1>9 DEF Gather, Leave, Phases
  <2>3. UNCHANGED <<kind, worker, closed, catalog, gone>>
    BY <1>9 DEF Gather, search
  <2> QED BY <2>1, <2>2, <2>3 DEF Phases, Spawned
<1>10. CASE GoAway
  BY <1>10 DEF GoAway, Phases, Spawned, search, reply
<1>11. CASE UNCHANGED vars
  BY <1>11 DEF vars, Phases, Spawned, search, reply
<1> QED
  BY <1>1, <1>2, <1>3, <1>4, <1>5, <1>6, <1>7, <1>8, <1>9, <1>10, <1>11 DEF Next, Handle

\* A result is true, and what was found was delivered.
LEMMA TruthKept == TypeOK /\ Phases /\ Truthful /\ NothingLost /\ [Next]_vars => Truthful'
<1> SUFFICES ASSUME TypeOK, Phases, Truthful, NothingLost, [Next]_vars PROVE Truthful'
  OBVIOUS
<1> USE DEF search, reply
<1>0. results \in Seq(Results) /\ failed \subseteq Models
  BY DEF TypeOK
<1>1. ASSUME NEW m \in Models, Work(m) PROVE Truthful'
  <2>1. UNCHANGED <<kind, matching, found>>
    BY <1>1, Working
  <2>2. \A n \in Models : n # m => worker'[n] = worker[n]
    BY <1>1, Working
  <2>3. m \in Delivered => failed' = failed /\ m \in Delivered'
    BY <1>1, Working
  <2>4. failed' = failed \/ (failed' = failed \union {m} /\ m \notin Delivered')
    BY <1>1, Working
  <2>5. \/ results' = results
        \/ /\ m \in Delivered' /\ failed' = failed
           /\ results' = Append(results, [model |-> m, ok |-> m \notin failed])
    BY <1>1, Working
  <2>6. ASSUME NEW n \in Delivered PROVE n \in Delivered' /\ (n \in failed' <=> n \in failed)
    <3>1. CASE n = m
      BY <2>3, <3>1, <2>6
    <3>2. CASE n # m
      BY <2>2, <2>4, <3>2, <2>6 DEF Delivered
    <3> QED BY <3>1, <3>2
  <2>7. ASSUME NEW i \in 1..Len(results)
        PROVE  results[i].model \in Delivered' /\ (results[i].ok <=> results[i].model \notin failed')
    BY <2>6 DEF Truthful
  <2>8. kind' = "byTask" => found' \subseteq ((matching \ failed) \intersect Delivered)'
    BY <2>1, <2>6 DEF Truthful
  <2>9. CASE results' = results
    BY <2>7, <2>8, <2>9 DEF Truthful
  <2>10. CASE /\ m \in Delivered' /\ failed' = failed
              /\ results' = Append(results, [model |-> m, ok |-> m \notin failed])
    <3> DEFINE r == [model |-> m, ok |-> m \notin failed]
    <3>1. Len(results') = Len(results) + 1 /\ results'[Len(results) + 1] = r
          /\ Len(results) \in Nat
          /\ \A i \in 1..Len(results) : results'[i] = results[i]
      BY <1>0, <2>10
    <3>2. r.model = m /\ (r.ok <=> m \notin failed)
      OBVIOUS
    <3> HIDE DEF r
    <3>3. ASSUME NEW i \in 1..Len(results')
          PROVE  results'[i].model \in Delivered' /\ (results'[i].ok <=> results'[i].model \notin failed')
      <4>1. CASE i \in 1..Len(results)
        BY <2>7, <3>1, <4>1
      <4>2. CASE i = Len(results) + 1
        BY <2>10, <3>1, <3>2, <4>2
      <4> QED BY <3>1, <4>1, <4>2
    <3> QED BY <2>8, <3>3 DEF Truthful
  <2> QED BY <2>5, <2>9, <2>10
<1>2. ASSUME UNCHANGED <<kind, matching, found, results, failed>>, Delivered \subseteq Delivered'
      PROVE  Truthful'
  BY <1>2 DEF Truthful
<1>3. ASSUME NEW m \in Models, Spawn(m) PROVE Truthful'
  <2>1. UNCHANGED <<kind, matching, found, results, failed>>
    BY <1>3 DEF Spawn
  <2>2. \A n \in Models : worker[n] # "none" => worker'[n] = worker[n]
    BY <1>3 DEF Spawn, TypeOK
  <2>3. Delivered \subseteq Delivered'
    BY <2>2 DEF Delivered
  <2> QED BY <1>2, <2>1, <2>3
<1>4. CASE List
  <2>1. UNCHANGED <<kind, matching, found, results, failed, worker>>
    BY <1>4 DEF List
  <2> QED BY <1>2, <2>1 DEF Delivered
<1>5. CASE Collecting
  <2>1. UNCHANGED <<kind, matching, found, results, failed, worker>>
    BY <1>5 DEF Collecting
  <2> QED BY <1>2, <2>1 DEF Delivered
<1>6. CASE Close
  <2>1. UNCHANGED <<kind, matching, found, results, failed, worker>>
    BY <1>6 DEF Close
  <2> QED BY <1>2, <2>1 DEF Delivered
<1>7. CASE ListCustom
  <2>1. UNCHANGED <<kind, matching, found, results, failed, worker>>
    BY <1>7 DEF ListCustom
  <2> QED BY <1>2, <2>1 DEF Delivered
<1>8. CASE GoAway
  <2>1. UNCHANGED <<kind, matching, found, results, failed, worker>>
    BY <1>8 DEF GoAway
  <2> QED BY <1>2, <2>1 DEF Delivered
<1>9. CASE Drained
  <2>1. UNCHANGED <<kind, matching, found, results, failed, worker>>
    BY <1>9 DEF Drained
  <2> QED BY <1>2, <2>1 DEF Delivered
<1>10. CASE UNCHANGED vars
  <2>1. UNCHANGED <<kind, matching, found, results, failed, worker>>
    BY <1>10 DEF vars
  <2> QED BY <1>2, <2>1 DEF Delivered
<1>11. CASE Take
  <2>1. results # <<>> /\ results' = Tail(results) /\ UNCHANGED <<kind, matching, worker, failed>>
    BY <1>11 DEF Take
  <2>2. Len(results) \in Nat /\ Len(results) # 0 /\ Len(results') = Len(results) - 1
        /\ \A i \in 1..Len(results') : results'[i] = results[i + 1]
        /\ Head(results) = results[1]
    BY <1>0, <2>1
  <2>3. Delivered' = Delivered
    BY <2>1 DEF Delivered
  <2>4. ASSUME NEW i \in 1..Len(results')
        PROVE  results'[i].model \in Delivered' /\ (results'[i].ok <=> results'[i].model \notin failed')
    <3>1. i + 1 \in 1..Len(results) /\ results'[i] = results[i + 1]
      BY <2>2
    <3>2. results[i + 1].model \in Delivered /\ (results[i + 1].ok <=> results[i + 1].model \notin failed)
      BY <3>1 DEF Truthful
    <3> QED BY <2>1, <2>3, <3>1, <3>2
  <2>5. 1 \in 1..Len(results)
    BY <2>2
  <2>6. Head(results).model \in Delivered /\ (Head(results).ok <=> Head(results).model \notin failed)
    BY <2>2, <2>5 DEF Truthful
  <2>7. found' = IF Head(results).ok /\ Head(results).model \in matching
                 THEN found \union {Head(results).model} ELSE found
    BY <1>11 DEF Take
  <2>8. kind = "byTask"
    BY <1>11 DEF Take, Phases
  <2>9. found' \subseteq ((matching \ failed) \intersect Delivered)'
    BY <2>1, <2>3, <2>6, <2>7, <2>8 DEF Truthful
  <2> QED BY <2>4, <2>9 DEF Truthful
<1>12. CASE Gather
  <2>1. UNCHANGED <<kind, matching, results, failed, worker>>
    BY <1>12 DEF Gather
  <2>2. kind = "unified"
    BY <1>12 DEF Gather, Phases
  <2> QED BY <2>1, <2>2 DEF Truthful, Delivered
<1> QED
  BY <1>1, <1>3, <1>4, <1>5, <1>6, <1>7, <1>8, <1>9, <1>10, <1>11, <1>12 DEF Next, Handle

\* A result is taken by being looked at, and dropped only under a cancelled context.
LEMMA NothingLostKept ==
    TypeOK /\ Phases /\ Truthful /\ NothingLost /\ [Next]_vars => NothingLost'
<1> SUFFICES ASSUME TypeOK, Phases, Truthful, NothingLost, [Next]_vars PROVE NothingLost'
  OBVIOUS
<1> USE DEF search, reply
<1>0. results \in Seq(Results) /\ failed \subseteq Models
  BY DEF TypeOK
<1>1. ASSUME NEW m \in Models, Work(m) PROVE NothingLost'
  <2>1. UNCHANGED <<kind, matching, found, cancelled>>
    BY <1>1, Working
  <2>2. \A n \in Models : n # m => worker'[n] = worker[n]
    BY <1>1, Working
  <2>3. failed \subseteq failed'
    BY <1>1, Working
  <2>4. \/ results' = results /\ (m \in Delivered' => m \in Delivered \/ (kind = "byTask" /\ cancelled))
        \/ results' = Append(results, [model |-> m, ok |-> m \notin failed])
    BY <1>1, Working
  <2>5. ASSUME NEW n \in Models, Passed(n) PROVE Passed(n)'
    BY <2>1, <2>3, <2>5 DEF Passed
  <2>6. ASSUME NEW n \in Delivered', n # m PROVE n \in Delivered
    BY <2>2, <2>6 DEF Delivered
  <2>7. CASE results' = results /\ (m \in Delivered' => m \in Delivered \/ (kind = "byTask" /\ cancelled))
    <3>1. \A n \in Models : Pending(n) => Pending(n)'
      BY <2>7 DEF Pending
    <3>2. ASSUME kind' = "byTask", ~cancelled', NEW n \in Delivered'
          PROVE  Pending(n)' \/ Passed(n)'
      <4>1. n \in Delivered /\ n \in Models
        BY <2>1, <2>6, <2>7, <3>2 DEF Delivered
      <4>2. Pending(n) \/ Passed(n)
        BY <2>1, <3>2, <4>1 DEF NothingLost
      <4> QED BY <2>5, <3>1, <4>1, <4>2
    <3>3. ASSUME kind' = "unified" PROVE matching' = Models /\ \A n \in Delivered' : Pending(n)'
      <4>1. ASSUME NEW n \in Delivered' PROVE n \in Delivered /\ n \in Models
        BY <2>1, <2>6, <2>7, <3>3 DEF Delivered
      <4> QED BY <2>1, <3>1, <3>3, <4>1 DEF NothingLost
    <3> QED BY <3>2, <3>3 DEF NothingLost
  <2>8. CASE results' = Append(results, [model |-> m, ok |-> m \notin failed])
    <3> DEFINE r == [model |-> m, ok |-> m \notin failed]
    <3>1. Len(results') = Len(results) + 1 /\ results'[Len(results) + 1] = r
          /\ Len(results) \in Nat
          /\ \A i \in 1..Len(results) : results'[i] = results[i]
      BY <1>0, <2>8
    <3>2. r.model = m
      OBVIOUS
    <3> HIDE DEF r
    <3>3. Pending(m)'
      <4>1. Len(results) + 1 \in 1..Len(results')
        BY <3>1
      <4> QED BY <3>1, <3>2, <4>1 DEF Pending
    <3>4. ASSUME NEW n \in Models, Pending(n) PROVE Pending(n)'
      <4>1. PICK i \in 1..Len(results) : results[i].model = n
        BY <3>4 DEF Pending
      <4>2. i \in 1..Len(results') /\ results'[i] = results[i]
        BY <3>1, <4>1
      <4> QED BY <4>1, <4>2 DEF Pending
    <3>5. ASSUME kind' = "byTask", ~cancelled', NEW n \in Delivered'
          PROVE  Pending(n)' \/ Passed(n)'
      <4>1. n \in Models
        BY <3>5 DEF Delivered
      <4>2. CASE n = m
        BY <3>3, <4>2
      <4>3. CASE n # m
        BY <2>1, <2>5, <2>6, <3>4, <3>5, <4>1, <4>3 DEF NothingLost
      <4> QED BY <4>2, <4>3
    <3>6. ASSUME kind' = "unified" PROVE matching' = Models /\ \A n \in Delivered' : Pending(n)'
      <4>1. ASSUME NEW n \in Delivered' PROVE Pending(n)'
        <5>1. CASE n = m
          BY <3>3, <5>1
        <5>2. CASE n # m
          BY <2>1, <2>6, <3>4, <3>6, <4>1, <5>2 DEF NothingLost, Delivered
        <5> QED BY <5>1, <5>2
      <4> QED BY <2>1, <3>6, <4>1 DEF NothingLost
    <3> QED BY <3>5, <3>6 DEF NothingLost
  <2> QED BY <2>4, <2>7, <2>8
<1>2. ASSUME UNCHANGED <<kind, matching, found, results, failed>>, cancelled => cancelled',
             Delivered' = Delivered
      PROVE  NothingLost'
  BY <1>2 DEF NothingLost, Pending, Passed, TypeOK
<1>3. ASSUME NEW m \in Models, Spawn(m) PROVE NothingLost'
  <2>1. UNCHANGED <<kind, matching, found, results, failed, cancelled>>
    BY <1>3 DEF Spawn
  <2>2. \A n \in Models : worker'[n] = IF n = m THEN "waiting" ELSE worker[n]
    BY <1>3 DEF Spawn, TypeOK
  <2>3. Delivered' = Delivered
    BY <1>3, <2>2 DEF Delivered, Spawn
  <2> QED BY <1>2, <2>1, <2>3
<1>4. CASE List
  <2>1. UNCHANGED <<kind, matching, found, results, failed, worker>>
    BY <1>4 DEF List
  <2>2. cancelled => cancelled'
    BY <1>4 DEF List, Leave
  <2> QED BY <1>2, <2>1, <2>2 DEF Delivered
<1>5. CASE Collecting
  <2>1. UNCHANGED <<kind, matching, found, results, failed, worker, cancelled>>
    BY <1>5 DEF Collecting
  <2> QED BY <1>2, <2>1 DEF Delivered
<1>6. CASE Close
  <2>1. UNCHANGED <<kind, matching, found, results, failed, worker, cancelled>>
    BY <1>6 DEF Close
  <2> QED BY <1>2, <2>1 DEF Delivered
<1>7. CASE ListCustom
  <2>1. UNCHANGED <<kind, matching, found, results, failed, worker, cancelled>>
    BY <1>7 DEF ListCustom
  <2> QED BY <1>2, <2>1 DEF Delivered
<1>8. CASE GoAway
  <2>1. UNCHANGED <<kind, matching, found, results, failed, worker>> /\ (cancelled => cancelled')
    BY <1>8 DEF GoAway
  <2> QED BY <1>2, <2>1 DEF Delivered
<1>9. CASE Drained
  <2>1. UNCHANGED <<kind, matching, found, results, failed, worker>> /\ (cancelled => cancelled')
    BY <1>9 DEF Drained, Leave
  <2> QED BY <1>2, <2>1 DEF Delivered
<1>10. CASE UNCHANGED vars
  <2>1. UNCHANGED <<kind, matching, found, results, failed, worker, cancelled>>
    BY <1>10 DEF vars
  <2> QED BY <1>2, <2>1 DEF Delivered
<1>11. CASE Take
  <2>1. results # <<>> /\ results' = Tail(results) /\ UNCHANGED <<kind, matching, worker, failed>>
        /\ (cancelled => cancelled') /\ kind = "byTask"
    BY <1>11 DEF Take, Leave, Phases
  <2>2. Len(results) \in Nat /\ Len(results) # 0 /\ Len(results') = Len(results) - 1
        /\ \A i \in 1..Len(results') : results'[i] = results[i + 1]
        /\ Head(results) = results[1]
    BY <1>0, <2>1
  <2>3. found' = IF Head(results).ok /\ Head(results).model \in matching
                 THEN found \union {Head(results).model} ELSE found
    BY <1>11 DEF Take
  <2>4. 1 \in 1..Len(results)
    BY <2>2
  <2>5. Head(results).ok <=> Head(results).model \notin failed
    BY <2>2, <2>4 DEF Truthful
  <2>6. ASSUME ~cancelled', NEW n \in Delivered' PROVE Pending(n)' \/ Passed(n)'
    <3>1. n \in Delivered /\ n \in Models /\ ~cancelled
      BY <2>1, <2>6 DEF Delivered
    <3>2. CASE Passed(n)
      BY <2>1, <2>3, <3>2 DEF Passed
    <3>3. CASE Pending(n)
      <4>1. PICK i \in 1..Len(results) : results[i].model = n
        BY <3>3 DEF Pending
      <4>2. CASE i = 1
        BY <2>1, <2>2, <2>3, <2>5, <4>1, <4>2 DEF Passed
      <4>3. CASE i # 1
        <5>1. i - 1 \in 1..Len(results') /\ results'[i - 1] = results[i]
          BY <2>2, <4>1, <4>3
        <5> QED BY <4>1, <5>1 DEF Pending
      <4> QED BY <4>2, <4>3
    <3> QED BY <2>1, <3>1, <3>2, <3>3 DEF NothingLost
  <2> QED BY <2>1, <2>6 DEF NothingLost
<1>12. CASE Gather
  <2>1. UNCHANGED <<kind, matching, results, failed, worker>> /\ kind = "unified"
    BY <1>12 DEF Gather, Phases
  <2> QED BY <2>1 DEF NothingLost, Delivered, Pending
<1> QED
  BY <1>1, <1>3, <1>4, <1>5, <1>6, <1>7, <1>8, <1>9, <1>10, <1>11, <1>12 DEF Next, Handle

\* The loop ends with enough, or when all is over; then nothing moves any more.
LEMMA FinishedKept == IInv /\ [Next]_vars => Finished'
<1> SUFFICES ASSUME IInv, [Next]_vars PROVE Finished'
  OBVIOUS
<1> USE DEF search, reply
<1>0. TypeOK /\ Counted /\ Phases /\ Truthful /\ NothingLost /\ Finished
  BY DEF IInv
<1> USE DEF Finished, TaskFinished, UnifiedFinished, UnifiedComplete, Fetched
<1>1. ASSUME UNCHANGED <<kind, matching, found, answer, failed, worker, custom, catalog>>,
             pc = "answered" => pc' = "answered", gone => gone'
      PROVE  Finished'
  BY <1>0, <1>1 DEF Enough, Running
<1>2. ASSUME NEW m \in Models, Work(m) PROVE Finished'
  <2>1. UNCHANGED <<kind, matching, found, answer, pc, gone, catalog>>
    BY <1>0, <1>2, Working
  <2>2. worker[m] \notin {"none", "ended"}
    BY <1>0, <1>2, Working
  <2>3. Running # {}
    BY <2>2 DEF Running
  <2> QED BY <1>0, <2>1, <2>3 DEF Enough
<1>3. ASSUME NEW m \in Models, Spawn(m) PROVE Finished'
  BY <1>0, <1>3 DEF Spawn, Phases
<1>4. CASE List
  <2>1. pc = "listing" /\ answer = "none" /\ UNCHANGED <<kind, found>>
    BY <1>0, <1>4 DEF List, Phases
  <2>2. \/ answer' = "none"
        \/ answer' = "error" /\ kind = "byTask" /\ ~catalog' /\ pc' = "answered"
    BY <1>4, <2>1 DEF List, Leave
  <2>3. kind \in {"byTask", "unified"}
    BY <1>0 DEF TypeOK, Kinds
  <2> QED BY <1>0, <2>1, <2>2, <2>3
<1>5. CASE Collecting
  BY <1>0, <1>5 DEF Collecting, Phases
<1>6. CASE Close
  BY <1>1, <1>6 DEF Close
<1>7. CASE ListCustom
  <2>1. kind = "unified" /\ kind' = kind /\ answer' = answer /\ custom = "running"
    BY <1>7 DEF ListCustom
  <2> QED BY <1>0, <2>1
<1>8. CASE GoAway
  BY <1>1, <1>8 DEF GoAway
<1>9. CASE UNCHANGED vars
  BY <1>1, <1>9 DEF vars
<1>10. CASE Take
  <2>1. pc = "collecting" /\ kind = "byTask" /\ answer = "none"
    BY <1>0, <1>10 DEF Take, Phases
  <2>2. UNCHANGED <<kind, matching>>
    BY <1>10 DEF Take
  <2>3. results \in Seq(Results) /\ results # <<>> /\ found \in SUBSET Models
    BY <1>0, <1>10 DEF Take, TypeOK, Truthful, Phases, Delivered
  <2>4. Head(results) \in Results
    BY <2>3
  <2>5. Head(results).model \in Models
    BY <2>4 DEF Results
  <2>6. \/ found' = found
        \/ /\ found' = found \union {Head(results).model}
           /\ Head(results).model \in matching
    BY <1>10 DEF Take
  <2>7. Cardinality(found) < Target /\ Cardinality(found) \in Nat /\ found \subseteq matching
    <3>1. Cardinality(found) \in Nat
      BY <2>3, <2>5, Counting
    <3> QED BY <1>0, <2>1, <3>1 DEF Truthful
  <2>8. found' = found \/ Cardinality(found') = Cardinality(found) + 1
    <3>1. CASE Head(results).model \in found
      BY <2>6, <3>1
    <3>2. CASE Head(results).model \notin found
      BY <2>3, <2>5, <2>6, <3>2, Counting
    <3> QED BY <3>1, <3>2
  <2>9. found' \subseteq matching
    BY <2>6, <2>7
  <2>10. CASE found' # found /\ Cardinality(found') >= Target
    <3>1. pc' = "answered" /\ answer' = "done"
      BY <1>10, <2>10 DEF Take, Leave
    <3>2. Cardinality(found') = Target
      BY <2>7, <2>8, <2>10, BoundsAssumption
    <3> QED BY <2>1, <2>2, <2>9, <3>1, <3>2 DEF Enough
  <2>11. CASE ~(found' # found /\ Cardinality(found') >= Target)
    <3>1. answer' = "none"
      BY <1>10, <2>1, <2>11 DEF Take
    <3>2. Cardinality(found') < Target
      BY <2>7, <2>8, <2>11, BoundsAssumption
    <3> QED BY <3>1, <3>2
  <2> QED BY <2>10, <2>11
<1>11. CASE Drained
  <2>1. /\ pc = "collecting" /\ kind = "byTask" /\ closed /\ results = <<>>
        /\ pc' = "answered" /\ answer' = "done"
    BY <1>0, <1>11 DEF Drained, Leave, Phases
  <2>2. UNCHANGED <<kind, matching, found, failed, gone, worker>>
    BY <1>11 DEF Drained
  <2>3. \A m \in Models : worker[m] = "ended"
    BY <1>0, <2>1 DEF Phases
  <2>4. Running = {} /\ Running' = {} /\ Delivered = Models
    BY <2>2, <2>3 DEF Running, Delivered
  <2>5. ASSUME ~gone PROVE found = matching \ failed
    <3>1. ~cancelled
      BY <1>0, <2>1, <2>5 DEF Phases
    <3>2. \A m \in Models : ~Pending(m)
      BY <2>1 DEF Pending
    <3>3. \A m \in Models : Passed(m)
      BY <1>0, <2>1, <2>4, <3>1, <3>2 DEF NothingLost
    <3>4. found \subseteq matching \ failed
      BY <1>0, <2>1 DEF Truthful
    <3>5. matching \subseteq Models
      BY <1>0 DEF TypeOK
    <3> QED BY <3>3, <3>4, <3>5 DEF Passed
  <2> QED BY <2>1, <2>2, <2>4, <2>5
<1>12. CASE Gather
  <2>1. /\ pc = "waiting" /\ kind = "unified" /\ wg = 0 /\ custom # "running"
        /\ answer' = CASE Errors = 0 -> "done" [] Errors = 1 -> "partial" [] Errors = 2 -> "error"
    BY <1>0, <1>12 DEF Gather, Leave, Phases
  <2>2. UNCHANGED <<kind, matching, failed, worker, custom, catalog>>
    BY <1>12 DEF Gather
  <2>3. results \in Seq(Results)
    BY <1>0 DEF TypeOK
  <2> DEFINE Rows == {results[i].model : i \in {j \in 1..Len(results) : results[j].ok}}
  <2>4. found' = Rows \union (IF custom = "listed" THEN Customs ELSE {})
    BY <1>12, <2>3 DEF Gather
  <2>5. Running = {} /\ (Spawned => \A m \in Models : worker[m] = "ended")
    BY <1>0, <2>1, NobodyLeft
  <2>6. Running' = {}
    BY <2>2, <2>5 DEF Running
  <2>7. ASSUME catalog PROVE Rows = Models \ failed
    <3>1. Delivered = Models
      BY <1>0, <2>1, <2>5, <2>7 DEF Phases, Delivered
    <3>2. matching = Models /\ \A m \in Models : Pending(m)
      BY <1>0, <2>1, <3>1 DEF NothingLost
    <3>3. \A i \in 1..Len(results) :
             results[i].model \in Models /\ (results[i].ok <=> results[i].model \notin failed)
      BY <1>0, <3>1 DEF Truthful
    <3>4. ASSUME NEW m \in Models, m \notin failed PROVE m \in Rows
      <4>1. PICK i \in 1..Len(results) : results[i].model = m
        BY <3>2 DEF Pending
      <4>2. results[i].ok
        BY <3>3, <3>4, <4>1
      <4> QED BY <4>1, <4>2
    <3>5. ASSUME NEW m \in Rows PROVE m \in Models /\ m \notin failed
      BY <3>3
    <3> HIDE DEF Rows
    <3> QED BY <3>4, <3>5
  <2>8. ASSUME ~catalog PROVE Rows = {}
    <3>1. Delivered = {}
      BY <1>0, <2>8 DEF Phases, Delivered
    <3>2. \A i \in 1..Len(results) : results[i].model \in Delivered
      BY <1>0 DEF Truthful
    <3> QED BY <3>1, <3>2
  <2> HIDE DEF Rows
  <2>9. custom \in {"listed", "failed"}
    BY <1>0, <2>1 DEF TypeOK
  <2>10. \/ catalog /\ custom = "listed" /\ answer' = "done" /\ found' = (Models \ failed) \union Customs
         \/ catalog /\ custom = "failed" /\ answer' = "partial" /\ found' = Models \ failed
         \/ ~catalog /\ custom = "listed" /\ answer' = "partial" /\ found' = Customs
         \/ ~catalog /\ custom = "failed" /\ answer' = "error" /\ found' = {}
    <3>1. CASE catalog /\ custom = "listed"
      <4>1. Errors = 0
        BY <3>1 DEF Errors
      <4> QED BY <2>1, <2>4, <2>7, <3>1, <4>1
    <3>2. CASE catalog /\ custom = "failed"
      <4>1. Errors = 1
        BY <3>2 DEF Errors
      <4> QED BY <2>1, <2>4, <2>7, <3>2, <4>1
    <3>3. CASE ~catalog /\ custom = "listed"
      <4>1. Errors = 1
        BY <3>3 DEF Errors
      <4> QED BY <2>1, <2>4, <2>8, <3>3, <4>1
    <3>4. CASE ~catalog /\ custom = "failed"
      <4>1. Errors = 2
        BY <3>4 DEF Errors
      <4> QED BY <2>1, <2>4, <2>8, <3>4, <4>1
    <3> QED BY <2>9, <3>1, <3>2, <3>3, <3>4
  <2> QED BY <2>1, <2>2, <2>6, <2>10
<1> QED
  BY <1>2, <1>3, <1>4, <1>5, <1>6, <1>7, <1>8, <1>9, <1>10, <1>11, <1>12 DEF Next, Handle

-----------------------------------------------------------------------------
(* The theorems.                                                           *)

LEMMA Invariance == Spec => []IInv
<1>1. Init => IInv
  BY Initially
<1>2. IInv /\ [Next]_vars => IInv'
  <2> SUFFICES ASSUME IInv, [Next]_vars PROVE IInv'
    OBVIOUS
  <2>1. TypeOK /\ Counted /\ Phases /\ Truthful /\ NothingLost
    BY DEF IInv
  <2> QED
    BY <2>1, TypesAndCounts, PhasesKept, TruthKept, NothingLostKept, FinishedKept DEF IInv
<1> QED BY <1>1, <1>2, PTL DEF Spec

\* The types, and that no counter of a search falls below zero (the wait group
\* and the semaphore of handleSearchByTask and fetchCatalogModels).
THEOREM TypeCorrect == Spec => []TypeOK
<1>1. IInv => TypeOK
  BY DEF IInv
<1> QED BY <1>1, Invariance, PTL

\* However goroutines come and go, MaxFetch of them at most hold a place, so no
\* more than MaxFetch requests are on their way.
THEOREM Bounded == Spec => []FetchesAreBounded
<1>1. IInv => FetchesAreBounded
  <2> SUFFICES ASSUME IInv PROVE FetchesAreBounded
    OBVIOUS
  <2> DEFINE F == {m \in Models : worker[m] = "fetching"}
  <2>1. F \subseteq Holders /\ Holders \in SUBSET Models
    BY DEF Holders, Holds
  <2>2. IsFiniteSet(Holders)
    BY <2>1, ModelsAssumption, FS_Subset
  <2>3. Cardinality(F) <= Cardinality(Holders) /\ Cardinality(F) \in Nat /\ Cardinality(Holders) \in Nat
    BY <2>1, <2>2, FS_Subset, FS_CardinalityType
  <2>4. Cardinality(Holders) <= MaxFetch
    BY DEF IInv, Counted
  <2> HIDE DEF F
  <2>5. Cardinality(F) <= MaxFetch
    BY <2>3, <2>4, BoundsAssumption
  <2> QED BY <2>5 DEF FetchesAreBounded, F
<1> QED BY <1>1, Invariance, PTL

\* The goroutine that closes the channel of results has waited for all others.
THEOREM NoSendOnClosed == Spec => []NoSendAfterClose
<1>1. IInv => NoSendAfterClose
  BY DEF IInv, Phases, NoSendAfterClose
<1> QED BY <1>1, Invariance, PTL

\* What a search answers with is all that its sources had, for as many models and
\* whatever order the goroutines come and fail in: no result is lost between a
\* goroutine and the loop, nor a source that failed passed over.
THEOREM Complete == Spec => []AnswerIsComplete
<1>1. IInv => AnswerIsComplete
  BY DEF IInv, Finished, TaskFinished, UnifiedFinished, Enough, AnswerIsComplete,
         TaskComplete, UnifiedComplete
<1> QED BY <1>1, Invariance, PTL
=============================================================================
