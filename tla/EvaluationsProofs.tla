-------------------------- MODULE EvaluationsProofs --------------------------
(***************************************************************************)
(* What holds of Evaluations for every finite set of calls, every number   *)
(* of agents, every deadline and interval, and any number of requests that *)
(* go wrong.                                                               *)
(***************************************************************************)
EXTENDS Evaluations, SequenceTheorems, TLAPS

-----------------------------------------------------------------------------
(* The inductive invariant.                                                *)

\* The requests a workflow sends, and where it has an answer.
Stage(c) ==
    /\ kind = "agent" => pc[c] # "previewed"
    /\ kind = "model" => pc[c] \notin {"list", "update", "create"}
    /\ kind = "run"   => pc[c] \in {"idle", "previewed", "start", "answered"}
    /\ pc[c] = "answered" <=> answer[c] # "none"

\* What a call has not come to yet is not there.
Before(c) ==
    \/ pc[c] \in {"idle", "previewed", "presign", "upload", "register"}
    \/ pc[c] = "metrics" /\ kind = "agent"
    \/ kind = "run"
Polls(c) == pc[c] \in {"poll", "pause"} \/ answer[c] = "done"

NotYet(c) ==
    /\ Before(c) => Made(c) = {} /\ dataset[c] = 0
    /\ pc[c] # "answered" /\ ~Polls(c) => Begun(c) = {} /\ run[c] = 0

\* What a call holds is there and its own, and all it has made.
Holds(c) ==
    /\ pc[c] = "register" => c \in objects
    /\ Before(c) \/ pc[c] = "answered" \/ dataset[c] \in 1..Len(datasets)
    /\ pc[c] = "update" => testCases # <<>>
    /\ kind = "agent" /\ pc[c] = "start" => testCase[c] \in 1..Len(testCases)
    /\ Polls(c) => /\ run[c] \in 1..Len(runs) /\ runs[run[c]].by = c
                   /\ answer[c] = "done" /\ kind # "run" => runs[run[c]].ended
    /\ ~repeated /\ answer[c] # "error" =>
          Made(c) \subseteq {dataset[c]} /\ Begun(c) \subseteq run[c]..(run[c] + Width - 1)

\* An agent workflow that has been alone until now is alone; the runs of such a
\* call, and of any call of another kind, are of its dataset.
Alone(c) ==
    /\ c \in alone /\ kind = "agent" =>
          /\ Active(c) => \A d \in Calls \ {c} : ~Active(d)
          /\ pc[c] = "start" => testCases[testCase[c]] = dataset[c]
    /\ c \in alone \/ kind # "agent" =>
          \A r \in Begun(c) : runs[r].dataset = dataset[c]

\* As long as calls come one after the other, a test case is created only if
\* there is none.
OneAtATime ==
    alone = Calls /\ ~repeated =>
      /\ Len(testCases) <= 1
      /\ \A c \in Calls : pc[c] = "create" => testCases = <<>>

\* A dataset is registered after its file is stored.
Stored == \A d \in 1..Len(datasets) : datasets[d] \in objects

\* A run is of the model its call has resolved, which is the one the user may
\* count on; until something is renamed the model that was shown has the name.
Agreed ==
    /\ \A r \in 1..Len(runs) : runs[r].model = model[runs[r].by]
    /\ \A c \in Calls : expected[c] \in {"none", model[c]}
    /\ \A c \in settled : pc[c] = "previewed" /\ shown[c] \in bearers

IInv ==
    /\ TypeOK
    /\ \A c \in Calls : Stage(c) /\ NotYet(c) /\ Holds(c) /\ Alone(c)
    /\ OneAtATime /\ Stored /\ Agreed
-----------------------------------------------------------------------------
(* Requests that are executed some times.                                  *)

Appended(s, x, n, S) ==
    LET t == s \o Copies(x, n)
    IN  /\ t \in Seq(S) /\ Len(t) = Len(s) + n
        /\ DOMAIN s = 1..Len(s) /\ DOMAIN t = 1..Len(t)
        /\ Len(s) \in Nat /\ Len(t) \in Nat
        /\ \A i \in 1..Len(t) : t[i] = IF i <= Len(s) THEN s[i] ELSE x

LEMMA Appending ==
    ASSUME NEW S, NEW s \in Seq(S), NEW x \in S, NEW n \in Nat
    PROVE  Appended(s, x, n, S)
<1>1. Copies(x, n) \in Seq(S) /\ Len(Copies(x, n)) = n
  BY DEF Copies
<1>2. \A i \in 1..n : Copies(x, n)[i] = x
  BY DEF Copies
<1> DEFINE t == s \o Copies(x, n)
<1> HIDE DEF Copies
<1>3. /\ t \in Seq(S) /\ Len(t) = Len(s) + n
      /\ \A i \in 1..Len(s) + n : t[i] = IF i <= Len(s) THEN s[i] ELSE Copies(x, n)[i - Len(s)]
  BY <1>1, ConcatProperties
<1>4. Len(s) \in Nat /\ DOMAIN s = 1..Len(s) /\ Len(t) \in Nat /\ DOMAIN t = 1..Len(t)
  BY <1>3, LenProperties
<1>5. ASSUME NEW i \in 1..Len(t) PROVE t[i] = IF i <= Len(s) THEN s[i] ELSE x
  <2>1. i <= Len(s) \/ i - Len(s) \in 1..n
    BY <1>3, <1>4
  <2> HIDE DEF t
  <2> QED BY <1>2, <1>3, <1>4, <2>1
<1> HIDE DEF t
<1>6. /\ t \in Seq(S) /\ Len(t) = Len(s) + n
      /\ DOMAIN s = 1..Len(s) /\ DOMAIN t = 1..Len(t)
      /\ Len(s) \in Nat /\ Len(t) \in Nat
      /\ \A i \in 1..Len(t) : t[i] = IF i <= Len(s) THEN s[i] ELSE x
  BY <1>3, <1>4, <1>5
<1> QED BY <1>6 DEF Appended, t

LEMMA Wider ==
    ASSUME NEW S, NEW T, S \subseteq T, NEW s \in Seq(S)
    PROVE  s \in Seq(T)
<1>1. \A i \in 1..Len(s) : s[i] \in T
  BY ElementOfSeq
<1> QED BY <1>1, LenProperties, SeqDef

Moves(c, p, a) ==
    /\ pc' = [pc EXCEPT ![c] = p]
    /\ answer' = [answer EXCEPT ![c] = a]

LEMMA Outcome ==
    ASSUME TypeOK, NEW c \in Calls, NEW o \in Outcomes, NEW next, Goes(c, o, next)
    PROVE  /\ faults' \in 0..MaxFaults
           /\ \/ o \in {"ok", "twice"} /\ Moves(c, next, answer[c])
              \/ o \in {"refused", "lost"} /\ Moves(c, "answered", "error")
<1>1. faults' \in 0..MaxFaults
  BY TimesAssumption DEF Goes, Fault, TypeOK
<1>2. answer = [answer EXCEPT ![c] = answer[c]]
  BY DEF TypeOK
<1> QED BY <1>1, <1>2 DEF Goes, Moves, Outcomes

\* What follows which request.
LEMMA Order ==
    /\ After("presign") = {"upload"} /\ After("upload") = {"register"}
    /\ After("update") = {"start"} /\ After("create") = {"start"}
    /\ kind = "agent" => After("metrics") = {"presign"} /\ After("register") = {"list"}
    /\ kind # "agent" => After("metrics") = {"start"} /\ After("register") = {"metrics", "start"}
BY DEF After
-----------------------------------------------------------------------------
(* Steps of a call that leave the datasets, test cases and runs alone.     *)

Onward(c, p, a) ==
    \/ p = "answered" /\ a = "error"
    \/ p = "answered" /\ a = "done" /\ pc[c] = "poll" /\ runs[run[c]].ended
    \/ /\ a = answer[c]
       /\ \/ pc[c] = "metrics" /\ kind = "agent" /\ p = "presign"
          \/ pc[c] = "metrics" /\ kind = "model" /\ p = "start"
          \/ pc[c] = "presign" /\ p = "upload"
          \/ pc[c] = "upload" /\ p = "register" /\ c \in objects'
          \/ pc[c] = "list" /\ testCases = <<>> /\ p = "create"
          \/ pc[c] = "list" /\ testCases # <<>> /\ p = "update"
          \/ pc[c] = "poll" /\ p = "pause"
          \/ pc[c] = "pause" /\ p = "poll"

LEMMA OnwardKeeps ==
    ASSUME IInv, NEW c \in Calls, Active(c), NEW p, NEW a, Onward(c, p, a), Moves(c, p, a),
           UNCHANGED <<kind, dataset, testCase, run, model, shown, datasets, testCases,
                       runs, bearers, history>>,
           faults' \in 0..MaxFaults,
           objects' \in {objects, objects \union {c}},
           elapsed' \in [Calls -> 0..Past]
    PROVE  IInv'
<1>1. /\ pc' = [pc EXCEPT ![c] = p] /\ answer' = [answer EXCEPT ![c] = a]
      /\ UNCHANGED <<repeated, alone, settled, expected>>
  BY DEF Moves, history
<1>2. Stage(c) /\ TypeOK
  BY DEF IInv
<1>3. TypeOK'
  BY <1>1, <1>2 DEF TypeOK, Onward, Past
<1>4. \A d \in Calls : Made(d)' = Made(d) /\ Begun(d)' = Begun(d)
  BY DEF Made, Begun
<1>5. ASSUME NEW d \in Calls, d # c PROVE (Stage(d) /\ NotYet(d) /\ Holds(d))'
  <2>1. Stage(d) /\ NotYet(d) /\ Holds(d)
    BY DEF IInv
  <2>2. pc'[d] = pc[d] /\ answer'[d] = answer[d]
    BY <1>1, <1>2, <1>5 DEF TypeOK
  <2>3. Stage(d)'
    BY <2>1, <2>2 DEF Stage
  <2>4. NotYet(d)'
    BY <1>1, <1>4, <1>5, <2>1, <2>2 DEF NotYet, Before, Polls
  <2>5. Holds(d)'
    BY <1>1, <1>4, <1>5, <2>1, <2>2 DEF Holds, Before, Polls, Width
  <2> QED BY <2>3, <2>4, <2>5
<1>6. (Stage(c) /\ NotYet(c) /\ Holds(c))'
  <2>1. Stage(c) /\ NotYet(c) /\ Holds(c)
    BY DEF IInv
  <2>2. pc'[c] = p /\ answer'[c] = a
    BY <1>1, <1>2 DEF TypeOK
  <2>3. Stage(c)'
    BY <1>2, <2>1, <2>2 DEF Stage, Onward, Active, TypeOK, Kinds
  <2>4. NotYet(c)'
    BY <1>1, <1>2, <1>4, <2>1, <2>2 DEF NotYet, Before, Polls, Onward, Active, Stage, TypeOK, Kinds
  <2>5. Holds(c)'
    BY <1>1, <1>2, <1>4, <2>1, <2>2
    DEF Holds, Before, Polls, Onward, Active, Stage, TypeOK, Kinds, Width
  <2> QED BY <2>3, <2>4, <2>5
<1>7. ASSUME NEW d \in Calls PROVE Alone(d)'
  <2>1. Alone(d) /\ Stage(d)
    BY DEF IInv
  <2>2. \A e \in Calls : Active(e)' => Active(e)
    BY <1>1, <1>2 DEF Active, TypeOK
  <2>3. kind = "agent" /\ pc'[d] = "start" => pc[d] = "start"
    BY <1>1, <1>2 DEF Onward, TypeOK
  <2> QED
    BY <1>1, <1>4, <2>1, <2>2, <2>3 DEF Alone
<1>8. OneAtATime'
  BY <1>1, <1>2 DEF IInv, OneAtATime, Onward, TypeOK
<1>9. Stored'
  BY DEF IInv, Stored
<1>10. Agreed'
  <2>1. \A d \in settled : pc'[d] = "previewed"
    BY <1>1, <1>2 DEF IInv, Agreed, Active, TypeOK
  <2> QED BY <1>1, <2>1 DEF IInv, Agreed
<1> QED BY <1>3, <1>5, <1>6, <1>7, <1>8, <1>9, <1>10 DEF IInv
LEMMA AskKeeps == ASSUME IInv, NEW c \in Calls, Ask(c) PROVE IInv'
<1>1. PICK o \in {"ok", "refused"}, next \in After(pc[c]) : Goes(c, o, next)
  BY DEF Ask
<1>2. pc[c] \in {"metrics", "presign"} /\ UNCHANGED <<kind, own, service, history>>
  BY DEF Ask
<1>3. TypeOK /\ Stage(c)
  BY DEF IInv
<1> DEFINE p == IF o = "ok" THEN next ELSE "answered"
           a == IF o = "ok" THEN answer[c] ELSE "error"
<1>4. faults' \in 0..MaxFaults /\ Moves(c, p, a)
  BY <1>1, <1>3, Outcome DEF Outcomes
<1>5. Onward(c, p, a) /\ Active(c)
  <2>1. kind \in {"agent", "model"}
    BY <1>2, <1>3 DEF Stage, TypeOK, Kinds
  <2> QED BY <1>1, <1>2, <2>1, Order DEF Onward, Active
<1> HIDE DEF p, a
<1> QED
  BY <1>2, <1>3, <1>4, <1>5, OnwardKeeps DEF own, service, history, TypeOK

LEMMA UploadKeeps == ASSUME IInv, NEW c \in Calls, Upload(c) PROVE IInv'
<1>1. PICK o \in Outcomes \ {"twice"}, next \in After("upload") :
        /\ Goes(c, o, next)
        /\ objects' = IF Times(o) > 0 THEN objects \union {c} ELSE objects
  BY DEF Upload
<1>2. pc[c] = "upload" /\ UNCHANGED <<kind, own, datasets, testCases, runs, bearers, history>>
  BY DEF Upload
<1>3. TypeOK
  BY DEF IInv
<1> DEFINE p == IF o = "ok" THEN "register" ELSE "answered"
           a == IF o = "ok" THEN answer[c] ELSE "error"
<1>4. faults' \in 0..MaxFaults /\ Moves(c, p, a)
  BY <1>1, <1>3, Outcome, Order DEF Outcomes
<1>5. o = "ok" => c \in objects'
  BY <1>1 DEF Times
<1>6. Onward(c, p, a) /\ Active(c)
  BY <1>2, <1>5 DEF Onward, Active
<1> HIDE DEF p, a
<1> QED
  BY <1>1, <1>2, <1>3, <1>4, <1>6, OnwardKeeps DEF own, history, TypeOK

LEMMA ListKeeps == ASSUME IInv, NEW c \in Calls, List(c) PROVE IInv'
<1>1. PICK o \in {"ok", "refused"} :
        Goes(c, o, IF testCases = <<>> THEN "create" ELSE "update")
  BY DEF List
<1>2. pc[c] = "list" /\ UNCHANGED <<kind, own, service, history>>
  BY DEF List
<1>3. TypeOK
  BY DEF IInv
<1> DEFINE next == IF testCases = <<>> THEN "create" ELSE "update"
           p == IF o = "ok" THEN next ELSE "answered"
           a == IF o = "ok" THEN answer[c] ELSE "error"
<1>4. faults' \in 0..MaxFaults /\ Moves(c, p, a)
  BY <1>1, <1>3, Outcome DEF Outcomes
<1>5. Onward(c, p, a) /\ Active(c)
  BY <1>2 DEF Onward, Active
<1> HIDE DEF p, a
<1> QED
  BY <1>2, <1>3, <1>4, <1>5, OnwardKeeps DEF own, service, history, TypeOK

LEMMA Leaving ==
    ASSUME TypeOK, NEW c \in Calls, Leave(c)
    PROVE  elapsed' \in [Calls -> 0..Past]
BY TimesAssumption DEF TypeOK, Leave, Past

\* The three ways a poll may end.
LEMMA PollKeeps == ASSUME IInv, NEW c \in Calls, Poll(c) PROVE IInv'
<1>1. /\ pc[c] = "poll" /\ Active(c)
      /\ UNCHANGED <<kind, dataset, testCase, run, model, shown, service, history>>
  BY DEF Poll, Active
<1>2. TypeOK
  BY DEF IInv
<1>3. /\ UNCHANGED <<kind, dataset, testCase, run, model, shown, datasets, testCases,
                     runs, bearers, history>>
      /\ objects' \in {objects, objects \union {c}}
  BY <1>1 DEF service
<1>4. CASE runs[run[c]].ended /\ Answer(c, "done") /\ UNCHANGED faults
  <2>1. /\ Moves(c, "answered", "done") /\ Onward(c, "answered", "done")
        /\ Leave(c) /\ faults' \in 0..MaxFaults
    BY <1>1, <1>2, <1>4 DEF Answer, Moves, Onward, TypeOK
  <2> QED BY <1>1, <1>2, <1>3, <2>1, Leaving, OnwardKeeps
<1>5. CASE /\ Goes(c, "ok", "pause")
           /\ \E t \in elapsed[c]..Past : elapsed' = [elapsed EXCEPT ![c] = t]
  <2>1. /\ Moves(c, "pause", answer[c]) /\ Onward(c, "pause", answer[c])
        /\ faults' \in 0..MaxFaults
    BY <1>1, <1>2, <1>5, Outcome DEF Outcomes, Onward
  <2>2. PICK t \in elapsed[c]..Past : elapsed' = [elapsed EXCEPT ![c] = t]
    BY <1>5
  <2>3. elapsed \in [Calls -> 0..Past] /\ t \in 0..Past
    BY <1>2, <2>2, TimesAssumption DEF TypeOK, Past
  <2>4. elapsed' \in [Calls -> 0..Past]
    BY <2>2, <2>3
  <2> QED BY <1>1, <1>2, <1>3, <2>1, <2>4, OnwardKeeps
<1>6. CASE Goes(c, "refused", "poll") /\ Leave(c)
  <2>1. /\ Moves(c, "answered", "error") /\ Onward(c, "answered", "error")
        /\ faults' \in 0..MaxFaults
    BY <1>1, <1>2, <1>6, Outcome DEF Outcomes, Onward
  <2> QED BY <1>1, <1>2, <1>6, <1>3, <2>1, Leaving, OnwardKeeps
<1> QED BY <1>4, <1>5, <1>6 DEF Poll

LEMMA GiveUpKeeps == ASSUME IInv, NEW c \in Calls, GiveUp(c) PROVE IInv'
<1>1. TypeOK
  BY DEF IInv
<1>2. Active(c) /\ Leave(c) /\ UNCHANGED faults
  BY DEF GiveUp, Active, Answer
<1>3. Moves(c, "answered", "error") /\ Onward(c, "answered", "error")
  BY DEF GiveUp, Answer, Moves, Onward
<1>4. /\ UNCHANGED <<kind, dataset, testCase, run, model, shown, datasets, testCases,
                     runs, bearers, history>>
      /\ objects' \in {objects, objects \union {c}}
  BY DEF GiveUp, service
<1>5. faults' \in 0..MaxFaults
  BY <1>1, <1>2 DEF TypeOK
<1> QED BY <1>1, <1>2, <1>3, <1>4, <1>5, Leaving, OnwardKeeps

LEMMA PauseKeeps == ASSUME IInv, NEW c \in Calls, Pause(c) PROVE IInv'
<1>1. /\ pc[c] = "pause" /\ Active(c)
      /\ UNCHANGED <<kind, dataset, testCase, run, model, shown, service, history>>
  BY DEF Pause, Active
<1>2. TypeOK
  BY DEF IInv
<1>3. /\ UNCHANGED <<kind, dataset, testCase, run, model, shown, datasets, testCases,
                     runs, bearers, history>>
      /\ objects' \in {objects, objects \union {c}}
  BY <1>1 DEF service
<1>4. CASE Waited(c) /\ Goes(c, "ok", "poll")
  <2>1. /\ Moves(c, "poll", answer[c]) /\ Onward(c, "poll", answer[c])
        /\ faults' \in 0..MaxFaults
    BY <1>1, <1>2, <1>4, Outcome DEF Outcomes, Onward
  <2>2. elapsed' \in [Calls -> 0..Past]
    BY <1>2, <1>4, TimesAssumption DEF TypeOK, Waited, Past
  <2> QED BY <1>1, <1>2, <1>3, <2>1, <2>2, OnwardKeeps
<1>5. CASE Goes(c, "refused", "poll") /\ Leave(c)
  <2>1. /\ Moves(c, "answered", "error") /\ Onward(c, "answered", "error")
        /\ faults' \in 0..MaxFaults
    BY <1>1, <1>2, <1>5, Outcome DEF Outcomes, Onward
  <2> QED BY <1>1, <1>2, <1>5, <1>3, <2>1, Leaving, OnwardKeeps
<1> QED BY <1>4, <1>5 DEF Pause
-----------------------------------------------------------------------------
(* Previews, confirmations, and what the service does on its own.          *)

Record(n) == [by : Calls, model : Models \union {"none"}, ended : BOOLEAN, dataset : 0..n]

LEMMA TheRuns ==
    ASSUME TypeOK
    PROVE  /\ runs \in Seq(Record(Len(datasets))) /\ DOMAIN runs = 1..Len(runs)
           /\ \A r \in 1..Len(runs) : runs[r] \in Record(Len(datasets))
<1>1. runs \in Seq(Record(Len(datasets)))
  BY DEF TypeOK, Record
<1> QED BY <1>1, LenProperties, ElementOfSeq

\* What is resolved is one of the models, the given one if a uuid was given, and
\* the only one of the name if both lists came.
LEMMA Resolving ==
    ASSUME TypeOK, NEW id \in Models \union {"none"}, NEW listed \in SUBSET Models,
           NEW m \in Resolve(id, listed)
    PROVE  /\ m \in Models /\ m \in bearers
           /\ id # "none" => m = id
           /\ id = "none" /\ listed = Models /\ bearers # {} => bearers = {m}
<1>1. bearers \subseteq Models
  BY DEF TypeOK
<1>2. CASE id = "none"
  <2>1. m \in ByName(listed)
    BY <1>2 DEF Resolve
  <2> DEFINE exact == bearers \intersect listed
  <2>2. CASE exact = {}
    BY <1>1, <1>2, <2>1, <2>2 DEF ByName, Models
  <2>3. CASE exact # {}
    BY <1>1, <1>2, <2>1, <2>3 DEF ByName
  <2> QED BY <2>2, <2>3
<1>3. CASE id # "none"
  BY <1>1, <1>3 DEF Resolve
<1> QED BY <1>2, <1>3

LEMMA PreviewKeeps == ASSUME IInv, NEW c \in Calls, Preview(c) PROVE IInv'
<1>1. PICK id \in Models \union {"none"}, listed \in SUBSET Models :
        /\ Listed(listed)
        /\ \E m \in Resolve(id, listed) : shown' = [shown EXCEPT ![c] = m]
  BY DEF Preview
<1>2. PICK m \in Resolve(id, listed) : shown' = [shown EXCEPT ![c] = m]
  BY <1>1
<1>3. /\ kind # "agent" /\ pc[c] \in {"idle", "previewed"}
      /\ pc' = [pc EXCEPT ![c] = "previewed"] /\ settled' = settled \union {c}
      /\ UNCHANGED <<kind, dataset, testCase, run, model, elapsed, answer, objects, datasets,
                     testCases, runs, bearers, repeated, alone, expected>>
  BY DEF Preview, service
<1>4. TypeOK
  BY DEF IInv
<1>5. m \in Models /\ m \in bearers
  BY <1>4, Resolving
<1>6. TypeOK'
  <2>1. shown' \in [Calls -> Models \union {"none"}]
    BY <1>2, <1>4, <1>5 DEF TypeOK
  <2>2. faults' \in 0..MaxFaults
    BY <1>1, <1>4, TimesAssumption DEF Listed, Fault, TypeOK
  <2> QED BY <1>3, <1>4, <2>1, <2>2 DEF TypeOK, Past
<1>7. \A d \in Calls : Made(d)' = Made(d) /\ Begun(d)' = Begun(d)
  BY <1>3 DEF Made, Begun
<1>8. ASSUME NEW d \in Calls PROVE (Stage(d) /\ NotYet(d) /\ Holds(d) /\ Alone(d))'
  <2>1. Stage(d) /\ NotYet(d) /\ Holds(d) /\ Alone(d)
    BY DEF IInv
  <2>2. pc'[d] = IF d = c THEN "previewed" ELSE pc[d]
    BY <1>3, <1>4 DEF TypeOK
  <2>3. Stage(d)'
    BY <1>3, <2>1, <2>2 DEF Stage
  <2>4. NotYet(d)'
    BY <1>3, <1>7, <2>1, <2>2 DEF NotYet, Before, Polls
  <2>5. Holds(d)'
    BY <1>3, <1>7, <2>1, <2>2 DEF Holds, Before, Polls, Width
  <2>6. Alone(d)'
    BY <1>3, <1>7, <2>1 DEF Alone
  <2> QED BY <2>3, <2>4, <2>5, <2>6
<1>9. OneAtATime'
  BY <1>3, <1>4 DEF IInv, OneAtATime, TypeOK
<1>10. Stored'
  BY <1>3 DEF IInv, Stored
<1>11. Agreed'
  <2>1. \A d \in settled' : pc'[d] = "previewed" /\ shown'[d] \in bearers
    BY <1>2, <1>3, <1>4, <1>5 DEF IInv, Agreed, TypeOK
  <2> QED BY <1>3, <2>1 DEF IInv, Agreed
<1> QED BY <1>6, <1>8, <1>9, <1>10, <1>11 DEF IInv

LEMMA RenameKeeps == ASSUME IInv, Rename PROVE IInv'
<1>1. /\ settled' = {}
      /\ UNCHANGED <<kind, pc, dataset, testCase, run, model, shown, elapsed, answer, objects,
                     datasets, testCases, runs, faults, repeated, alone, expected>>
  BY DEF Rename, own
<1>2. TypeOK'
  <2>1. bearers' \subseteq Models
    BY DEF Rename, IInv, TypeOK
  <2> QED BY <1>1, <2>1 DEF IInv, TypeOK, Past
<1>3. \A d \in Calls : Made(d)' = Made(d) /\ Begun(d)' = Begun(d)
  BY <1>1 DEF Made, Begun
<1>4. ASSUME NEW d \in Calls PROVE (Stage(d) /\ NotYet(d) /\ Holds(d) /\ Alone(d))'
  BY <1>1, <1>3 DEF IInv, Stage, NotYet, Holds, Alone, Before, Polls, Active, Width
<1>5. OneAtATime' /\ Stored' /\ Agreed'
  BY <1>1 DEF IInv, OneAtATime, Stored, Agreed
<1> QED BY <1>2, <1>4, <1>5 DEF IInv

LEMMA RunEndsKeeps == ASSUME IInv, NEW r \in DOMAIN runs, RunEnds(r) PROVE IInv'
<1>1. /\ runs' = [runs EXCEPT ![r].ended = TRUE]
      /\ UNCHANGED <<kind, pc, dataset, testCase, run, model, shown, elapsed, answer, objects,
                     datasets, testCases, bearers, faults, repeated, alone, settled, expected>>
  BY DEF RunEnds, own, history
<1> DEFINE Run == Record(Len(datasets))
<1>2. TypeOK
  BY DEF IInv
<1>3. /\ runs \in Seq(Run) /\ DOMAIN runs = 1..Len(runs) /\ r \in 1..Len(runs)
      /\ \A i \in 1..Len(runs) : runs[i] \in Run
      /\ [runs[r] EXCEPT !.ended = TRUE] \in Run
  BY <1>2, TheRuns DEF Record
<1>4. /\ runs' \in Seq(Run) /\ Len(runs') = Len(runs) /\ DOMAIN runs' = DOMAIN runs
      /\ \A i \in 1..Len(runs) :
            runs'[i] = IF i = r THEN [runs[r] EXCEPT !.ended = TRUE] ELSE runs[i]
  BY <1>1, <1>3, ExceptSeq, LenProperties
<1>5. \A i \in 1..Len(runs) :
        /\ runs'[i].by = runs[i].by /\ runs'[i].model = runs[i].model
        /\ runs'[i].dataset = runs[i].dataset
        /\ runs[i].ended => runs'[i].ended
  <2> SUFFICES ASSUME NEW i \in 1..Len(runs)
               PROVE  /\ runs'[i].by = runs[i].by /\ runs'[i].model = runs[i].model
                      /\ runs'[i].dataset = runs[i].dataset
                      /\ runs[i].ended => runs'[i].ended
    OBVIOUS
  <2>1. runs[i] \in Run
    BY <1>3
  <2> QED BY <1>3, <1>4, <2>1 DEF Record
<1>6. TypeOK'
  BY <1>1, <1>2, <1>4 DEF TypeOK, Record, Past
<1>7. \A d \in Calls : Made(d)' = Made(d) /\ Begun(d)' = Begun(d)
  BY <1>1, <1>3, <1>4, <1>5 DEF Made, Begun
<1>8. ASSUME NEW d \in Calls PROVE (Stage(d) /\ NotYet(d) /\ Holds(d) /\ Alone(d))'
  <2>1. Stage(d) /\ NotYet(d) /\ Holds(d) /\ Alone(d)
    BY DEF IInv
  <2>2. Stage(d)' /\ NotYet(d)'
    BY <1>1, <1>7, <2>1 DEF Stage, NotYet, Before, Polls
  <2>3. Polls(d) => run[d] \in 1..Len(runs)
    BY <2>1 DEF Holds
  <2>4. Holds(d)'
    BY <1>1, <1>4, <1>5, <1>7, <2>1, <2>3 DEF Holds, Before, Polls, Width
  <2>5. \A i \in Begun(d) : i \in 1..Len(runs)
    BY <1>3 DEF Begun
  <2>6. Alone(d)'
    BY <1>1, <1>5, <1>7, <2>1, <2>5 DEF Alone, Active
  <2> QED BY <2>2, <2>4, <2>6
<1>9. OneAtATime' /\ Stored'
  BY <1>1 DEF IInv, OneAtATime, Stored
<1>10. Agreed'
  BY <1>1, <1>4, <1>5 DEF IInv, Agreed
<1> QED BY <1>6, <1>8, <1>9, <1>10 DEF IInv
-----------------------------------------------------------------------------
(* The first request of a workflow.                                        *)

LEMMA EnterKeeps ==
    ASSUME IInv, NEW c \in Calls, pc[c] \in {"idle", "previewed"},
           kind = "agent" => pc[c] = "idle" /\ Enter(c),
           alone' \subseteq alone,
           NEW p, NEW a, Moves(c, p, a),
           \/ p = First /\ a = answer[c]
           \/ p = "answered" /\ a = "error",
           NEW x \in Models \union {"none"}, model' = [model EXCEPT ![c] = x],
           NEW y \in {"none", x}, expected' = [expected EXCEPT ![c] = y],
           shown' \in [Calls -> Models \union {"none"}],
           \A d \in Calls \ {c} : shown'[d] = shown[d],
           settled' = settled \ {c},
           faults' \in 0..MaxFaults,
           UNCHANGED <<kind, dataset, testCase, run, elapsed, objects, datasets,
                       testCases, runs, bearers, repeated>>
    PROVE  IInv'
<1>1. pc' = [pc EXCEPT ![c] = p] /\ answer' = [answer EXCEPT ![c] = a]
  BY DEF Moves
<1>2. TypeOK /\ Stage(c) /\ NotYet(c) /\ Holds(c)
  BY DEF IInv
<1>3. \/ p = "answered" /\ a = "error"
      \/ kind = "agent" /\ p = "metrics" /\ a = "none"
      \/ kind = "model" /\ p = "presign" /\ a = "none"
      \/ kind = "run" /\ p = "start" /\ a = "none"
  BY <1>2 DEF First, TypeOK, Kinds, Stage
<1>4. \A d \in Calls : /\ pc'[d] = IF d = c THEN p ELSE pc[d]
                       /\ answer'[d] = IF d = c THEN a ELSE answer[d]
                       /\ model'[d] = IF d = c THEN x ELSE model[d]
                       /\ expected'[d] = IF d = c THEN y ELSE expected[d]
  BY <1>1, <1>2 DEF TypeOK
<1>5. kind = "agent" =>
        /\ \A d \in alone' : d # c /\ d \in Calls => ~Active(d)
        /\ c \in alone' => \A d \in Calls \ {c} : ~Active(d)
  BY DEF Enter
<1>6. TypeOK'
  <2>1. pc' \in [Calls -> {"idle", "previewed", "metrics", "presign", "upload",
                           "register", "list", "update", "create", "start", "poll",
                           "pause", "answered"}]
    BY <1>1, <1>2, <1>3 DEF TypeOK
  <2>2. answer' \in [Calls -> {"none", "done", "error"}]
    BY <1>1, <1>2, <1>3 DEF TypeOK
  <2>3. model' \in [Calls -> Models \union {"none"}] /\ expected' \in [Calls -> Models \union {"none"}]
    BY <1>2 DEF TypeOK
  <2>4. alone' \subseteq Calls /\ settled' \subseteq Calls
    BY <1>2 DEF TypeOK
  <2> QED BY <1>2, <2>1, <2>2, <2>3, <2>4 DEF TypeOK, Past
<1>7. \A d \in Calls : Made(d)' = Made(d) /\ Begun(d)' = Begun(d)
  BY DEF Made, Begun
<1>8. Begun(c) = {} /\ run[c] = 0 /\ answer[c] = "none"
  BY <1>2 DEF NotYet, Polls, Stage, TypeOK
<1>9. ASSUME NEW d \in Calls PROVE (Stage(d) /\ NotYet(d) /\ Holds(d) /\ Alone(d))'
  <2>1. Stage(d) /\ NotYet(d) /\ Holds(d) /\ Alone(d)
    BY DEF IInv
  <2>2. /\ pc'[d] = IF d = c THEN p ELSE pc[d]
        /\ answer'[d] = IF d = c THEN a ELSE answer[d]
    BY <1>4
  <2>3. Stage(d)'
    BY <1>3, <2>1, <2>2 DEF Stage
  <2>4. NotYet(d)'
    BY <1>2, <1>3, <1>7, <2>1, <2>2 DEF NotYet, Before, Polls
  <2>5. Holds(d)'
    BY <1>2, <1>3, <1>7, <2>1, <2>2 DEF NotYet, Holds, Before, Polls, Stage, Width
  <2>6. Alone(d)'
    <3>1. d \in alone' => d \in alone
      OBVIOUS
    <3>2. \A e \in Calls : e # c => (Active(e)' <=> Active(e))
      BY <1>4 DEF Active
    <3>3. d \in alone' /\ kind = "agent" =>
            /\ Active(d)' => \A e \in Calls \ {d} : ~Active(e)'
            /\ pc'[d] # "start"
      <4>1. CASE d = c
        BY <1>3, <1>5, <2>2, <3>2, <4>1
      <4>2. CASE d # c
        <5>1. d \in alone' /\ kind = "agent" => ~Active(d)'
          BY <1>5, <3>2, <4>2
        <5> QED BY <5>1 DEF Active
      <4> QED BY <4>1, <4>2
    <3> QED BY <1>7, <2>1, <3>1, <3>3 DEF Alone
  <2> QED BY <2>3, <2>4, <2>5, <2>6
<1>10. OneAtATime'
  <2>1. alone' = Calls => alone = Calls
    BY <1>2 DEF TypeOK
  <2>2. \A d \in Calls : pc'[d] = "create" => pc[d] = "create"
    BY <1>3, <1>4
  <2> QED BY <2>1, <2>2 DEF IInv, OneAtATime
<1>11. Stored'
  BY DEF IInv, Stored
<1>12. Agreed'
  <2>1. \A r \in 1..Len(runs) : runs[r].by # c /\ runs[r].by \in Calls
    BY <1>2, <1>8, TheRuns DEF Begun, Record
  <2>2. \A r \in 1..Len(runs) : runs[r].model = model'[runs[r].by]
    BY <1>4, <2>1 DEF IInv, Agreed
  <2>3. \A d \in Calls : expected'[d] \in {"none", model'[d]}
    BY <1>4 DEF IInv, Agreed
  <2>4. \A d \in settled' : pc'[d] = "previewed" /\ shown'[d] \in bearers
    BY <1>2, <1>4 DEF IInv, Agreed, TypeOK
  <2> QED BY <2>2, <2>3, <2>4 DEF Agreed
<1> QED BY <1>6, <1>9, <1>10, <1>11, <1>12 DEF IInv

LEMMA BeginKeeps == ASSUME IInv, NEW c \in Calls, Begin(c) PROVE IInv'
<1>1. TypeOK /\ Agreed
  BY DEF IInv
<1>2. /\ pc[c] = "idle" /\ kind = "agent" /\ Enter(c)
      /\ UNCHANGED <<kind, dataset, testCase, run, elapsed, objects, datasets,
                     testCases, runs, bearers, repeated>>
      /\ UNCHANGED <<model, shown, faults, answer, settled, expected>>
      /\ pc' = [pc EXCEPT ![c] = First]
  BY DEF Begin, own, service, consent
<1>3. /\ Moves(c, First, answer[c]) /\ faults' \in 0..MaxFaults
      /\ model[c] \in Models \union {"none"} /\ model' = [model EXCEPT ![c] = model[c]]
      /\ expected' = [expected EXCEPT ![c] = expected[c]]
      /\ shown' \in [Calls -> Models \union {"none"}]
      /\ \A d \in Calls \ {c} : shown'[d] = shown[d]
  BY <1>1, <1>2 DEF TypeOK, Moves
<1>4. expected[c] \in {"none", model[c]} /\ settled' = settled \ {c}
  BY <1>1, <1>2 DEF Agreed
<1>5. alone' \subseteq alone
  BY <1>2 DEF Enter
<1> HIDE DEF Moves
<1> QED BY <1>2, <1>3, <1>4, <1>5, EnterKeeps

\* What the user of this call may count on is what it has resolved.
LEMMA Confirming ==
    ASSUME IInv, NEW c \in Calls, NEW id \in Models \union {"none"},
           NEW listed \in SUBSET Models, NEW m \in Resolve(id, listed)
    PROVE  Expected(c, id, listed) \in {"none", m}
<1>1. TypeOK /\ Agreed
  BY DEF IInv
<1>2. /\ id # "none" => m = id
      /\ id = "none" /\ listed = Models /\ bearers # {} => bearers = {m}
  BY <1>1, Resolving
<1>3. c \in settled => shown[c] \in bearers
  BY <1>1 DEF Agreed
<1> QED BY <1>2, <1>3 DEF Expected

LEMMA ConfirmKeeps == ASSUME IInv, NEW c \in Calls, Confirm(c) PROVE IInv'
<1>1. TypeOK /\ Agreed /\ Stage(c) /\ NotYet(c)
  BY DEF IInv
<1>2. /\ kind # "agent" /\ pc[c] \in {"idle", "previewed"}
      /\ shown' = [shown EXCEPT ![c] = "none"] /\ settled' = settled \ {c}
      /\ UNCHANGED <<kind, dataset, testCase, run, elapsed, objects, datasets,
                     testCases, runs, bearers, repeated, alone>>
  BY DEF Confirm, service
<1>3. /\ shown' \in [Calls -> Models \union {"none"}]
      /\ \A d \in Calls \ {c} : shown'[d] = shown[d]
  BY <1>1, <1>2 DEF TypeOK
<1>4. PICK id \in Models \union {"none"}, listed \in SUBSET Models :
          \/ \E m \in Resolve(id, listed) :
                /\ Listed(listed)
                /\ model' = [model EXCEPT ![c] = m]
                /\ expected' = [expected EXCEPT ![c] = Expected(c, id, listed)]
                /\ pc' = [pc EXCEPT ![c] = First] /\ UNCHANGED answer
          \/ /\ \/ Resolve(id, listed) = {} /\ Listed(listed)
                \/ Fault("refused")
             /\ pc' = [pc EXCEPT ![c] = "answered"]
             /\ answer' = [answer EXCEPT ![c] = "error"]
             /\ UNCHANGED <<model, expected>>
  BY DEF Confirm
<1>5. faults' \in 0..MaxFaults
  BY <1>1, <1>4, TimesAssumption DEF Listed, Fault, TypeOK
<1>6. ASSUME NEW m \in Resolve(id, listed),
             model' = [model EXCEPT ![c] = m],
             expected' = [expected EXCEPT ![c] = Expected(c, id, listed)],
             pc' = [pc EXCEPT ![c] = First], UNCHANGED answer
      PROVE  IInv'
  <2>1. m \in Models \union {"none"}
    BY <1>1, Resolving
  <2>2. Moves(c, First, answer[c])
    BY <1>1, <1>6 DEF Moves, TypeOK
  <2>3. Expected(c, id, listed) \in {"none", m}
    BY Confirming
  <2> HIDE DEF Moves
  <2> QED BY <1>2, <1>3, <1>5, <1>6, <2>1, <2>2, <2>3, EnterKeeps
<1>7. ASSUME pc' = [pc EXCEPT ![c] = "answered"], answer' = [answer EXCEPT ![c] = "error"],
             UNCHANGED <<model, expected>>
      PROVE  IInv'
  <2>1. Moves(c, "answered", "error")
    BY <1>7 DEF Moves
  <2>2. /\ model[c] \in Models \union {"none"} /\ model' = [model EXCEPT ![c] = model[c]]
        /\ expected' = [expected EXCEPT ![c] = expected[c]]
        /\ expected[c] \in {"none", model[c]}
    BY <1>1, <1>7 DEF TypeOK, Agreed
  <2> HIDE DEF Moves
  <2> QED BY <1>2, <1>3, <1>5, <2>1, <2>2, EnterKeeps
<1> QED BY <1>4, <1>6, <1>7
-----------------------------------------------------------------------------
(* The requests that create something.                                     *)

\* Of two agent workflows under way at once neither has been alone all along.
LEMMA OnlyOne ==
    ASSUME IInv, kind = "agent", NEW c \in Calls, Active(c), NEW d \in Calls, d # c, Active(d)
    PROVE  c \notin alone /\ d \notin alone
<1>1. Alone(c) /\ Alone(d)
  BY DEF IInv
<1> QED BY <1>1 DEF Alone

LEMMA RegisterKeeps == ASSUME IInv, NEW c \in Calls, Register(c) PROVE IInv'
<1>1. PICK o \in Outcomes, next \in After("register") :
        /\ Goes(c, o, next)
        /\ datasets' = datasets \o Copies(c, Times(o))
        /\ dataset' = [dataset EXCEPT ![c] = IF o \in {"ok", "twice"} THEN Len(datasets') ELSE @]
        /\ repeated' = (repeated \/ o = "twice")
  BY DEF Register
<1>2. /\ pc[c] = "register"
      /\ UNCHANGED <<kind, testCase, run, model, shown, elapsed, objects, testCases, runs,
                     bearers, alone, settled, expected>>
  BY DEF Register, consent
<1>3. TypeOK /\ Stage(c) /\ NotYet(c) /\ Holds(c)
  BY DEF IInv
<1> DEFINE n == Times(o)
           p == IF o \in {"ok", "twice"} THEN next ELSE "answered"
           a == IF o \in {"ok", "twice"} THEN answer[c] ELSE "error"
<1>4. n \in Nat /\ (o \in {"ok", "twice"} => n > 0) /\ (o = "ok" => n = 1)
  BY DEF Outcomes, Times
<1>5. faults' \in 0..MaxFaults /\ Moves(c, p, a)
  BY <1>1, <1>3, Outcome DEF Outcomes
<1>6. /\ answer[c] = "none" /\ Made(c) = {} /\ Begun(c) = {} /\ run[c] = 0
      /\ kind \in {"agent", "model"}
      /\ \/ kind = "agent" /\ next = "list"
         \/ kind = "model" /\ next \in {"metrics", "start"}
  BY <1>1, <1>2, <1>3, Order DEF Stage, NotYet, Before, Polls, TypeOK, Kinds
<1>7. /\ datasets' \in Seq(Calls) /\ Len(datasets') = Len(datasets) + n
      /\ DOMAIN datasets = 1..Len(datasets) /\ DOMAIN datasets' = 1..Len(datasets')
      /\ Len(datasets) \in Nat /\ Len(datasets') \in Nat
      /\ \A i \in 1..Len(datasets') : datasets'[i] = IF i <= Len(datasets) THEN datasets[i] ELSE c
  <2>1. datasets \in Seq(Calls)
    BY <1>3 DEF TypeOK
  <2>2. Appended(datasets, c, n, Calls)
    BY <1>4, <2>1, Appending
  <2> QED BY <1>1, <2>2 DEF Appended
<1>8. /\ 0..Len(datasets) \subseteq 0..Len(datasets')
      /\ 1..Len(datasets) \subseteq 1..Len(datasets')
  BY <1>4, <1>7
<1> HIDE DEF n
<1>9. \A d \in Calls : /\ pc'[d] = IF d = c THEN p ELSE pc[d]
                       /\ answer'[d] = IF d = c THEN a ELSE answer[d]
                       /\ d # c => dataset'[d] = dataset[d]
                       /\ d = c /\ o \in {"ok", "twice"} => dataset'[d] = Len(datasets')
  BY <1>1, <1>3, <1>5 DEF TypeOK, Moves
<1>10. TypeOK'
  <2>1. pc' \in [Calls -> {"idle", "previewed", "metrics", "presign", "upload",
                           "register", "list", "update", "create", "start", "poll",
                           "pause", "answered"}]
    BY <1>3, <1>5, <1>6 DEF TypeOK, Moves
  <2>2. answer' \in [Calls -> {"none", "done", "error"}]
    BY <1>3, <1>5 DEF TypeOK, Moves
  <2>3. dataset' \in [Calls -> 0..Len(datasets')]
    BY <1>1, <1>3, <1>7, <1>8 DEF TypeOK
  <2>4. testCases' \in Seq(1..Len(datasets'))
    BY <1>2, <1>3, <1>8, Wider DEF TypeOK
  <2>5. Record(Len(datasets)) \subseteq Record(Len(datasets'))
    BY <1>8 DEF Record
  <2>6. runs' \in Seq(Record(Len(datasets')))
    BY <1>2, <1>3, <2>5, TheRuns, Wider
  <2>7. repeated' \in BOOLEAN
    BY <1>1, <1>3 DEF TypeOK
  <2> QED
    BY <1>2, <1>3, <1>5, <1>7, <2>1, <2>2, <2>3, <2>4, <2>6, <2>7 DEF TypeOK, Record, Past
<1>11. \A d \in Calls : /\ Begun(d)' = Begun(d)
                        /\ d # c => Made(d)' = Made(d)
  <2>1. \A d \in Calls : Begun(d)' = Begun(d)
    BY <1>2 DEF Begun
  <2>2. ASSUME NEW d \in Calls, d # c PROVE Made(d)' = Made(d)
    BY <1>7, <1>8, <2>2 DEF Made
  <2> QED BY <2>1, <2>2
<1>12. \A d \in Calls : Alone(d)'
  <2>1. \A e \in Calls : Active(e)' => Active(e)
    BY <1>2, <1>9 DEF Active
  <2>2. \A d \in Calls : kind = "agent" /\ pc'[d] = "start" => pc[d] = "start" /\ d # c
    BY <1>2, <1>6, <1>9
  <2>3. ASSUME NEW d \in Calls PROVE Alone(d)'
    <3>1. d # c => dataset'[d] = dataset[d]
      BY <1>9
    <3>2. Alone(d) /\ Begun(d)' = Begun(d) /\ (d = c => Begun(d) = {})
      BY <1>6, <1>11 DEF IInv
    <3> QED BY <1>2, <2>1, <2>2, <3>1, <3>2 DEF Alone
  <2> QED BY <2>3
<1>13. ASSUME NEW d \in Calls, d # c
       PROVE  (Stage(d) /\ NotYet(d) /\ Holds(d))'
  <2>1. Stage(d) /\ NotYet(d) /\ Holds(d)
    BY DEF IInv
  <2>2. /\ pc'[d] = pc[d] /\ answer'[d] = answer[d] /\ dataset'[d] = dataset[d]
        /\ Begun(d)' = Begun(d) /\ Made(d)' = Made(d)
    BY <1>9, <1>11, <1>13
  <2>3. Stage(d)' /\ NotYet(d)'
    BY <1>2, <2>1, <2>2 DEF Stage, NotYet, Before, Polls
  <2>4. Holds(d)'
    BY <1>1, <1>2, <1>8, <2>1, <2>2 DEF Holds, Before, Polls, Width
  <2> QED BY <2>3, <2>4
<1>14. (Stage(c) /\ NotYet(c) /\ Holds(c))'
  <2>1. pc'[c] = p /\ answer'[c] = a
    BY <1>9
  <2>2. \/ o \in {"ok", "twice"} /\ p = next /\ a = "none"
        \/ p = "answered" /\ a = "error"
    BY <1>6
  <2> HIDE DEF p, a
  <2>3. Stage(c)'
    BY <1>2, <1>6, <2>1, <2>2 DEF Stage
  <2>4. NotYet(c)'
    BY <1>2, <1>6, <1>11, <2>1, <2>2 DEF NotYet, Before, Polls
  <2>5. o = "ok" => Made(c)' \subseteq {dataset'[c]}
    BY <1>4, <1>6, <1>7, <1>8, <1>9 DEF Made, n
  <2>6. o \in {"ok", "twice"} => dataset'[c] \in 1..Len(datasets')
    BY <1>4, <1>7, <1>8, <1>9 DEF n
  <2>7. Holds(c)'
    BY <1>1, <1>2, <1>6, <1>11, <2>1, <2>2, <2>5, <2>6 DEF Holds, Before, Polls, Outcomes
  <2> QED BY <2>3, <2>4, <2>7
<1>15. OneAtATime'
  <2>1. \A d \in Calls : pc'[d] = "create" => pc[d] = "create"
    BY <1>6, <1>9
  <2> QED BY <1>1, <1>2, <2>1 DEF IInv, OneAtATime
<1>16. Stored'
  <2>1. c \in objects /\ Stored
    BY <1>2, <1>3 DEF IInv, Holds
  <2> QED BY <1>2, <1>7, <2>1 DEF Stored
<1>17. Agreed'
  <2>1. \A d \in settled : pc'[d] = "previewed"
    BY <1>2, <1>3, <1>9 DEF IInv, Agreed, TypeOK
  <2> QED BY <1>2, <2>1 DEF IInv, Agreed
<1> QED BY <1>10, <1>12, <1>13, <1>14, <1>15, <1>16, <1>17 DEF IInv
LEMMA UpdateKeeps == ASSUME IInv, NEW c \in Calls, Update(c) PROVE IInv'
<1>1. PICK o \in Outcomes :
        /\ Goes(c, o, "start")
        /\ testCases' = IF Times(o) > 0 THEN [testCases EXCEPT ![1] = dataset[c]]
                                        ELSE testCases
  BY Order DEF Update
<1>2. /\ pc[c] = "update" /\ testCase' = [testCase EXCEPT ![c] = 1]
      /\ UNCHANGED <<kind, dataset, run, model, shown, elapsed, objects, datasets, runs,
                     bearers, repeated, alone, settled, expected>>
  BY DEF Update, history
<1>3. TypeOK /\ Stage(c) /\ NotYet(c) /\ Holds(c)
  BY DEF IInv
<1> DEFINE p == IF o \in {"ok", "twice"} THEN "start" ELSE "answered"
           a == IF o \in {"ok", "twice"} THEN "none" ELSE "error"
<1>4. kind = "agent" /\ answer[c] = "none" /\ Begun(c) = {} /\ run[c] = 0
  BY <1>2, <1>3 DEF Stage, NotYet, Polls, TypeOK, Kinds
<1>5. faults' \in 0..MaxFaults /\ Moves(c, p, a)
  BY <1>1, <1>3, <1>4, Outcome DEF Outcomes
<1>6. /\ dataset[c] \in 1..Len(datasets) /\ testCases # <<>>
      /\ testCases \in Seq(1..Len(datasets))
  BY <1>2, <1>3, <1>4 DEF Holds, Before, TypeOK
<1>7. 1 \in 1..Len(testCases) /\ Len(testCases) \in Nat
  BY <1>6, EmptySeq, LenProperties
<1>8. testCases' \in Seq(1..Len(datasets)) /\ Len(testCases') = Len(testCases)
  BY <1>1, <1>6, <1>7, ExceptSeq
<1>9. o \in {"ok", "twice"} => testCases'[1] = dataset[c]
  BY <1>1, <1>6, <1>7, ExceptSeq DEF Times
<1>10. \A d \in Calls : /\ pc'[d] = IF d = c THEN p ELSE pc[d]
                        /\ answer'[d] = IF d = c THEN a ELSE answer[d]
                        /\ testCase'[d] = IF d = c THEN 1 ELSE testCase[d]
  BY <1>2, <1>3, <1>5 DEF TypeOK, Moves
<1>11. TypeOK'
  <2>1. pc' \in [Calls -> {"idle", "previewed", "metrics", "presign", "upload",
                           "register", "list", "update", "create", "start", "poll",
                           "pause", "answered"}]
    BY <1>3, <1>5 DEF TypeOK, Moves
  <2>2. answer' \in [Calls -> {"none", "done", "error"}]
    BY <1>3, <1>5 DEF TypeOK, Moves
  <2>3. testCase' \in [Calls -> 0..Len(testCases')]
    BY <1>2, <1>3, <1>7, <1>8 DEF TypeOK
  <2> QED BY <1>2, <1>3, <1>5, <1>8, <2>1, <2>2, <2>3 DEF TypeOK, Past
<1>12. \A d \in Calls : Made(d)' = Made(d) /\ Begun(d)' = Begun(d)
  BY <1>2 DEF Made, Begun
<1>13. ASSUME NEW d \in Calls, d # c
       PROVE  (Stage(d) /\ NotYet(d) /\ Holds(d) /\ Alone(d))'
  <2>1. Stage(d) /\ NotYet(d) /\ Holds(d) /\ Alone(d)
    BY DEF IInv
  <2>2. pc'[d] = pc[d] /\ answer'[d] = answer[d] /\ testCase'[d] = testCase[d]
    BY <1>10, <1>13
  <2>3. Stage(d)' /\ NotYet(d)'
    BY <1>2, <1>12, <2>1, <2>2 DEF Stage, NotYet, Before, Polls
  <2>4. Holds(d)'
    BY <1>2, <1>7, <1>8, <1>12, <2>1, <2>2, EmptySeq DEF Holds, Before, Polls, Width
  <2>5. ASSUME d \in alone' PROVE ~Active(d) /\ ~Active(d)' /\ Alone(d)
    BY <1>2, <1>4, <1>13, <2>1, <2>2, <2>5, OnlyOne DEF Active
  <2>6. Alone(d)'
    BY <1>2, <1>4, <1>12, <2>2, <2>5 DEF Alone, Active
  <2> QED BY <2>3, <2>4, <2>6
<1>14. (Stage(c) /\ NotYet(c) /\ Holds(c) /\ Alone(c))'
  <2>1. pc'[c] = p /\ answer'[c] = a /\ testCase'[c] = 1
    BY <1>10
  <2>2. \/ o \in {"ok", "twice"} /\ p = "start" /\ a = "none"
        \/ p = "answered" /\ a = "error"
    OBVIOUS
  <2> HIDE DEF p, a
  <2>3. Stage(c)' /\ NotYet(c)'
    BY <1>2, <1>4, <1>12, <2>1, <2>2 DEF Stage, NotYet, Before, Polls
  <2>4. Holds(c)'
    BY <1>2, <1>3, <1>4, <1>6, <1>7, <1>8, <1>12, <2>1, <2>2 DEF Holds, Before, Polls, Width
  <2>5. Alone(c)'
    <3>1. c \in alone' => \A d \in Calls \ {c} : ~Active(d)'
      <4>1. c \in alone => \A d \in Calls \ {c} : ~Active(d)
        BY <1>2, <1>4 DEF IInv, Alone, Active
      <4> QED BY <1>2, <1>10, <4>1 DEF Active
    <3> QED BY <1>2, <1>4, <1>9, <1>12, <2>1, <2>2, <3>1 DEF Alone
  <2> QED BY <2>3, <2>4, <2>5
<1>15. OneAtATime'
  <2>1. \A d \in Calls : pc'[d] = "create" => pc[d] = "create"
    BY <1>10
  <2> QED BY <1>2, <1>6, <1>8, <2>1 DEF IInv, OneAtATime
<1>16. Stored'
  BY <1>2 DEF IInv, Stored
<1>17. Agreed'
  <2>1. \A d \in settled : pc'[d] = "previewed"
    BY <1>2, <1>3, <1>10 DEF IInv, Agreed, TypeOK
  <2> QED BY <1>2, <2>1 DEF IInv, Agreed
<1> QED BY <1>11, <1>13, <1>14, <1>15, <1>16, <1>17 DEF IInv

LEMMA CreateKeeps == ASSUME IInv, NEW c \in Calls, Create(c) PROVE IInv'
<1>1. PICK o \in Outcomes :
        /\ Goes(c, o, "start")
        /\ testCases' = testCases \o Copies(dataset[c], Times(o))
        /\ testCase' = [testCase EXCEPT ![c] = Len(testCases')]
        /\ repeated' = (repeated \/ o = "twice")
  BY Order DEF Create
<1>2. /\ pc[c] = "create"
      /\ UNCHANGED <<kind, dataset, run, model, shown, elapsed, objects, datasets, runs,
                     bearers, alone, settled, expected>>
  BY DEF Create, consent
<1>3. TypeOK /\ Stage(c) /\ NotYet(c) /\ Holds(c)
  BY DEF IInv
<1> DEFINE n == Times(o)
           p == IF o \in {"ok", "twice"} THEN "start" ELSE "answered"
           a == IF o \in {"ok", "twice"} THEN "none" ELSE "error"
<1>4. kind = "agent" /\ answer[c] = "none" /\ Begun(c) = {} /\ run[c] = 0
  BY <1>2, <1>3 DEF Stage, NotYet, Polls, TypeOK, Kinds
<1>5. faults' \in 0..MaxFaults /\ Moves(c, p, a)
  BY <1>1, <1>3, <1>4, Outcome DEF Outcomes
<1>6. n \in Nat /\ (o \in {"ok", "twice"} => n > 0) /\ (o # "twice" => n <= 1)
  BY DEF Outcomes, Times
<1>7. dataset[c] \in 1..Len(datasets) /\ testCases \in Seq(1..Len(datasets))
  BY <1>2, <1>3, <1>4 DEF Holds, Before, TypeOK
<1>8. /\ testCases' \in Seq(1..Len(datasets)) /\ Len(testCases') = Len(testCases) + n
      /\ Len(testCases) \in Nat /\ Len(testCases') \in Nat
      /\ \A i \in 1..Len(testCases') :
            testCases'[i] = IF i <= Len(testCases) THEN testCases[i] ELSE dataset[c]
  <2>1. Appended(testCases, dataset[c], n, 1..Len(datasets))
    BY <1>6, <1>7, Appending
  <2> QED BY <1>1, <2>1 DEF Appended
<1> HIDE DEF n
<1>9. \A d \in Calls : /\ pc'[d] = IF d = c THEN p ELSE pc[d]
                       /\ answer'[d] = IF d = c THEN a ELSE answer[d]
                       /\ testCase'[d] = IF d = c THEN Len(testCases') ELSE testCase[d]
  BY <1>1, <1>3, <1>5 DEF TypeOK, Moves
<1>10. TypeOK'
  <2>1. pc' \in [Calls -> {"idle", "previewed", "metrics", "presign", "upload",
                           "register", "list", "update", "create", "start", "poll",
                           "pause", "answered"}]
    BY <1>3, <1>5 DEF TypeOK, Moves
  <2>2. answer' \in [Calls -> {"none", "done", "error"}]
    BY <1>3, <1>5 DEF TypeOK, Moves
  <2>3. testCase' \in [Calls -> 0..Len(testCases')]
    <3>1. testCase \in [Calls -> 0..Len(testCases)]
      BY <1>3 DEF TypeOK
    <3>2. 0..Len(testCases) \subseteq 0..Len(testCases') /\ Len(testCases') \in 0..Len(testCases')
      BY <1>6, <1>8
    <3> QED BY <1>1, <3>1, <3>2
  <2>4. repeated' \in BOOLEAN
    BY <1>1, <1>3 DEF TypeOK
  <2> QED BY <1>2, <1>3, <1>5, <1>8, <2>1, <2>2, <2>3, <2>4 DEF TypeOK, Past
<1>11. \A d \in Calls : Made(d)' = Made(d) /\ Begun(d)' = Begun(d)
  BY <1>2 DEF Made, Begun
<1>12. ASSUME NEW d \in Calls, d # c
       PROVE  (Stage(d) /\ NotYet(d) /\ Holds(d) /\ Alone(d))'
  <2>1. Stage(d) /\ NotYet(d) /\ Holds(d) /\ Alone(d)
    BY DEF IInv
  <2>2. pc'[d] = pc[d] /\ answer'[d] = answer[d] /\ testCase'[d] = testCase[d]
    BY <1>9, <1>12
  <2>3. Stage(d)' /\ NotYet(d)'
    BY <1>2, <1>11, <2>1, <2>2 DEF Stage, NotYet, Before, Polls
  <2>4. testCases # <<>> => testCases' # <<>>
    BY <1>6, <1>7, <1>8, EmptySeq
  <2>5. testCase[d] \in 1..Len(testCases) => testCase'[d] \in 1..Len(testCases')
    BY <1>6, <1>8, <2>2
  <2>6. Holds(d)'
    BY <1>1, <1>2, <1>11, <2>1, <2>2, <2>4, <2>5 DEF Holds, Before, Polls, Width
  <2>7. ASSUME d \in alone' PROVE ~Active(d) /\ ~Active(d)' /\ Alone(d)
    BY <1>2, <1>4, <1>12, <2>1, <2>2, <2>7, OnlyOne DEF Active
  <2>8. Alone(d)'
    BY <1>2, <1>4, <1>11, <2>2, <2>7 DEF Alone, Active
  <2> QED BY <2>3, <2>6, <2>8
<1>13. (Stage(c) /\ NotYet(c) /\ Holds(c) /\ Alone(c))'
  <2>1. pc'[c] = p /\ answer'[c] = a /\ testCase'[c] = Len(testCases')
    BY <1>9
  <2>2. \/ o \in {"ok", "twice"} /\ p = "start" /\ a = "none"
        \/ p = "answered" /\ a = "error"
    OBVIOUS
  <2> HIDE DEF p, a
  <2>3. Stage(c)' /\ NotYet(c)'
    BY <1>2, <1>4, <1>11, <2>1, <2>2 DEF Stage, NotYet, Before, Polls
  <2>4. o \in {"ok", "twice"} => /\ Len(testCases') \in 1..Len(testCases')
                                 /\ testCases'[Len(testCases')] = dataset[c]
    BY <1>6, <1>8
  <2>5. Holds(c)'
    BY <1>1, <1>2, <1>3, <1>4, <1>7, <1>11, <2>1, <2>2, <2>4 DEF Holds, Before, Polls, Width
  <2>6. Alone(c)'
    <3>1. c \in alone' => \A d \in Calls \ {c} : ~Active(d)'
      <4>1. c \in alone => \A d \in Calls \ {c} : ~Active(d)
        BY <1>2, <1>4 DEF IInv, Alone, Active
      <4> QED BY <1>2, <1>9, <4>1 DEF Active
    <3> QED BY <1>2, <1>4, <1>11, <2>1, <2>2, <2>4, <3>1 DEF Alone
  <2> QED BY <2>3, <2>5, <2>6
<1>14. OneAtATime'
  <2> SUFFICES ASSUME alone' = Calls, ~repeated'
               PROVE  /\ Len(testCases') <= 1
                      /\ \A d \in Calls : pc'[d] = "create" => testCases' = <<>>
    BY DEF OneAtATime
  <2>1. testCases = <<>> /\ o # "twice"
    BY <1>1, <1>2 DEF IInv, OneAtATime
  <2>2. Len(testCases') <= 1
    BY <1>6, <1>8, <2>1, EmptySeq
  <2>3. ASSUME NEW d \in Calls PROVE pc'[d] # "create"
    <3>1. pc[c] = "create" /\ Active(c)
      BY <1>2 DEF Active
    <3>2. d # c => ~Active(d)
      BY <1>2, <1>4, <3>1, OnlyOne
    <3> QED BY <1>9, <3>2 DEF Active
  <2> QED BY <2>2, <2>3
<1>15. Stored'
  BY <1>2 DEF IInv, Stored
<1>16. Agreed'
  <2>1. \A d \in settled : pc'[d] = "previewed"
    BY <1>2, <1>3, <1>9 DEF IInv, Agreed, TypeOK
  <2> QED BY <1>2, <2>1 DEF IInv, Agreed
<1> QED BY <1>10, <1>12, <1>13, <1>14, <1>15, <1>16 DEF IInv
\* How many runs a request starts that is executed so often.
LEMMA Starting ==
    ASSUME TypeOK, NEW o \in Outcomes
    PROVE  /\ Width \in Nat \ {0} /\ Width * Times(o) \in Nat
           /\ o \in {"ok", "twice"} => Width * Times(o) >= Width
           /\ o = "ok" => Width * Times(o) = Width
<1>1. Width \in Nat \ {0}
  BY AgentsAssumption DEF Width
<1>2. Times(o) \in {0, 1, 2} /\ (o = "ok" => Times(o) = 1) /\ (o = "twice" => Times(o) = 2)
  BY DEF Outcomes, Times
<1> QED BY <1>1, <1>2

LEMMA StartKeeps == ASSUME IInv, NEW c \in Calls, Start(c) PROVE IInv'
<1>1. PICK o \in Outcomes :
        /\ IF kind = "run" /\ o \in {"ok", "twice"}
           THEN /\ Fault(o)
                /\ pc' = [pc EXCEPT ![c] = "answered"]
                /\ answer' = [answer EXCEPT ![c] = "done"]
           ELSE Goes(c, o, "poll")
        /\ runs' = runs \o Copies(NewRun(c), Width * Times(o))
        /\ run' = [run EXCEPT ![c] = IF o \in {"ok", "twice"}
                                     THEN Len(runs') - Width + 1 ELSE @]
        /\ repeated' = (repeated \/ o = "twice")
  BY DEF Start
<1>2. /\ pc[c] = "start"
      /\ UNCHANGED <<kind, dataset, testCase, model, shown, elapsed, objects, datasets,
                     testCases, bearers, alone, settled, expected>>
  BY DEF Start, consent
<1>3. TypeOK /\ Stage(c) /\ NotYet(c) /\ Holds(c) /\ Alone(c) /\ Agreed
  BY DEF IInv
<1> DEFINE n == Width * Times(o)
           w == Width
           good == o \in {"ok", "twice"}
           p == IF good /\ kind # "run" THEN "poll" ELSE "answered"
           a == IF ~good THEN "error" ELSE IF kind = "run" THEN "done" ELSE "none"
           first == Len(runs') - Width + 1
           Rec == Record(Len(datasets))
<1>4. answer[c] = "none" /\ Begun(c) = {} /\ run[c] = 0
  BY <1>2, <1>3 DEF Stage, NotYet, Polls, TypeOK
<1>5. faults' \in 0..MaxFaults /\ Moves(c, p, a)
  <2>1. CASE kind = "run" /\ good
    BY <1>1, <1>3, <2>1, TimesAssumption DEF Fault, Moves, TypeOK
  <2>2. CASE ~(kind = "run" /\ good)
    BY <1>1, <1>3, <1>4, <2>2, Outcome DEF Outcomes
  <2> QED BY <2>1, <2>2
<1>6. w \in Nat \ {0} /\ n \in Nat /\ (good => n >= w) /\ (o = "ok" => n = w)
  BY <1>3, Starting
<1>7. NewRun(c) \in Rec
  <2>1. model[c] \in Models \union {"none"} /\ dataset[c] \in 0..Len(datasets)
    BY <1>3 DEF TypeOK
  <2>2. kind = "agent" => testCases[testCase[c]] \in 0..Len(datasets)
    <3>1. kind = "agent" => testCase[c] \in 1..Len(testCases)
      BY <1>2, <1>3 DEF Holds
    <3>2. testCases \in Seq(1..Len(datasets))
      BY <1>3 DEF TypeOK
    <3>3. kind = "agent" => testCases[testCase[c]] \in 1..Len(datasets)
      BY <3>1, <3>2, ElementOfSeq
    <3> QED BY <3>3
  <2> QED BY <2>1, <2>2 DEF NewRun, Record
<1>8. /\ NewRun(c).by = c /\ NewRun(c).model = model[c]
      /\ c \in alone \/ kind # "agent" => NewRun(c).dataset = dataset[c]
  BY <1>2, <1>3 DEF NewRun, Alone
<1>9. /\ runs' \in Seq(Rec) /\ Len(runs') = Len(runs) + n
      /\ DOMAIN runs = 1..Len(runs) /\ DOMAIN runs' = 1..Len(runs')
      /\ Len(runs) \in Nat /\ Len(runs') \in Nat
      /\ \A i \in 1..Len(runs') : runs'[i] = IF i <= Len(runs) THEN runs[i] ELSE NewRun(c)
  <2>1. Appended(runs, NewRun(c), n, Rec)
    BY <1>3, <1>6, <1>7, TheRuns, Appending
  <2> QED BY <1>1, <2>1 DEF Appended
<1> HIDE DEF n, Rec
<1>10. 0..Len(runs) \subseteq 0..Len(runs') /\ 1..Len(runs) \subseteq 1..Len(runs')
  BY <1>6, <1>9
<1>11. first = Len(runs') - w + 1
  OBVIOUS
<1> HIDE DEF w, first
<1>12. good => /\ first \in 1..Len(runs') /\ first > Len(runs)
               /\ runs'[first] = NewRun(c)
  <2>1. good => first \in 1..Len(runs') /\ first > Len(runs)
    BY <1>6, <1>9, <1>11
  <2> QED BY <1>9, <2>1
<1>13. \A d \in Calls : /\ pc'[d] = IF d = c THEN p ELSE pc[d]
                        /\ answer'[d] = IF d = c THEN a ELSE answer[d]
                        /\ d # c => run'[d] = run[d]
                        /\ d = c => run'[d] = IF good THEN first ELSE run[d]
  BY <1>1, <1>3, <1>5 DEF TypeOK, Moves, first
<1>14. TypeOK'
  <2>1. pc' \in [Calls -> {"idle", "previewed", "metrics", "presign", "upload",
                           "register", "list", "update", "create", "start", "poll",
                           "pause", "answered"}]
    BY <1>3, <1>5 DEF TypeOK, Moves
  <2>2. answer' \in [Calls -> {"none", "done", "error"}]
    BY <1>3, <1>5 DEF TypeOK, Moves
  <2>3. run' \in [Calls -> 0..Len(runs')]
    <3>1. run \in [Calls -> 0..Len(runs)]
      BY <1>3 DEF TypeOK
    <3>2. run' = [run EXCEPT ![c] = IF good THEN first ELSE @]
      BY <1>1 DEF first
    <3>3. good => first \in 0..Len(runs')
      BY <1>12
    <3> HIDE DEF good
    <3> QED BY <1>10, <3>1, <3>2, <3>3
  <2>4. repeated' \in BOOLEAN
    BY <1>1, <1>3 DEF TypeOK
  <2> QED
    BY <1>2, <1>3, <1>5, <1>9, <2>1, <2>2, <2>3, <2>4 DEF TypeOK, Record, Rec, Past
<1>15. /\ \A d \in Calls : /\ Made(d)' = Made(d)
                           /\ d # c => Begun(d)' = Begun(d)
       /\ \A r \in Begun(c)' : r \in (Len(runs) + 1)..Len(runs') /\ runs'[r] = NewRun(c)
       /\ \A d \in Calls : \A r \in Begun(d) : r \in 1..Len(runs) /\ runs'[r] = runs[r]
  <2>1. \A d \in Calls : Made(d)' = Made(d)
    BY <1>2 DEF Made
  <2>2. ASSUME NEW d \in Calls, d # c PROVE Begun(d)' = Begun(d)
    BY <1>8, <1>9, <1>10, <2>2 DEF Begun
  <2>3. ASSUME NEW r \in Begun(c)'
        PROVE  r \in (Len(runs) + 1)..Len(runs') /\ runs'[r] = NewRun(c)
    <3>1. r \in 1..Len(runs') /\ runs'[r].by = c
      BY <1>9 DEF Begun
    <3>2. ~(r <= Len(runs))
      BY <1>4, <1>9, <3>1 DEF Begun
    <3> QED BY <1>9, <3>1, <3>2
  <2>4. ASSUME NEW d \in Calls, NEW r \in Begun(d)
        PROVE  r \in 1..Len(runs) /\ runs'[r] = runs[r]
    BY <1>9, <1>10 DEF Begun
  <2> QED BY <2>1, <2>2, <2>3, <2>4
<1>16. ASSUME NEW d \in Calls, d # c
       PROVE  (Stage(d) /\ NotYet(d) /\ Holds(d) /\ Alone(d))'
  <2>1. Stage(d) /\ NotYet(d) /\ Holds(d) /\ Alone(d)
    BY DEF IInv
  <2>2. pc'[d] = pc[d] /\ answer'[d] = answer[d] /\ run'[d] = run[d]
        /\ Made(d)' = Made(d) /\ Begun(d)' = Begun(d)
    BY <1>13, <1>15, <1>16
  <2>3. Stage(d)' /\ NotYet(d)'
    BY <1>2, <2>1, <2>2 DEF Stage, NotYet, Before, Polls
  <2>4. Polls(d)' => Polls(d) /\ run[d] \in 1..Len(runs) /\ runs'[run[d]] = runs[run[d]]
    BY <1>9, <1>10, <2>1, <2>2 DEF Holds, Polls
  <2>5. Holds(d)'
    BY <1>1, <1>2, <1>10, <2>1, <2>2, <2>4 DEF Holds, Before, Polls, Width
  <2>6. Alone(d)'
    <3>1. \A e \in Calls : Active(e)' => Active(e)
      BY <1>2, <1>13 DEF Active
    <3>2. \A r \in Begun(d) : runs'[r] = runs[r]
      BY <1>15
    <3> QED BY <1>2, <2>1, <2>2, <3>1, <3>2 DEF Alone
  <2> QED BY <2>3, <2>5, <2>6
<1>17. (Stage(c) /\ NotYet(c) /\ Holds(c) /\ Alone(c))'
  <2>1. pc'[c] = p /\ answer'[c] = a /\ run'[c] = IF good THEN first ELSE run[c]
    BY <1>13
  <2>2. \/ good /\ kind # "run" /\ p = "poll" /\ a = "none"
        \/ good /\ kind = "run" /\ p = "answered" /\ a = "done"
        \/ ~good /\ p = "answered" /\ a = "error"
    OBVIOUS
  <2>3. o = "ok" => Begun(c)' \subseteq run'[c]..(run'[c] + Width - 1)
    <3>1. o = "ok" => run'[c] = Len(runs) + 1 /\ Len(runs') = run'[c] + w - 1
      BY <1>6, <1>9, <1>11, <2>1
    <3>2. \A r \in Begun(c)' : r \in (Len(runs) + 1)..Len(runs')
      BY <1>15
    <3>3. w = Width
      BY DEF w
    <3> QED BY <3>1, <3>2, <3>3
  <2>4. ~repeated' /\ answer'[c] # "error" => o = "ok" /\ ~repeated
    BY <1>1, <2>1, <2>2
  <2>5. Made(c)' = Made(c) /\ Width' = Width
    BY <1>2, <1>15 DEF Width
  <2> HIDE DEF p, a, good
  <2>6. Stage(c)'
    BY <1>2, <1>3, <2>1, <2>2 DEF Stage, TypeOK, Kinds
  <2>7. NotYet(c)'
    BY <1>2, <1>3, <2>1, <2>2, <2>5 DEF NotYet, Before, Polls
  <2>8. Holds(c)'
    <3>1. Before(c) \/ dataset[c] \in 1..Len(datasets)
      BY <1>2, <1>3 DEF Holds
    <3>2. (Before(c) \/ pc[c] = "answered" \/ dataset[c] \in 1..Len(datasets))'
      BY <1>2, <2>1, <2>2, <3>1 DEF Before
    <3>3. Polls(c)' => /\ run'[c] \in 1..Len(runs') /\ runs'[run'[c]].by = c
                       /\ ~(answer'[c] = "done" /\ kind' # "run")
      BY <1>2, <1>8, <1>12, <2>1, <2>2 DEF Polls
    <3>4. ~repeated' /\ answer'[c] # "error" =>
             Made(c)' \subseteq {dataset'[c]} /\ Begun(c)' \subseteq run'[c]..(run'[c] + Width' - 1)
      BY <1>2, <1>3, <1>4, <2>3, <2>4, <2>5 DEF Holds
    <3> QED BY <2>1, <2>2, <3>2, <3>3, <3>4 DEF Holds
  <2>9. Alone(c)'
    <3>1. c \in alone' /\ kind = "agent" => \A d \in Calls \ {c} : ~Active(d)'
      <4>1. c \in alone /\ kind = "agent" => \A d \in Calls \ {c} : ~Active(d)
        BY <1>2, <1>3 DEF Alone, Active
      <4> QED BY <1>2, <1>13, <4>1 DEF Active
    <3>2. c \in alone \/ kind # "agent" => \A r \in Begun(c)' : runs'[r].dataset = dataset[c]
      BY <1>8, <1>15
    <3> QED BY <1>2, <2>1, <2>2, <3>1, <3>2 DEF Alone
  <2> QED BY <2>6, <2>7, <2>8, <2>9
<1>18. OneAtATime'
  <2>1. \A d \in Calls : pc'[d] = "create" => pc[d] = "create"
    BY <1>13
  <2> QED BY <1>1, <1>2, <2>1 DEF IInv, OneAtATime
<1>19. Stored'
  BY <1>2 DEF IInv, Stored
<1>20. Agreed'
  <2>1. \A d \in settled : pc'[d] = "previewed"
    BY <1>2, <1>3, <1>13 DEF Agreed, TypeOK
  <2>2. \A i \in 1..Len(runs') : \/ i \in 1..Len(runs) /\ runs'[i] = runs[i]
                                 \/ runs'[i] = NewRun(c)
    BY <1>9
  <2> QED BY <1>2, <1>3, <1>8, <2>1, <2>2 DEF Agreed
<1> QED BY <1>14, <1>16, <1>17, <1>18, <1>19, <1>20 DEF IInv
-----------------------------------------------------------------------------
(* The invariant, and what follows from it.                                *)

LEMMA InitIInv == Init => IInv
<1> SUFFICES ASSUME Init PROVE IInv
  OBVIOUS
<1> USE DEF Init
<1>1. TypeOK
  <2>1. <<>> \in Seq(Calls) /\ <<>> \in Seq(1..0) /\ <<>> \in Seq(Record(0)) /\ Len(<<>>) = 0
    BY EmptySeq
  <2>2. 0 \in 0..Past /\ 0 \in 0..0 /\ 0 \in 0..MaxFaults
    BY TimesAssumption DEF Past
  <2>3. bearers \subseteq Models
    OBVIOUS
  <2> QED BY <2>1, <2>2, <2>3 DEF TypeOK, Record
<1>2. \A c \in Calls : Made(c) = {} /\ Begun(c) = {}
  BY DEF Made, Begun
<1>3. ASSUME NEW c \in Calls PROVE Stage(c) /\ NotYet(c) /\ Holds(c) /\ Alone(c)
  BY <1>2 DEF Stage, NotYet, Holds, Alone, Before, Polls, Active, Kinds
<1>4. OneAtATime
  BY EmptySeq DEF OneAtATime
<1>5. Stored /\ Agreed
  BY EmptySeq DEF Stored, Agreed
<1> QED BY <1>1, <1>3, <1>4, <1>5 DEF IInv

LEMMA NextKeeps == IInv /\ [Next]_vars => IInv'
<1> SUFFICES ASSUME IInv, [Next]_vars PROVE IInv'
  OBVIOUS
<1>1. CASE \E c \in Calls : Begin(c) \/ Preview(c) \/ Confirm(c) \/ Work(c)
  <2>1. PICK c \in Calls : Begin(c) \/ Preview(c) \/ Confirm(c) \/ Work(c)
    BY <1>1
  <2>2. CASE Begin(c) \/ Preview(c) \/ Confirm(c)
    BY <2>2, BeginKeeps, PreviewKeeps, ConfirmKeeps
  <2>3. CASE Work(c)
    BY <2>3, AskKeeps, UploadKeeps, RegisterKeeps, ListKeeps, UpdateKeeps, CreateKeeps,
       StartKeeps, PollKeeps, GiveUpKeeps, PauseKeeps DEF Work
  <2> QED BY <2>1, <2>2, <2>3
<1>2. CASE \E r \in DOMAIN runs : RunEnds(r)
  BY <1>2, RunEndsKeeps
<1>3. CASE Rename
  BY <1>3, RenameKeeps
<1>4. CASE UNCHANGED vars
  <2> USE DEF vars
  <2>1. TypeOK'
    BY <1>4 DEF IInv, TypeOK, Past
  <2>2. \A d \in Calls : Made(d)' = Made(d) /\ Begun(d)' = Begun(d)
    BY <1>4 DEF Made, Begun
  <2>3. ASSUME NEW d \in Calls PROVE (Stage(d) /\ NotYet(d) /\ Holds(d) /\ Alone(d))'
    BY <1>4, <2>2 DEF IInv, Stage, NotYet, Holds, Alone, Before, Polls, Active, Width
  <2>4. OneAtATime' /\ Stored' /\ Agreed'
    BY <1>4 DEF IInv, OneAtATime, Stored, Agreed
  <2> QED BY <2>1, <2>3, <2>4 DEF IInv
<1> QED BY <1>1, <1>2, <1>3, <1>4 DEF Next

\* What the properties below are read from.
THEOREM Invariance == Spec => []IInv
<1> QED BY InitIInv, NextKeeps, PTL DEF Spec

\* The types: the dataset, test case and run a call holds exist.
THEOREM TypeCorrect == Spec => []TypeOK
<1>1. IInv => TypeOK
  BY DEF IInv
<1> QED BY <1>1, Invariance, PTL

\* What a workflow reports is its own run's outcome, and all its runs are of its
\* own dataset unless another call was under way with it.
THEOREM AnswersAreTheirRuns == Spec => []AnswerIsItsRun
<1>1. IInv => AnswerIsItsRun
  <2> SUFFICES ASSUME IInv, NEW c \in Calls, answer[c] = "done"
               PROVE  /\ runs[run[c]].by = c
                      /\ kind # "run" => runs[run[c]].ended
                      /\ c \in alone => \A r \in Begun(c) : runs[r].dataset = dataset[c]
    BY DEF AnswerIsItsRun
  <2> QED BY DEF IInv, Holds, Alone, Polls
<1> QED BY <1>1, Invariance, PTL

\* Calls that come one after the other share one test case.
THEOREM RetriesShareATestCase == Spec => []OneTestCase
<1>1. IInv => OneTestCase
  BY DEF IInv, OneAtATime, OneTestCase
<1> QED BY <1>1, Invariance, PTL

\* No dataset is without its file, and what a call that succeeded has made can be
\* found from its answer, for every number of agents: the runs of one request are
\* all it has begun, and the one it names leads to its dataset.
THEOREM AllIsAccountedFor == Spec => []MadeIsAccountedFor
<1>1. IInv => MadeIsAccountedFor
  <2> SUFFICES ASSUME IInv PROVE MadeIsAccountedFor
    OBVIOUS
  <2>1. DOMAIN datasets = 1..Len(datasets)
    BY LenProperties DEF IInv, TypeOK
  <2>2. ASSUME NEW c \in Calls, answer[c] = "done", ~repeated
        PROVE  Made(c) \subseteq Found(c) /\ Begun(c) \subseteq run[c]..(run[c] + Width - 1)
    <3>1. Holds(c) /\ Alone(c) /\ TypeOK
      BY DEF IInv
    <3>2. /\ Made(c) \subseteq {dataset[c]} /\ Begun(c) \subseteq run[c]..(run[c] + Width - 1)
          /\ run[c] \in 1..Len(runs) /\ runs[run[c]].by = c
      BY <2>2, <3>1 DEF Holds, Polls
    <3>3. run[c] \in Begun(c)
      BY <3>1, <3>2, TheRuns DEF Begun
    <3>4. dataset[c] \in Found(c)
      BY <3>1, <3>3 DEF Found, Alone
    <3> QED BY <3>2, <3>4
  <2> QED BY <2>1, <2>2 DEF IInv, Stored, MadeIsAccountedFor
<1> QED BY <1>1, Invariance, PTL

\* Whatever is renamed between preview and yes and whichever list fails, the run is
\* of the model that was shown to a user who passes its uuid; by name alone, if
\* nothing was renamed and both lists came.
THEOREM RunsAreAsShown == Spec => []AsShown
<1>1. IInv => AsShown
  <2> SUFFICES ASSUME IInv, NEW r \in DOMAIN runs, expected[runs[r].by] # "none"
               PROVE  runs[r].model = expected[runs[r].by]
    BY DEF AsShown
  <2>1. r \in 1..Len(runs) /\ runs[r].by \in Calls
    BY TheRuns DEF IInv, Record
  <2> QED BY <2>1 DEF IInv, Agreed
<1> QED BY <1>1, Invariance, PTL
=============================================================================
