----------------------------- MODULE Evaluations -----------------------------
(***************************************************************************)
(* The evaluation workflows of pkg/registry/genai: calls of one tool, each *)
(* a chain of requests to the API that ends with polling a run.            *)
(*                                                                         *)
(*   - "agent" is runEvaluationWorkflow: load the dataset, list metrics,   *)
(*     upload and register the dataset, find the test case of that name    *)
(*     and update it or create it, start a run of it for each agent, poll  *)
(*     the first;                                                          *)
(*   - "model" is runWorkflow: resolve the model and show what would be    *)
(*     run, then, called again with the user's yes, resolve it again,      *)
(*     upload, register, list metrics if none were given, start, poll;     *)
(*   - "run" is createRun: the same preview and consent, then start.       *)
(*                                                                         *)
(* All calls use one workspace, one name of a test case and one name of a  *)
(* model, which a model of the catalogue and a custom one may bear.  A     *)
(* request fails before or after it was executed, or godo has repeated it  *)
(* after an answer that was lost: each of these is a fault.                *)
(***************************************************************************)
EXTENDS Naturals, Sequences, FiniteSets

CONSTANTS
    Calls,      \* the calls: of several clients, or one that tries again
    Agents,     \* how many agents and deployments an agent workflow names
    Timeout,    \* timeout_seconds
    Interval,   \* poll_interval_seconds
    MaxFaults   \* bound: how many requests go wrong

ASSUME CallsAssumption == IsFiniteSet(Calls)
ASSUME AgentsAssumption == Agents \in Nat \ {0}
ASSUME TimesAssumption == Timeout \in Nat /\ Interval \in Nat \ {0} /\ MaxFaults \in Nat

VARIABLES
    kind,       \* which workflow the calls are of
    pc,         \* where a call is
    dataset,    \* the dataset a call has registered, 0 before
    testCase,   \* the test case it has found or created
    run,        \* the run it polls and reports: the first it was told of
    model,      \* the model it has resolved
    shown,      \* the model its last preview has shown
    elapsed,    \* how long it has been polling
    answer,     \* "none", "done" or "error"
    objects,    \* the service: whose datasets are in object storage,
    datasets,   \* the registered datasets (who registered them),
    testCases,  \* the test cases of that name (the dataset of each),
    runs,       \* the runs,
    bearers,    \* and the models that have the name now
    faults,     \* how many requests have gone wrong
    repeated,   \* history: whether godo has repeated a creation,
    alone,      \* agent workflows that never ran next to another one,
    settled,    \* previewed calls since whose preview nothing was renamed,
    expected    \* and the model the user of a call may count on

vars == <<kind, pc, dataset, testCase, run, model, shown, elapsed, answer, objects,
          datasets, testCases, runs, bearers, faults, repeated, alone, settled, expected>>

own     == <<dataset, testCase, run, model, shown, elapsed>>
service == <<objects, datasets, testCases, runs, bearers>>
history == <<repeated, alone, settled, expected>>
consent == <<settled, expected>>

Kinds == {"agent", "model", "run"}
Models == {"catalog", "custom"}   \* the two that may bear the name
Past == Timeout + 1               \* bound: all times after the deadline are one
Width == IF kind = "agent" THEN Agents ELSE 1   \* the runs one request starts

Outcomes == {"ok", "refused", "lost", "twice"}
Times(o) == CASE o = "refused" -> 0 [] o \in {"ok", "lost"} -> 1 [] o = "twice" -> 2
Copies(x, n) == [i \in 1..n |-> x]

Active(c) == pc[c] \notin {"idle", "previewed", "answered"}

\* The requests that may follow this one.  A model workflow that was given its
\* metrics lists none.
First == IF kind = "agent" THEN "metrics" ELSE IF kind = "model" THEN "presign" ELSE "start"
After(p) ==
    CASE p = "metrics"  -> {IF kind = "agent" THEN "presign" ELSE "start"}
      [] p = "presign"  -> {"upload"}
      [] p = "upload"   -> {"register"}
      [] p = "register" -> IF kind = "agent" THEN {"list"} ELSE {"metrics", "start"}
      [] p \in {"update", "create"} -> {"start"}

-----------------------------------------------------------------------------
(* What becomes of a request: the call goes on, or answers with the error. *)

Fault(o) ==
    /\ o # "ok" => faults < MaxFaults
    /\ faults' = IF o = "ok" THEN faults ELSE faults + 1

Goes(c, o, next) ==
    /\ Fault(o)
    /\ IF o \in {"ok", "twice"}
       THEN pc' = [pc EXCEPT ![c] = next] /\ UNCHANGED answer
       ELSE /\ pc' = [pc EXCEPT ![c] = "answered"]
            /\ answer' = [answer EXCEPT ![c] = "error"]

-----------------------------------------------------------------------------
(* The beginning.                                                          *)

Enter(c) ==
    alone' = IF \E d \in Calls \ {c} : Active(d)
             THEN alone \ ({c} \union {d \in Calls : Active(d)})
             ELSE alone

\* The arguments are checked and the file is loaded and validated first.
Begin(c) ==
    /\ kind = "agent" /\ pc[c] = "idle" /\ Enter(c)
    /\ pc' = [pc EXCEPT ![c] = First]
    /\ UNCHANGED <<kind, own, answer, service, faults, repeated, consent>>

\* The models of both lists whose name is exactly the given one: one must be
\* left.  A list that fails, or a model whose own request does, is left out
\* without a word.  If no model has the name, the catalogue is searched again.
ByName(listed) ==
    LET exact == bearers \intersect listed
    IN  IF exact = {} THEN bearers \intersect {"catalog"} ELSE {m \in exact : exact = {m}}

\* candidate_model_uuid, when it is given ("none" else), and the name must be of
\* the same model.  Mutant: a uuid that is not listed falls back on the name.
Resolve_OrByName(id, listed) ==
    IF id \notin listed THEN ByName(listed) ELSE {id} \intersect bearers
Resolve(id, listed) ==
    IF id = "none" THEN ByName(listed) ELSE {id} \intersect listed \intersect bearers

Listed(listed) == Fault(IF listed = Models THEN "ok" ELSE "refused")

\* A call without a message: what it shows is kept by the client alone.  One
\* that resolves no model, or two, changes nothing.
Preview(c) ==
    /\ kind # "agent" /\ pc[c] \in {"idle", "previewed"}
    /\ \E id \in Models \union {"none"}, listed \in SUBSET Models :
          /\ Listed(listed)
          /\ \E m \in Resolve(id, listed) : shown' = [shown EXCEPT ![c] = m]
    /\ settled' = settled \union {c}
    /\ pc' = [pc EXCEPT ![c] = "previewed"]
    /\ UNCHANGED <<kind, dataset, testCase, run, model, elapsed, answer, service,
                   repeated, alone, expected>>

\* The user may count on the model that was shown if the call names its uuid, as
\* the preview asks for, or if the name meant the same and both lists came.
Expected(c, id, listed) ==
    IF \/ id = shown[c]
       \/ id = "none" /\ c \in settled /\ listed = Models
    THEN shown[c] ELSE "none"

\* A call whose message is a yes.  Whether it was preceded by a preview is not
\* looked at.  All is resolved again from the arguments of this call; if no model
\* is, or two are, it is over.
Confirm(c) ==
    /\ kind # "agent" /\ pc[c] \in {"idle", "previewed"}
    /\ \E id \in Models \union {"none"}, listed \in SUBSET Models :
          \/ \E m \in Resolve(id, listed) :
                /\ Listed(listed)
                /\ model' = [model EXCEPT ![c] = m]
                /\ expected' = [expected EXCEPT ![c] = Expected(c, id, listed)]
                /\ pc' = [pc EXCEPT ![c] = First] /\ UNCHANGED answer
          \/ /\ \/ Resolve(id, listed) = {} /\ Listed(listed)
                \/ Fault("refused")
             /\ pc' = [pc EXCEPT ![c] = "answered"]
             /\ answer' = [answer EXCEPT ![c] = "error"]
             /\ UNCHANGED <<model, expected>>
    /\ shown' = [shown EXCEPT ![c] = "none"] /\ settled' = settled \ {c}
    /\ UNCHANGED <<kind, dataset, testCase, run, elapsed, service, repeated, alone>>

-----------------------------------------------------------------------------
(* The requests.                                                           *)

Ask(c) ==
    /\ pc[c] \in {"metrics", "presign"}
    /\ \E o \in {"ok", "refused"}, next \in After(pc[c]) : Goes(c, o, next)
    /\ UNCHANGED <<kind, own, service, history>>

\* A PUT with a client of its own that does not repeat it.
Upload(c) ==
    /\ pc[c] = "upload"
    /\ \E o \in Outcomes \ {"twice"}, next \in After("upload") :
          /\ Goes(c, o, next)
          /\ objects' = IF Times(o) > 0 THEN objects \union {c} ELSE objects
    /\ UNCHANGED <<kind, own, datasets, testCases, runs, bearers, history>>

\* Mutant: a registration whose answer is lost is sent once more.
Register_Again(c) ==
    /\ pc[c] = "register"
    /\ \E o \in Outcomes, next \in After("register") :
          /\ IF o = "lost" THEN Fault(o) /\ UNCHANGED <<pc, answer>>
                           ELSE Goes(c, o, next)
          /\ datasets' = datasets \o Copies(c, Times(o))
          /\ dataset' = [dataset EXCEPT ![c] = IF o \in {"ok", "twice"} THEN Len(datasets') ELSE @]
          /\ repeated' = (repeated \/ o = "twice")
    /\ UNCHANGED <<kind, testCase, run, model, shown, elapsed, objects, testCases, runs,
                   bearers, alone, consent>>
Register(c) ==
    /\ pc[c] = "register"
    /\ \E o \in Outcomes, next \in After("register") :
          /\ Goes(c, o, next)
          /\ datasets' = datasets \o Copies(c, Times(o))
          /\ dataset' = [dataset EXCEPT ![c] = IF o \in {"ok", "twice"} THEN Len(datasets') ELSE @]
          /\ repeated' = (repeated \/ o = "twice")
    /\ UNCHANGED <<kind, testCase, run, model, shown, elapsed, objects, testCases, runs,
                   bearers, alone, consent>>

\* The first test case of that name is updated; none means that one is created.
\* Mutant: the list is not looked through.
List_Create(c) ==
    /\ pc[c] = "list"
    /\ \E o \in {"ok", "refused"} : Goes(c, o, "create")
    /\ UNCHANGED <<kind, own, service, history>>
List(c) ==
    /\ pc[c] = "list"
    /\ \E o \in {"ok", "refused"} :
          Goes(c, o, IF testCases = <<>> THEN "create" ELSE "update")
    /\ UNCHANGED <<kind, own, service, history>>

\* Mutant: the update leaves the dataset out.
Update_NoDataset(c) ==
    /\ pc[c] = "update"
    /\ \E o \in Outcomes, next \in After("update") : Goes(c, o, next)
    /\ testCase' = [testCase EXCEPT ![c] = 1]
    /\ UNCHANGED <<kind, dataset, run, model, shown, elapsed, service, history>>
Update(c) ==
    /\ pc[c] = "update"
    /\ \E o \in Outcomes, next \in After("update") :
          /\ Goes(c, o, next)
          /\ testCases' = IF Times(o) > 0 THEN [testCases EXCEPT ![1] = dataset[c]]
                                          ELSE testCases
    /\ testCase' = [testCase EXCEPT ![c] = 1]
    /\ UNCHANGED <<kind, dataset, run, model, shown, elapsed, objects, datasets, runs,
                   bearers, history>>

Create(c) ==
    /\ pc[c] = "create"
    /\ \E o \in Outcomes, next \in After("create") :
          /\ Goes(c, o, next)
          /\ testCases' = testCases \o Copies(dataset[c], Times(o))
          /\ testCase' = [testCase EXCEPT ![c] = Len(testCases')]
          /\ repeated' = (repeated \/ o = "twice")
    /\ UNCHANGED <<kind, dataset, run, model, shown, elapsed, objects, datasets, runs,
                   bearers, alone, consent>>

\* A run of the test case takes the dataset the test case has at that time.
NewRun(c) ==
    [by |-> c, model |-> model[c], ended |-> FALSE,
     dataset |-> IF kind = "agent" THEN testCases[testCase[c]] ELSE dataset[c]]

\* The request of an agent workflow names all its agents and deployments: its
\* answer is a list of runs, of which the first is kept.  createRun answers as
\* soon as the run is created.
Start(c) ==
    /\ pc[c] = "start"
    /\ \E o \in Outcomes :
          /\ IF kind = "run" /\ o \in {"ok", "twice"}
             THEN /\ Fault(o)
                  /\ pc' = [pc EXCEPT ![c] = "answered"]
                  /\ answer' = [answer EXCEPT ![c] = "done"]
             ELSE Goes(c, o, "poll")
          /\ runs' = runs \o Copies(NewRun(c), Width * Times(o))
          /\ run' = [run EXCEPT ![c] = IF o \in {"ok", "twice"}
                                       THEN Len(runs') - Width + 1 ELSE @]
          /\ repeated' = (repeated \/ o = "twice")
    /\ UNCHANGED <<kind, dataset, testCase, model, shown, elapsed, objects, datasets,
                   testCases, bearers, alone, consent>>

-----------------------------------------------------------------------------
(* Polling: the deadline is looked at before each request and nowhere      *)
(* else; a request may take any time.  An error of one poll is an error of *)
(* the workflow.                                                           *)

Leave(c) == elapsed' = [elapsed EXCEPT ![c] = 0]

Waited(c) ==
    elapsed' = [elapsed EXCEPT ![c] = IF @ + Interval < Past THEN @ + Interval ELSE Past]

Answer(c, a) ==
    /\ pc' = [pc EXCEPT ![c] = "answered"]
    /\ answer' = [answer EXCEPT ![c] = a]
    /\ Leave(c)

TimedOut(c) == elapsed[c] > Timeout

Poll(c) ==
    /\ pc[c] = "poll" /\ ~TimedOut(c)
    /\ \/ runs[run[c]].ended /\ Answer(c, "done") /\ UNCHANGED faults
       \/ /\ ~runs[run[c]].ended /\ Goes(c, "ok", "pause")
          /\ \E t \in elapsed[c]..Past : elapsed' = [elapsed EXCEPT ![c] = t]
       \/ Goes(c, "refused", "poll") /\ Leave(c)
    /\ UNCHANGED <<kind, dataset, testCase, run, model, shown, service, history>>

GiveUp(c) ==
    /\ pc[c] = "poll" /\ TimedOut(c)
    /\ Answer(c, "error")
    /\ UNCHANGED <<kind, dataset, testCase, run, model, shown, service, faults, history>>

\* Mutant: the workflow waits for the end of the run.
Pause_UntilEnded(c) ==
    /\ pc[c] = "pause"
    /\ \/ /\ runs[run[c]].ended
          /\ Waited(c)
          /\ Goes(c, "ok", "poll")
       \/ Goes(c, "refused", "poll") /\ Leave(c)
    /\ UNCHANGED <<kind, dataset, testCase, run, model, shown, service, history>>
Pause(c) ==
    /\ pc[c] = "pause"
    /\ \/ /\ Waited(c)
          /\ Goes(c, "ok", "poll")
       \/ Goes(c, "refused", "poll") /\ Leave(c)    \* ctx.Done
    /\ UNCHANGED <<kind, dataset, testCase, run, model, shown, service, history>>

-----------------------------------------------------------------------------
(* The service on its own: a run ends, or never does, which only who polls  *)
(* it sees; the name of the model is given, or taken away, which only who   *)
(* has yet to resolve it sees.                                             *)

RunEnds(r) ==
    /\ r \in DOMAIN runs /\ ~runs[r].ended
    /\ \E c \in Calls : run[c] = r /\ Active(c)
    /\ runs' = [runs EXCEPT ![r].ended = TRUE]
    /\ UNCHANGED <<kind, pc, own, answer, objects, datasets, testCases, bearers, faults,
                   history>>

Rename ==
    /\ kind # "agent"
    /\ \E c \in Calls : pc[c] \in {"idle", "previewed"}
    /\ \E m \in Models :
          bearers' = IF m \in bearers THEN bearers \ {m} ELSE bearers \union {m}
    /\ settled' = {}
    /\ UNCHANGED <<kind, pc, own, answer, objects, datasets, testCases, runs, faults,
                   repeated, alone, expected>>

-----------------------------------------------------------------------------
Init ==
    /\ kind \in Kinds
    /\ pc = [c \in Calls |-> "idle"] /\ answer = [c \in Calls |-> "none"]
    /\ dataset = [c \in Calls |-> 0] /\ testCase = dataset /\ run = dataset
    /\ elapsed = dataset
    /\ model = [c \in Calls |-> "none"] /\ shown = model /\ expected = model
    /\ objects = {} /\ datasets = <<>> /\ testCases = <<>> /\ runs = <<>>
    /\ bearers \in (IF kind = "agent" THEN {{}} ELSE SUBSET Models) /\ faults = 0
    /\ repeated = FALSE /\ alone = Calls /\ settled = {}

Work(c) ==
    Ask(c) \/ Upload(c) \/ Register(c) \/ List(c) \/ Update(c) \/ Create(c)
      \/ Start(c) \/ Poll(c) \/ GiveUp(c) \/ Pause(c)

Next ==
    \/ \E c \in Calls : Begin(c) \/ Preview(c) \/ Confirm(c) \/ Work(c)
    \/ \E r \in DOMAIN runs : RunEnds(r)
    \/ Rename

\* Requests are answered or fail, and timers fire.  Nothing is assumed of the
\* runs, the user and the clients.
Spec == Init /\ [][Next]_vars /\ \A c \in Calls : WF_vars(Work(c))

-----------------------------------------------------------------------------
(* Properties.                                                             *)

Made(c) == {d \in DOMAIN datasets : datasets[d] = c}
Begun(c) == {r \in DOMAIN runs : runs[r].by = c}

\* What the answer of a workflow leads to: the run it names, and the dataset the
\* service has run it on.  Only an agent workflow's names its dataset as well.
Found(c) ==
    {runs[run[c]].dataset} \union (IF kind = "agent" THEN {dataset[c]} ELSE {})

\* The variables have their types, and what a call holds exists.
TypeOK ==
    /\ kind \in Kinds /\ bearers \subseteq Models /\ faults \in 0..MaxFaults
    /\ repeated \in BOOLEAN
    /\ pc \in [Calls -> {"idle", "previewed", "metrics", "presign", "upload",
                         "register", "list", "update", "create", "start", "poll",
                         "pause", "answered"}]
    /\ answer \in [Calls -> {"none", "done", "error"}]
    /\ objects \subseteq Calls /\ datasets \in Seq(Calls)
    /\ alone \subseteq Calls /\ settled \subseteq Calls
    /\ dataset \in [Calls -> 0..Len(datasets)]
    /\ testCase \in [Calls -> 0..Len(testCases)]
    /\ run \in [Calls -> 0..Len(runs)]
    /\ testCases \in Seq(1..Len(datasets))
    /\ elapsed \in [Calls -> 0..Past]
    /\ model \in [Calls -> Models \union {"none"}]
    /\ shown \in [Calls -> Models \union {"none"}]
    /\ expected \in [Calls -> Models \union {"none"}]
    /\ runs \in Seq([by : Calls, model : Models \union {"none"}, ended : BOOLEAN,
                     dataset : 0..Len(datasets)])

\* What a workflow reports is the outcome of its own run, which has ended, and,
\* unless another call of the same test case was under way, all its runs, those
\* of the other agents too, are of the dataset it was given: two calls at once
\* update the same test case before either starts.
AnswerIsItsRun ==
    \A c \in Calls : answer[c] = "done" =>
      /\ runs[run[c]].by = c
      /\ kind # "run" => runs[run[c]].ended
      /\ c \in alone => \A r \in Begun(c) : runs[r].dataset = dataset[c]

\* A client that tries again finds the test case of the first attempt, also when
\* that attempt failed after it had created it: only calls at the same time or a
\* repeated request make a second one of the name.
OneTestCase == alone = Calls /\ ~repeated => Len(testCases) <= 1

\* What is in the account is accounted for.  No dataset is registered without its
\* file, by whichever call.  A call that succeeded has made no dataset that its
\* answer does not lead to, and no run but the one it names and, in an agent
\* workflow, those of the other agents of the same request: the rest is of calls
\* that answered with an error, or was made twice by a repeated request.
MadeIsAccountedFor ==
    /\ \A d \in DOMAIN datasets : datasets[d] \in objects
    /\ \A c \in Calls : answer[c] = "done" /\ ~repeated =>
          Made(c) \subseteq Found(c) /\ Begun(c) \subseteq run[c]..(run[c] + Width - 1)

\* The model that is evaluated is the one the user has seen before saying yes, as
\* long as the client passes the uuid that was shown, whatever is renamed in
\* between and whichever list fails; or by its name alone, if nothing was renamed
\* and both lists came.
AsShown ==
    \A r \in DOMAIN runs :
      expected[runs[r].by] # "none" => runs[r].model = expected[runs[r].by]

\* Every workflow ends, whether the run it waits for does or not.
WorkflowEnds == \A c \in Calls : Active(c) ~> (pc[c] = "answered")
=============================================================================
