--------------------------- MODULE ToolCallsProofs ---------------------------
(***************************************************************************)
(* What holds of ToolCalls for every set of tools, every number of retries *)
(* and of calls.                                                           *)
(***************************************************************************)
EXTENDS ToolCalls, TLAPS

-----------------------------------------------------------------------------
(* The inductive invariant.                                                *)

Silent == answer = None /\ outcome = None

\* Before a handler sends its first request nothing has been executed, and
\* nothing is said before it is done.
Quiet ==
    /\ pc = "idle" => calls = 0 /\ account.keys = 0
    /\ pc \in {"idle", "received", "requesting", "dropped", "down"} => Silent
    /\ pc \in {"idle", "received", "dropped", "down"} => executed = {}
    /\ pc # "idle" => tool \in Offer

\* The requests a handler has passed were executed, or optional.
Passed(i) == plan[i].optional \/ i \in executed

Underway ==
    pc = "requesting" =>
      /\ plan \in Handled.does
      /\ \A i \in 1..Len(plan) : i < step => Passed(i)
      /\ won => executed # {}

\* An answer was given at the end of the plan, or before it, or instead of it.
Told ==
    /\ answer = "done" => (\A i \in 1..Len(plan) : Passed(i)) /\ (plan # <<>> => executed # {})
    /\ answer \in {"refused", "unauthorized"} => executed = {}
    /\ outcome = "tool_call_success" => answer = "done"

\* A call without a token gets to its requests only if it needs no client.
Nobody == mode # "stdio" /\ auth = "absent"
Entitled ==
    Nobody =>
      /\ pc = "requesting" \/ executed # {} => Handled.client = "none" /\ mode = "anonymous"
      /\ account.keys = 0

IInv == TypeOK /\ Quiet /\ Underway /\ Told /\ Entitled
-----------------------------------------------------------------------------
(* The parts a step is made of.                                            *)

\* No tool at all: one empty sequence of requests.
LEMMA NoToolIsATool == NoTool.handler.does = {<<>>}
BY DEF NoTool, Tool, Nothing, Handler

\* What the middleware logs.
LEMMA Logged ==
    /\ \A a \in {"goError", "failed", "refused"} : ToolMiddleware(a) # "tool_call_success"
    /\ ToolMiddleware("done") = "tool_call_success"
BY DEF ToolMiddleware

\* A request leaves an account an account, and only minting adds a key.
LEMMA Executing ==
    ASSUME NEW a \in Account, NEW effect \in Effects
    PROVE  /\ Execute(a, effect) \in Account
           /\ effect # "mints" => Execute(a, effect).keys = a.keys
<1> DEFINE b == Execute(a, effect)
<1>1. /\ a.made \in Nat /\ a.runs \in Nat /\ a.keys \in Nat /\ a.present \in BOOLEAN
      /\ a.named \in {"old", "theirs", "nothing"} /\ a.value \in {"old", "asked", "theirs"}
      /\ a.work \in BOOLEAN /\ a.lost \in BOOLEAN
  BY DEF Account
<1>2. CASE effect = "reads"
  BY <1>2 DEF Execute
<1>3. CASE effect = "creates"
  <2>1. b = [a EXCEPT !.made = @ + 1]
    BY <1>3 DEF Execute
  <2> QED BY <1>1, <1>3, <2>1 DEF Account
<1>4. CASE effect = "deletes"
  <2>1. b = [a EXCEPT !.present = FALSE]
    BY <1>4 DEF Execute
  <2> QED BY <1>1, <1>4, <2>1 DEF Account
<1>5. CASE effect = "unnames"
  <2>1. b = [a EXCEPT !.named = "nothing", !.lost = @ \/ a.named = "theirs"]
    BY <1>5 DEF Execute
  <2> QED BY <1>1, <1>5, <2>1 DEF Account
<1>6. CASE effect = "sets"
  <2>1. b = [a EXCEPT !.value = "asked"]
    BY <1>6 DEF Execute
  <2> QED BY <1>1, <1>6, <2>1 DEF Account
<1>7. CASE effect = "starts"
  <2>1. b = [a EXCEPT !.runs = @ + 1]
    BY <1>7 DEF Execute
  <2> QED BY <1>1, <1>7, <2>1 DEF Account
<1>8. CASE effect = "restores"
  <2>1. b = [a EXCEPT !.work = FALSE, !.lost = @ \/ a.work]
    BY <1>8 DEF Execute
  <2> QED BY <1>1, <1>8, <2>1 DEF Account
<1>9. CASE effect = "mints"
  <2>1. b = [a EXCEPT !.keys = @ + 1]
    BY <1>9 DEF Execute
  <2> QED BY <1>1, <1>9, <2>1 DEF Account
<1> QED BY <1>2, <1>3, <1>4, <1>5, <1>6, <1>7, <1>8, <1>9 DEF Effects

\* The request a handler is at.
LEMMA AtRequest ==
    ASSUME TypeOK, Sending
    PROVE  /\ pc = "requesting" /\ step \in 1..Len(plan) /\ Len(plan) \in Nat
           /\ Current \in Requests /\ Current.effect \in Effects
           /\ DOMAIN plan = 1..Len(plan)
<1>1. plan \in Seq(Requests) /\ step \in 0..(Len(plan) + 1) /\ pc = "requesting" /\ step > 0
      /\ step <= Len(plan)
  BY DEF TypeOK, Sending
<1>2. step \in 1..Len(plan) /\ Len(plan) \in Nat /\ DOMAIN plan = 1..Len(plan)
  BY <1>1
<1>3. plan[step] \in Requests
  BY <1>1, <1>2
<1> QED BY <1>1, <1>2, <1>3 DEF Current, Requests

\* How a step of the handler that is about one of its requests ends.
Goes == pc' = pc /\ UNCHANGED reply /\ step' = step + 1 /\ tries' = 0
Repeats == pc' = pc /\ UNCHANGED reply /\ step' = step /\ tries' = tries + 1 /\ tries < RetryMax
Stops == /\ pc' = "answered" /\ answer' \in {"goError", "failed"}
         /\ outcome' # "tool_call_success" /\ step' = step /\ tries' = tries

LEMMA Failing ==
    ASSUME TypeOK, Sending, Fail(Current)
    PROVE  plan' = plan /\ ((Goes /\ Current.optional) \/ Stops)
<1>1. CASE Current.optional /\ Proceed
  BY <1>1 DEF Proceed, Goes
<1>2. CASE ~Current.optional /\ Answer(IF Current.raising THEN "goError" ELSE "failed")
           /\ UNCHANGED <<plan, step, tries>>
  <2>1. (IF Current.raising THEN "goError" ELSE "failed") \in {"goError", "failed"}
    OBVIOUS
  <2> QED BY <1>2, <2>1, Logged DEF Answer, Stops
<1> QED BY <1>1, <1>2 DEF Fail

\* What the request did.
Did ==
    \/ UNCHANGED <<account, executed>>
    \/ /\ TokenIsGood /\ account' = Execute(account, Current.effect)
       /\ executed' = executed \union {step}
    \/ account' = account /\ executed' = executed \union {step}

Request == Served \/ Rejected \/ Retry \/ Unreachable \/ Content

LEMMA Requesting ==
    ASSUME TypeOK, Request
    PROVE  /\ Sending /\ UNCHANGED <<request, plan, others>> /\ keyed' \in BOOLEAN
           /\ Did /\ won' \in BOOLEAN
           /\ won' => won \/ step \in executed'
           /\ \/ Goes /\ (Current.optional \/ step \in executed')
              \/ Repeats
              \/ Stops
<1> USE DEF world
<1>0. keyed \in BOOLEAN /\ won \in BOOLEAN
  BY DEF TypeOK
<1>1. CASE Served
  <2>1. Sending /\ UNCHANGED <<request, others>> /\ Proceed
    BY <1>1 DEF Served
  <2>2. Did /\ step \in executed'
    BY <1>1 DEF Served, Did, Perform
  <2>3. won' = (won \/ Current.optional) /\ keyed' = (keyed \/ Current.effect = "mints")
    BY <1>1 DEF Served
  <2>4. Current \in Requests
    BY <2>1, AtRequest
  <2>5. won' \in BOOLEAN /\ keyed' \in BOOLEAN
    BY <1>0, <2>3, <2>4 DEF Requests
  <2>6. plan' = plan /\ Goes
    BY <2>1 DEF Proceed, Goes
  <2> QED BY <2>1, <2>2, <2>5, <2>6
<1>2. CASE Rejected
  <2>1. Sending /\ Fail(Current) /\ UNCHANGED <<request, won, account, keyed, others, executed>>
    BY <1>2 DEF Rejected
  <2>2. plan' = plan /\ ((Goes /\ Current.optional) \/ Stops)
    BY <2>1, Failing
  <2> QED BY <1>0, <2>1, <2>2 DEF Did
<1>3. CASE Retry
  <2>1. Sending /\ Unheard(Current) /\ MayRetry(Current) /\ tries' = tries + 1
        /\ UNCHANGED <<request, pc, plan, step, won, reply, keyed, others>>
    BY <1>3 DEF Retry
  <2>2. Repeats
    BY <2>1 DEF Repeats, MayRetry
  <2>3. Did
    BY <2>1 DEF Unheard, Perform, Did
  <2> QED BY <1>0, <2>1, <2>2, <2>3
<1>4. CASE Unreachable
  <2>1. Sending /\ Unheard(Current) /\ Fail(Current) /\ UNCHANGED <<request, won, keyed, others>>
    BY <1>4 DEF Unreachable
  <2>2. Did
    BY <2>1 DEF Unheard, Perform, Did
  <2>3. plan' = plan /\ ((Goes /\ Current.optional) \/ Stops)
    BY <2>1, Failing
  <2> QED BY <1>0, <2>1, <2>2, <2>3
<1>5. CASE Content
  <2>1. Sending /\ won /\ Current.optional /\ Proceed
        /\ UNCHANGED <<request, won, account, keyed, others, executed>>
    BY <1>5 DEF Content
  <2>2. plan' = plan /\ Goes
    BY <2>1 DEF Proceed, Goes
  <2> QED BY <1>0, <2>1, <2>2 DEF Did
<1> QED BY <1>1, <1>2, <1>3, <1>4, <1>5 DEF Request

-----------------------------------------------------------------------------
(* The steps.                                                              *)

LEMMA Initially == Init => IInv
<1> SUFFICES ASSUME Init PROVE IInv
  OBVIOUS
<1>1. Untouched \in Account /\ Untouched.keys = 0
  BY DEF Untouched, Account
<1>2. <<>> \in Seq(Requests) /\ DOMAIN <<>> = {} /\ Len(<<>>) = 0
  OBVIOUS
<1>3. TypeOK
  <2>1. tool.handler.does \subseteq Seq(Requests)
    BY <1>2, NoToolIsATool DEF Init
  <2>2. plan \in Seq(Requests) /\ step \in 0..(Len(plan) + 1) /\ tries \in 0..RetryMax
        /\ calls \in 0..MaxCalls /\ executed \subseteq DOMAIN plan
    BY <1>2, NumbersAssumption DEF Init
  <2> QED BY <1>1, <2>1, <2>2 DEF Init, TypeOK, Headers, Answers
<1>4. Quiet
  BY <1>1 DEF Init, Quiet, Silent
<1>5. Underway
  BY DEF Init, Underway
<1>6. Told
  BY DEF Init, Told, None
<1>7. Entitled
  BY <1>1 DEF Init, Entitled
<1> QED BY <1>3, <1>4, <1>5, <1>6, <1>7 DEF IInv

\* A call arrives.
LEMMA Receiving ==
    ASSUME IInv, NEW t \in Offer, NEW args, NEW header \in Headers, Receive(t, args, header),
           calls < MaxCalls, account.keys = 0 \/ (mode = "stdio" \/ header # "absent")
    PROVE  IInv'
<1>0. TypeOK
  BY DEF IInv
<1>1. /\ tool' = t /\ auth' = header /\ calls' = calls + 1 /\ pc' = "received"
      /\ answer' = None /\ outcome' = None /\ executed' = {}
      /\ UNCHANGED <<mode, plan, step, tries, won, account, keyed, others>>
  BY DEF Receive, handler
<1>2. calls' \in 0..MaxCalls
  BY <1>0, <1>1, NumbersAssumption DEF TypeOK
<1>3. TypeOK'
  BY <1>0, <1>1, <1>2, OfferAssumption DEF TypeOK
<1>4. Quiet'
  BY <1>1 DEF Quiet, Silent
<1>5. Underway'
  BY <1>1 DEF Underway
<1>6. Told'
  BY <1>1 DEF Told, None
<1>7. Entitled'
  BY <1>1 DEF Entitled, Nobody
<1> QED BY <1>3, <1>4, <1>5, <1>6, <1>7 DEF IInv

\* An answer without a request, or none at all.
LEMMA Declining ==
    ASSUME IInv, pc = "received", UNCHANGED <<request, handler, world>>,
           \/ pc' \in {"dropped", "down"} /\ UNCHANGED reply
           \/ /\ pc' = "answered" /\ answer' \in Answers \ {"done"}
              /\ outcome' # "tool_call_success"
    PROVE  IInv'
<1>0. TypeOK /\ Quiet /\ Told /\ Entitled
  BY DEF IInv
<1>1. /\ UNCHANGED <<mode, tool, call, auth, calls, plan, step, tries, won, account, keyed,
                     others, executed>>
      /\ executed = {} /\ Silent
  BY <1>0 DEF request, handler, world, Quiet
<1>2. TypeOK'
  BY <1>0, <1>1 DEF TypeOK, reply
<1>3. Quiet'
  BY <1>0, <1>1 DEF Quiet, Silent, reply
<1>4. Underway'
  BY DEF Underway
<1>5. Told'
  BY <1>1 DEF Told, Silent, None, reply
<1>6. Entitled'
  BY <1>0, <1>1 DEF Entitled, Nobody, Handled
<1> QED BY <1>2, <1>3, <1>4, <1>5, <1>6 DEF IInv

\* A step that is about one of the requests.
LEMMA Requested == ASSUME IInv, Request PROVE IInv'
<1>0. TypeOK /\ Quiet /\ Underway /\ Told /\ Entitled
  BY DEF IInv
<1>1. Sending /\ Did /\ keyed' \in BOOLEAN /\ won' \in BOOLEAN
      /\ (won' => won \/ step \in executed')
      /\ UNCHANGED <<mode, tool, call, auth, calls, plan, others>>
  BY <1>0, Requesting DEF request
<1>2. \/ Goes /\ (Current.optional \/ step \in executed')
      \/ Repeats
      \/ Stops
  BY <1>0, Requesting
<1>3. /\ pc = "requesting" /\ step \in 1..Len(plan) /\ Len(plan) \in Nat
      /\ Current.effect \in Effects /\ DOMAIN plan = 1..Len(plan)
  BY <1>0, <1>1, AtRequest
<1>4. executed \subseteq executed' /\ executed' \subseteq executed \union {step}
  BY <1>1 DEF Did
<1>5. plan \in Handled.does /\ (\A i \in 1..Len(plan) : i < step => Passed(i))
      /\ (won => executed # {}) /\ Silent /\ tool \in Offer
  BY <1>0, <1>3 DEF Underway, Quiet
<1>6. account' \in Account /\ (Current.effect # "mints" => account'.keys = account.keys)
  BY <1>0, <1>1, <1>3, Executing DEF Did, TypeOK
<1>7. TypeOK'
  <2>1. step' \in 0..(Len(plan) + 1) /\ step' > 0 /\ tries' \in 0..RetryMax
    BY <1>0, <1>2, <1>3, NumbersAssumption DEF TypeOK, Goes, Repeats, Stops
  <2>2. pc' \in {"requesting", "answered"} /\ answer' \in Answers \union {None}
    BY <1>0, <1>2, <1>3 DEF TypeOK, Goes, Repeats, Stops, reply, Answers
  <2>3. executed' \subseteq DOMAIN plan
    BY <1>0, <1>3, <1>4 DEF TypeOK
  <2>4. plan' = plan /\ tool' = tool
    BY <1>1
  <2> QED BY <1>0, <1>1, <1>6, <2>1, <2>2, <2>3, <2>4 DEF TypeOK
<1>8. Quiet'
  BY <1>1, <1>2, <1>3, <1>5 DEF Quiet, Silent, Goes, Repeats, Stops, reply
<1>9. Underway'
  <2>1. \A i \in 1..Len(plan) : Passed(i) => Passed(i)'
    BY <1>1, <1>4 DEF Passed
  <2>2. won' => executed' # {}
    BY <1>1, <1>4, <1>5
  <2>3. plan' \in Handled'.does
    BY <1>1, <1>5 DEF Handled
  <2>4. CASE Goes /\ (Current.optional \/ step \in executed')
    <3>1. plan'[step].optional \/ step \in executed'
      BY <1>1, <2>4 DEF Current
    <3>2. step' = step + 1
      BY <2>4 DEF Goes
    <3>3. ASSUME NEW i \in 1..Len(plan), i < step' PROVE Passed(i)'
      <4>1. i < step \/ i = step
        BY <1>3, <3>2, <3>3
      <4> QED BY <1>5, <2>1, <3>1, <4>1 DEF Passed
    <3>4. Len(plan') = Len(plan)
      BY <1>1
    <3> QED BY <2>2, <2>3, <3>3, <3>4 DEF Underway
  <2>5. CASE Repeats
    <3>1. step' = step /\ Len(plan') = Len(plan)
      BY <1>1, <2>5 DEF Repeats
    <3> QED BY <1>5, <2>1, <2>2, <2>3, <3>1 DEF Underway
  <2>6. CASE Stops
    BY <2>6 DEF Stops, Underway
  <2> QED BY <1>2, <2>4, <2>5, <2>6
<1>10. Told'
  <2>1. answer' \in {None, "goError", "failed"} /\ outcome' # "tool_call_success"
    BY <1>2, <1>5 DEF Silent, Goes, Repeats, Stops, reply, None
  <2> QED BY <2>1 DEF Told, None
<1>11. Entitled'
  <2> SUFFICES ASSUME Nobody' PROVE /\ Handled'.client = "none" /\ mode' = "anonymous"
                                    /\ account'.keys = 0
    BY DEF Entitled
  <2>1. Nobody
    BY <1>1 DEF Nobody
  <2>2. Handled.client = "none" /\ mode = "anonymous" /\ account.keys = 0
    BY <1>0, <1>3, <2>1 DEF Entitled
  <2>3. Current.effect # "mints"
    BY <1>3, <1>5, <2>2, OfferAssumption DEF Handled, Current
  <2> QED BY <1>1, <1>6, <2>2, <2>3 DEF Handled
<1> QED BY <1>7, <1>8, <1>9, <1>10, <1>11 DEF IInv

LEMMA Inductive == IInv /\ [Next]_vars => IInv'
<1> SUFFICES ASSUME IInv, [Next]_vars PROVE IInv'
  OBVIOUS
<1>0. TypeOK /\ Quiet /\ Underway /\ Told /\ Entitled
  BY DEF IInv
<1>1. ASSUME NEW t \in Offer, FirstCall(t) PROVE IInv'
  <2>1. pc = "idle" /\ calls = 0 /\ account.keys = 0
    BY <1>0, <1>1 DEF FirstCall, Quiet
  <2>2. PICK args \in Calls(t), header \in IF mode = "stdio" THEN {"absent"} ELSE Headers :
          Receive(t, args, header)
    BY <1>1 DEF FirstCall
  <2>3. header \in Headers /\ calls < MaxCalls
    BY <2>1, <2>2, NumbersAssumption DEF Headers
  <2> QED BY <2>1, <2>2, <2>3, Receiving
<1>2. CASE Repeat
  <2>1. pc # "idle" /\ calls < MaxCalls /\ Receive(tool, call, auth)
    BY <1>2 DEF Repeat
  <2>2. tool \in Offer /\ auth \in Headers
    BY <1>0, <2>1 DEF Quiet, TypeOK
  <2>3. account.keys = 0 \/ (mode = "stdio" \/ auth # "absent")
    BY <1>0 DEF Entitled, Nobody
  <2> QED BY <2>1, <2>2, <2>3, Receiving
<1>3. CASE Challenge
  <2>1. pc = "received" /\ pc' = "answered" /\ answer' = "unauthorized"
        /\ UNCHANGED <<request, handler, outcome, world>>
    BY <1>3 DEF Challenge
  <2>2. outcome' # "tool_call_success"
    BY <1>0, <2>1 DEF Quiet, Silent, None
  <2>3. "unauthorized" \in Answers \ {"done"}
    BY DEF Answers
  <2>4. UNCHANGED <<request, handler, world>>
    BY <2>1
  <2> QED BY <2>1, <2>2, <2>3, <2>4, Declining
<1>4. CASE Decline
  <2>1. pc = "received" /\ UNCHANGED <<request, handler, world>>
    BY <1>4 DEF Decline
  <2>2. NoClientAnswer \in {"goError", "failed"}
    BY DEF NoClientAnswer
  <2>3. \/ Answer(NoClientAnswer) \/ Answer("refused") \/ Panic
    BY <1>4 DEF Decline
  <2>4. \/ pc' \in {"dropped", "down"} /\ UNCHANGED reply
        \/ /\ pc' = "answered" /\ answer' \in Answers \ {"done"}
           /\ outcome' # "tool_call_success"
    BY <2>2, <2>3, Logged DEF Answer, Panic, Answers
  <2> QED BY <2>1, <2>4, Declining
<1>5. CASE Accept
  <2>1. /\ pc = "received" /\ pc' = "requesting" /\ step' = 1 /\ tries' = 0 /\ won' = FALSE
        /\ plan' \in Handled.does
        /\ UNCHANGED <<mode, tool, call, auth, calls, reply, account, keyed, others, executed>>
        /\ ~Challenged /\ ~LacksClient("first") /\ ~LacksClient("later")
    BY <1>5 DEF Accept, request, world
  <2>2. executed = {} /\ Silent /\ tool \in Offer
    BY <1>0, <2>1 DEF Quiet
  <2>3. plan' \in Seq(Requests)
    BY <1>0, <2>1 DEF TypeOK, Handled
  <2>4. Len(plan') \in Nat
    BY <2>3
  <2>5. step' \in 0..(Len(plan') + 1) /\ tries' \in 0..RetryMax
    BY <2>1, <2>4, NumbersAssumption
  <2>6. TypeOK'
    <3>1. executed' \subseteq DOMAIN plan' /\ answer' = answer /\ tool' = tool
      BY <2>1, <2>2 DEF reply
    <3>2. UNCHANGED <<mode, auth, calls, account, keyed, others>> /\ pc' = "requesting"
      BY <2>1
    <3>3. step' > 0
      BY <2>1
    <3>4. won' \in BOOLEAN
      BY <2>1, Zenon
    <3> QED BY <1>0, <2>3, <2>5, <3>1, <3>2, <3>3, <3>4 DEF TypeOK
  <2>7. Quiet'
    BY <2>1, <2>2 DEF Quiet, Silent, reply
  <2>8. Underway'
    <3>1. ASSUME NEW i \in 1..Len(plan') PROVE ~(i < step')
      BY <2>1, <2>4
    <3> QED BY <2>1, <3>1 DEF Underway, Handled
  <2>9. Told'
    BY <2>1, <2>2 DEF Told, Silent, None, reply
  <2>10. Entitled'
    <3> SUFFICES ASSUME Nobody' PROVE /\ Handled'.client = "none" /\ mode' = "anonymous"
                                      /\ account'.keys = 0
      BY DEF Entitled
    <3>1. Nobody /\ account.keys = 0
      BY <1>0, <2>1 DEF Nobody, Entitled
    <3>2. ~HasClient /\ mode # "guarded"
      BY <2>1, <3>1 DEF Nobody, HasClient, Challenged
    <3>3. Handled.client \notin {"first", "later"}
      BY <2>1, <3>2 DEF LacksClient
    <3>4. Handled.client = "none"
      BY <2>2, <3>3, OfferAssumption DEF Handled
    <3>5. mode = "anonymous"
      BY <1>0, <3>1, <3>2 DEF TypeOK, Modes, Nobody
    <3> QED BY <2>1, <3>1, <3>4, <3>5 DEF Handled
  <2> QED BY <2>6, <2>7, <2>8, <2>9, <2>10 DEF IInv
<1>6. CASE Served \/ Rejected \/ Retry \/ Unreachable \/ Content
  BY <1>6, Requested DEF Request
<1>7. CASE Finish
  <2>1. /\ pc = "requesting" /\ step > Len(plan) /\ pc' = "answered"
        /\ UNCHANGED <<mode, tool, call, auth, calls, plan, step, tries, won, account, keyed,
                       others, executed>>
        /\ Answer(IF AllFailed THEN "failed" ELSE "done")
    BY <1>7 DEF Finish, Answer, request, handler, world
  <2>2. plan \in Seq(Requests) /\ step \in 0..(Len(plan) + 1)
    BY <1>0 DEF TypeOK
  <2>3. Len(plan) \in Nat /\ DOMAIN plan = 1..Len(plan) /\ (plan # <<>> => Len(plan) # 0)
    BY <2>2
  <2>4. \A i \in 1..Len(plan) : i < step
    BY <2>1, <2>2, <2>3
  <2>5. (\A i \in 1..Len(plan) : Passed(i)) /\ (won => executed # {}) /\ tool \in Offer
    BY <1>0, <2>1, <2>4 DEF Underway, Quiet
  <2>6. \/ AllFailed /\ answer' = "failed" /\ outcome' # "tool_call_success"
        \/ ~AllFailed /\ answer' = "done"
    BY <2>1, Logged DEF Answer
  <2>7. ASSUME ~AllFailed, plan # <<>> PROVE executed # {}
    BY <2>3, <2>5, <2>7 DEF AllFailed, Passed
  <2>8. TypeOK'
    <3>1. answer' \in Answers
      BY <2>6 DEF Answers
    <3> QED BY <1>0, <2>1, <3>1 DEF TypeOK
  <2>9. Quiet'
    BY <2>1, <2>5 DEF Quiet
  <2>10. Underway'
    BY <2>1 DEF Underway
  <2>11. Told'
    BY <2>1, <2>5, <2>6, <2>7 DEF Told, Passed
  <2>12. Entitled'
    BY <1>0, <2>1 DEF Entitled, Nobody, Handled
  <2> QED BY <2>8, <2>9, <2>10, <2>11, <2>12 DEF IInv
<1>8. CASE Others
  <2>1. /\ pc # "idle" /\ others' = TRUE
        /\ UNCHANGED <<mode, tool, call, auth, calls, pc, plan, step, tries, won, answer,
                       outcome, keyed, executed>>
    BY <1>8 DEF Others, request, handler, reply
  <2>2. account \in Account
    BY <1>0 DEF TypeOK
  <2>3. account' \in Account /\ account'.keys = account.keys
    BY <1>8, <2>2 DEF Others, Account
  <2>4. TypeOK'
    BY <1>0, <2>1, <2>3 DEF TypeOK
  <2>5. Quiet'
    BY <1>0, <2>1 DEF Quiet, Silent
  <2>6. Underway'
    BY <1>0, <2>1 DEF Underway, Passed, Handled
  <2>7. Told'
    BY <1>0, <2>1 DEF Told, Passed
  <2>8. Entitled'
    BY <1>0, <2>1, <2>3 DEF Entitled, Nobody, Handled
  <2> QED BY <2>4, <2>5, <2>6, <2>7, <2>8 DEF IInv
<1>9. CASE UNCHANGED vars
  <2>1. UNCHANGED <<mode, tool, call, auth, calls, pc, plan, step, tries, won, answer,
                    outcome, account, keyed, others, executed>>
    BY <1>9 DEF vars
  <2>2. TypeOK'
    BY <1>0, <2>1 DEF TypeOK
  <2>3. Quiet' /\ Underway'
    BY <1>0, <2>1 DEF Quiet, Silent, Underway, Passed, Handled
  <2>4. Told' /\ Entitled'
    BY <1>0, <2>1 DEF Told, Passed, Entitled, Nobody, Handled
  <2> QED BY <2>2, <2>3, <2>4 DEF IInv
<1> QED
  BY <1>1, <1>2, <1>3, <1>4, <1>5, <1>6, <1>7, <1>8, <1>9 DEF Next, Serve

-----------------------------------------------------------------------------
(* The theorems.                                                           *)

LEMMA Invariance == Spec => []IInv
BY Initially, Inductive, PTL DEF Spec

\* The types, and with them that a request is repeated RetryMax times at most,
\* whatever the tool and whatever fails (newGodoClientWithTokenAndEndpoint).
THEOREM TypeCorrect == Spec => []TypeOK
<1>1. IInv => TypeOK
  BY DEF IInv
<1> QED BY <1>1, Invariance, PTL

\* A success, told or logged, means that every request that matters was
\* executed; a refusal or a dropped connection, that none was.
THEOREM Honest == Spec => []AnswersAreHonest
<1>1. IInv => AnswersAreHonest
  <2> SUFFICES ASSUME IInv PROVE AnswersAreHonest
    OBVIOUS
  <2>1. Quiet /\ Told
    BY DEF IInv
  <2>2. plan \in Seq(Requests)
    BY DEF IInv, TypeOK
  <2>3. DOMAIN plan = 1..Len(plan)
    BY <2>2
  <2> QED BY <2>1, <2>3 DEF AnswersAreHonest, Quiet, Told, Passed
<1> QED BY <1>1, Invariance, PTL

\* Without a token only a handler that needs none gets to its requests, on an
\* anonymous server, and no access key is made.
THEOREM NoTokenNothing == Spec => []NoTokenNoRequest
<1>1. IInv => NoTokenNoRequest
  BY DEF IInv, Entitled, Nobody, NoTokenNoRequest
<1> QED BY <1>1, Invariance, PTL

-----------------------------------------------------------------------------
(* The hints, and the requests a tool may send.                            *)

EffectsOf(t) ==
    {e \in Effects : \E sent \in t.handler.does : \E i \in DOMAIN sent : sent[i].effect = e}

\* What a tool may ask of the API that announces that it only reads, that it is not
\* destructive, that it is idempotent.
OnlyReads(t)    == EffectsOf(t) \subseteq {"reads", "mints"}
TakesNothing(t) == EffectsOf(t) \intersect {"deletes", "unnames"} = {}
Repeatable(t)   == EffectsOf(t) \subseteq {"reads", "mints", "sets", "deletes"}

\* The hints of a tool promise no more than its requests keep.
HintsAreDue(t) ==
    /\ t.hints.readOnly => OnlyReads(t)
    /\ ~t.hints.destructive => TakesNothing(t)
    /\ t.hints.idempotent /\ t.name \notin NotRepeatable => Repeatable(t)

\* What a tool can have done to the account by now, by the requests it may send.
Held(t) ==
    /\ OnlyReads(t) => account.value = IF others THEN "theirs" ELSE "old"
    /\ TakesNothing(t) => account.present = TRUE /\ account.named = "old"
    /\ Repeatable(t) => account.made = 0 /\ account.runs = 0 /\ account.lost = FALSE

AInv == (pc = "idle" => account = Untouched /\ others = FALSE) /\ Held(tool)

\* Which requests leave what of an account alone.
LEMMA Sparing ==
    ASSUME NEW a \in Account, NEW effect \in Effects
    PROVE  /\ effect \in {"reads", "mints"} => Execute(a, effect).value = a.value
           /\ effect \notin {"deletes", "unnames"} =>
                 /\ Execute(a, effect).present = a.present
                 /\ Execute(a, effect).named = a.named
           /\ effect \in {"reads", "mints", "sets", "deletes"} =>
                 /\ Execute(a, effect).made = a.made /\ Execute(a, effect).runs = a.runs
                 /\ Execute(a, effect).lost = a.lost
<1> DEFINE b == Execute(a, effect)
<1>1. CASE effect = "reads"
  BY <1>1 DEF Execute
<1>2. CASE effect = "creates"
  <2>1. b = [a EXCEPT !.made = @ + 1]
    BY <1>2 DEF Execute
  <2> QED BY <1>2, <2>1 DEF Account
<1>3. CASE effect = "deletes"
  <2>1. b = [a EXCEPT !.present = FALSE]
    BY <1>3 DEF Execute
  <2> QED BY <1>3, <2>1 DEF Account
<1>4. CASE effect = "unnames"
  BY <1>4
<1>5. CASE effect = "sets"
  <2>1. b = [a EXCEPT !.value = "asked"]
    BY <1>5 DEF Execute
  <2> QED BY <1>5, <2>1 DEF Account
<1>6. CASE effect = "starts"
  <2>1. b = [a EXCEPT !.runs = @ + 1]
    BY <1>6 DEF Execute
  <2> QED BY <1>6, <2>1 DEF Account
<1>7. CASE effect = "restores"
  <2>1. b = [a EXCEPT !.work = FALSE, !.lost = @ \/ a.work]
    BY <1>7 DEF Execute
  <2> QED BY <1>7, <2>1 DEF Account
<1>8. CASE effect = "mints"
  <2>1. b = [a EXCEPT !.keys = @ + 1]
    BY <1>8 DEF Execute
  <2> QED BY <1>8, <2>1 DEF Account
<1> QED BY <1>1, <1>2, <1>3, <1>4, <1>5, <1>6, <1>7, <1>8 DEF Effects

\* An account that nobody has used is what every tool may leave.
LEMMA UntouchedIsHeld ==
    ASSUME account = Untouched, others = FALSE, NEW t
    PROVE  Held(t)
BY DEF Untouched, Held

\* A request a tool may send spares what its hints say it does.
LEMMA RequestSpares == ASSUME IInv, AInv, Request PROVE AInv'
<1>0. TypeOK /\ Underway /\ Held(tool)
  BY DEF IInv, AInv
<1>1. Sending /\ Did /\ tool' = tool /\ others' = others
  BY <1>0, Requesting DEF request
<1>2. /\ pc = "requesting" /\ step \in DOMAIN plan /\ Current.effect \in Effects
  BY <1>0, <1>1, AtRequest
<1>3. Current.effect \in EffectsOf(tool)
  BY <1>0, <1>2 DEF Underway, Handled, EffectsOf, Current
<1>4. pc' # "idle"
  BY <1>0, <1>2, Requesting DEF Goes, Repeats, Stops
<1>5. account \in Account /\ (account' = account \/ account' = Execute(account, Current.effect))
  BY <1>0, <1>1 DEF TypeOK, Did
<1>6. CASE account' = account
  BY <1>0, <1>1, <1>4, <1>6 DEF AInv, Held
<1>7. CASE account' = Execute(account, Current.effect)
  <2>1. OnlyReads(tool) => account'.value = account.value
    BY <1>2, <1>3, <1>5, <1>7, Sparing DEF OnlyReads
  <2>2. TakesNothing(tool) => account'.present = account.present /\ account'.named = account.named
    BY <1>2, <1>3, <1>5, <1>7, Sparing DEF TakesNothing
  <2>3. Repeatable(tool) => /\ account'.made = account.made /\ account'.runs = account.runs
                            /\ account'.lost = account.lost
    BY <1>2, <1>3, <1>5, <1>7, Sparing DEF Repeatable
  <2> QED BY <1>0, <1>1, <1>4, <2>1, <2>2, <2>3 DEF AInv, Held
<1> QED BY <1>5, <1>6, <1>7

LEMMA AccountIsHeld == IInv /\ AInv /\ [Next]_vars => AInv'
<1> SUFFICES ASSUME IInv, AInv, [Next]_vars PROVE AInv'
  OBVIOUS
<1>1. ASSUME NEW t \in Offer, FirstCall(t) PROVE AInv'
  <2>1. account' = Untouched /\ others' = FALSE /\ pc' # "idle"
    BY <1>1 DEF FirstCall, Receive, AInv
  <2> QED BY <2>1 DEF AInv, Held, Untouched
<1>2. CASE Repeat
  <2>1. tool' = tool /\ account' = account /\ others' = others /\ pc' # "idle"
    BY <1>2 DEF Repeat, Receive
  <2> QED BY <2>1 DEF AInv, Held
<1>3. CASE Challenge \/ Decline \/ Accept \/ Finish
  <2>1. tool' = tool /\ account' = account /\ others' = others
    BY <1>3 DEF Challenge, Decline, Accept, Finish, request, world
  <2>2. pc' # "idle"
    BY <1>3 DEF Challenge, Decline, Accept, Finish, Answer, Panic
  <2> QED BY <2>1, <2>2 DEF AInv, Held
<1>4. CASE Served \/ Rejected \/ Retry \/ Unreachable \/ Content
  BY <1>4, RequestSpares DEF Request
<1>5. CASE Others
  <2>1. /\ pc # "idle" /\ pc' = pc /\ tool' = tool /\ others' = TRUE
        /\ account' = [account EXCEPT
                     !.work = TRUE, !.value = "theirs",
                     !.named = IF @ = "nothing" THEN "theirs" ELSE @]
    BY <1>5 DEF Others, request
  <2>2. account \in Account
    BY DEF IInv, TypeOK
  <2>3. /\ account'.value = "theirs" /\ account'.present = account.present
        /\ account'.made = account.made /\ account'.runs = account.runs
        /\ account'.lost = account.lost
        /\ account.named = "old" => account'.named = "old"
    BY <2>1, <2>2 DEF Account
  <2> QED BY <2>1, <2>3 DEF AInv, Held
<1>6. CASE UNCHANGED vars
  BY <1>6 DEF vars, AInv, Held
<1> QED BY <1>1, <1>2, <1>3, <1>4, <1>5, <1>6 DEF Next, Serve

LEMMA AccountInvariance == Spec => []AInv
<1>1. Init => AInv
  BY UntouchedIsHeld DEF Init, AInv
<1> QED BY <1>1, Invariance, AccountIsHeld, PTL DEF Spec

\* Two accounts that agree in everything are one.
LEMMA SameAccount ==
    ASSUME NEW a \in Account, NEW b \in Account,
           a.made = b.made, a.runs = b.runs, a.keys = b.keys, a.present = b.present,
           a.named = b.named, a.value = b.value, a.work = b.work, a.lost = b.lost
    PROVE  a = b
BY DEF Account

\* Whatever a tool is, if its hints are due to its requests they hold: through
\* retries, failures and repeated calls, whoever else uses the account meanwhile.
THEOREM HintsAreKept == Spec => [](HintsAreDue(tool) => HintsHold)
<1>1. TypeOK /\ AInv => (HintsAreDue(tool) => HintsHold)
  <2> SUFFICES ASSUME TypeOK, AInv, HintsAreDue(tool) PROVE HintsHold
    OBVIOUS
  <2>1. account \in Account /\ Held(tool) /\ others \in BOOLEAN
    BY DEF TypeOK, AInv
  <2>2. OnlyReads(tool) => TakesNothing(tool) /\ Repeatable(tool)
    BY DEF OnlyReads, TakesNothing, Repeatable
  <2>3. ASSUME OnlyReads(tool)
        PROVE  account = [Untouched EXCEPT
                            !.keys = account.keys, !.work = account.work,
                            !.value = IF others THEN "theirs" ELSE "old"]
    <3>1. /\ account.made = 0 /\ account.runs = 0 /\ account.lost = FALSE
          /\ account.present = TRUE /\ account.named = "old"
          /\ account.value = IF others THEN "theirs" ELSE "old"
      BY <2>1, <2>2, <2>3 DEF Held
    <3> DEFINE v == IF others THEN "theirs" ELSE "old"
    <3>2. account.value = v
      BY <3>1
    <3> HIDE DEF v
    <3> DEFINE u == [Untouched EXCEPT !.keys = account.keys, !.work = account.work, !.value = v]
    <3>3. v \in {"old", "theirs"}
      BY DEF v
    <3>4. u \in Account
      BY <2>1, <3>3 DEF Account, Untouched
    <3>5. /\ account.made = u.made /\ account.runs = u.runs /\ account.keys = u.keys
          /\ account.present = u.present /\ account.named = u.named /\ account.value = u.value
          /\ account.work = u.work /\ account.lost = u.lost
      BY <3>1, <3>2 DEF Untouched
    <3> HIDE DEF u
    <3>6. account = u
      BY <2>1, <3>4, <3>5, SameAccount
    <3> QED BY <3>6 DEF u, v
  <2>4. TakesNothing(tool) => account.present /\ account.named = "old"
    BY <2>1 DEF Held
  <2>5. Repeatable(tool) => account.made = 0 /\ account.runs = 0 /\ ~account.lost
    BY <2>1 DEF Held
  <2> QED BY <2>3, <2>4, <2>5 DEF HintsAreDue, HintsHold
<1>2. Spec => []TypeOK
  BY TypeCorrect
<1> QED BY <1>1, <1>2, AccountInvariance, PTL

\* The hints of a server hold if those of each of its tools are due.
THEOREM HintsHoldOfDue ==
    ASSUME \A t \in Offer : HintsAreDue(t)
    PROVE  Spec => []HintsHold
<1>1. Quiet /\ (HintsAreDue(tool) => HintsHold) => HintsHold
  BY DEF Quiet, HintsHold
<1>2. IInv => Quiet
  BY DEF IInv
<1> QED BY <1>1, <1>2, Invariance, HintsAreKept, PTL

-----------------------------------------------------------------------------
(* The schema, and what a handler asks of its arguments.                   *)

\* A refusal is for what the handler found in the call, and nothing but a failed
\* assertion drops it.
Blamed ==
    /\ answer = "refused" => Refuses(Handled, call) \/ RulesOut(Handled, call)
    /\ pc \in {"dropped", "down"} => Panics(Handled, call)

LEMMA BlameIsInductive == IInv /\ Blamed /\ [Next]_vars => Blamed'
<1> SUFFICES ASSUME IInv, Blamed, [Next]_vars PROVE Blamed'
  OBVIOUS
<1>0. TypeOK /\ Quiet
  BY DEF IInv
<1>1. CASE (\E t \in Offer : FirstCall(t)) \/ Repeat
  <2>1. pc' = "received" /\ answer' = None
    BY <1>1 DEF FirstCall, Repeat, Receive
  <2> QED BY <2>1 DEF Blamed, None
<1>2. CASE Challenge \/ Finish
  <2>1. pc' = "answered" /\ answer' \in {"unauthorized", "failed", "done"}
    BY <1>2 DEF Challenge, Finish, Answer
  <2> QED BY <2>1 DEF Blamed
<1>3. CASE Decline
  <2>1. pc = "received" /\ answer = None /\ UNCHANGED <<tool, call>>
    BY <1>0, <1>3 DEF Decline, Quiet, Silent, request
  <2>2. \/ Answer(NoClientAnswer)
        \/ Answer("refused") /\ (Refuses(Handled, call) \/ RulesOut(Handled, call))
        \/ Panic /\ Panics(Handled, call)
    BY <1>3 DEF Decline
  <2>3. CASE Answer(NoClientAnswer)
    <3>1. pc' = "answered" /\ answer' # "refused"
      BY <2>3 DEF Answer, NoClientAnswer
    <3> QED BY <3>1 DEF Blamed
  <2>4. CASE Answer("refused") /\ (Refuses(Handled, call) \/ RulesOut(Handled, call))
    <3>1. pc' = "answered" /\ Handled' = Handled /\ call' = call
      BY <2>1, <2>4 DEF Answer, Handled
    <3> QED BY <2>4, <3>1 DEF Blamed
  <2>5. CASE Panic /\ Panics(Handled, call)
    <3>1. answer' = None /\ Handled' = Handled /\ call' = call
      BY <2>1, <2>5 DEF Panic, reply, Handled
    <3> QED BY <2>5, <3>1 DEF Blamed, None
  <2> QED BY <2>2, <2>3, <2>4, <2>5
<1>4. CASE Accept
  <2>1. pc' = "requesting" /\ answer' = None
    BY <1>0, <1>4 DEF Accept, Quiet, Silent, reply
  <2> QED BY <2>1 DEF Blamed, None
<1>5. CASE Served \/ Rejected \/ Retry \/ Unreachable \/ Content
  <2>1. Request
    BY <1>5 DEF Request
  <2>2. Sending /\ (Goes \/ Repeats \/ Stops)
    BY <1>0, <2>1, Requesting
  <2>3. pc = "requesting" /\ answer = None
    BY <1>0, <2>2, AtRequest DEF Quiet, Silent
  <2>4. pc' \in {"requesting", "answered"} /\ answer' \in {None, "goError", "failed"}
    BY <2>2, <2>3 DEF Goes, Repeats, Stops, reply
  <2> QED BY <2>4 DEF Blamed, None
<1>6. CASE Others \/ UNCHANGED vars
  <2>1. UNCHANGED <<tool, call, pc, answer>>
    BY <1>6 DEF Others, vars, request, reply
  <2> QED BY <2>1 DEF Blamed, Handled
<1> QED BY <1>1, <1>2, <1>3, <1>4, <1>5, <1>6 DEF Next, Serve

\* No call is refused, or dropped, but for what its handler does not accept of it:
\* not for an answer of the API, a retry or an earlier call.
THEOREM RefusalsAreEarned == Spec => []Blamed
<1>1. Init => Blamed
  BY DEF Init, Blamed, None
<1> QED BY <1>1, Invariance, BlameIsInductive, PTL DEF Spec

\* A tool with such a schema neither refuses nor drops a call that goes by it.
THEOREM CompleteSchemasFit == Spec => [](SchemaIsComplete(tool) => FitsItsSchema)
<1>1. Blamed => (SchemaIsComplete(tool) => FitsItsSchema)
  <2> SUFFICES ASSUME Blamed, SchemaIsComplete(tool), BySchema
               PROVE  answer # "refused" /\ pc \notin {"dropped", "down"}
    BY DEF FitsItsSchema
  <2>1. /\ Handled.demands \subseteq call.given /\ Handled.asserts \subseteq call.given
        /\ call.malformed = {} /\ call.given \ call.malformed = call.given
    BY DEF SchemaIsComplete, BySchema, Handled
  <2>2. ~Panics(Handled, call) /\ ~RulesOut(Handled, call)
    BY <2>1 DEF Panics, RulesOut
  <2>3. ~Refuses(Handled, call)
    BY <2>1 DEF Refuses, BySchema
  <2> QED BY <2>2, <2>3 DEF Blamed
<1> QED BY <1>1, RefusalsAreEarned, PTL

\* A server's tools fit their schemas if those are complete, but for the misfits.
THEOREM SchemasFit ==
    ASSUME \A t \in Offer : t.name \notin Misfits => SchemaIsComplete(t)
    PROVE  Spec => []FitsItsSchema
<1>1. Quiet /\ (SchemaIsComplete(tool) => FitsItsSchema) => FitsItsSchema
  BY DEF Quiet, FitsItsSchema
<1>2. IInv => Quiet
  BY DEF IInv
<1> QED BY <1>1, <1>2, Invariance, CompleteSchemasFit, PTL
=============================================================================
