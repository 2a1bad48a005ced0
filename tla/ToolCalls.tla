------------------------------ MODULE ToolCalls ------------------------------
(***************************************************************************)
(* A server, a client that calls one of its tools and perhaps calls it     *)
(* again, and the DigitalOcean account the requests of the handler change. *)
(*                                                                         *)
(* What is common to all of the tools is in here: the bearer guard         *)
(* (internal/oauthmeta), the client a handler gets from its context        *)
(* (clientFromContext, newGodoClientWithTokenAndEndpoint in main.go), the  *)
(* retries of that client, the answer and the outcome that is logged for   *)
(* it (internal/middleware.go).  What a tool asks of its arguments and     *)
(* which requests it sends comes from the catalogues, through Offer.       *)
(*                                                                         *)
(* The API may serve a request, reject it, or be out of reach, before or   *)
(* after it has done what was asked.  Somebody else may use the account in *)
(* the meantime.                                                           *)
(***************************************************************************)
EXTENDS ToolContract

CONSTANTS
    Offer,      \* the tools of a server that is started for every service
    Public,     \* those of an anonymous server
    RetryMax,   \* RetryConfig.RetryMax: how often godo repeats a request
    MaxCalls    \* bound: how often the client calls

ASSUME NumbersAssumption == RetryMax \in Nat /\ MaxCalls \in Nat \ {0}

\* A handler that asks for no godo client has none to mint access keys with.
ASSUME OfferAssumption ==
    /\ Public \subseteq Offer
    /\ \A t \in Offer :
          /\ t.handler.does \subseteq Seq(Requests)
          /\ t.handler.client \in {"first", "later", "none"}
          /\ t.handler.client = "none" =>
                \A sent \in t.handler.does : \A i \in DOMAIN sent : sent[i].effect # "mints"

VARIABLES
    mode,       \* how the server runs: "stdio", "guarded" or "anonymous"
    tool,       \* the tool that is called, NoTool before
    call,       \* the arguments of the call
    auth,       \* the scheme of the Authorization header
    pc,         \* "idle", "received", "requesting", "answered", "dropped", "down"
    plan,       \* the requests the handler sends
    step,       \* the one of them it is at
    tries,      \* how often godo has repeated that one
    won,        \* whether an optional request has succeeded
    answer,     \* what the client was told
    outcome,    \* what the middleware logged about that
    calls,      \* how often the client has called
    account,    \* the account
    keyed,      \* whether the server keeps an access key (module OWResolver)
    others,     \* whether somebody else has used the account
    executed    \* history: the requests of the call that were executed

vars == <<mode, tool, call, auth, pc, plan, step, tries, won, answer, outcome,
          calls, account, keyed, others, executed>>

request == <<mode, tool, call, auth, calls>>
handler == <<plan, step, tries, won>>
reply   == <<answer, outcome>>
world   == <<account, keyed, others, executed>>

None    == "none"
NoTool  == Tool(None, HintsRead, {}, Nothing)
Handled == tool.handler
Modes   == {"stdio", "guarded", "anonymous"}
Headers == {"absent", "Bearer", "bearer"}
Answers == {"done", "failed", "refused", "goError", "unauthorized"}

-----------------------------------------------------------------------------
(* The account: what the calls have made (copies of the resource, actions  *)
(* started, access keys), the resource itself, what carries its name, its  *)
(* value, and the later work of somebody else.                             *)

Account ==
    [made : Nat, runs : Nat, keys : Nat, present : BOOLEAN,
     named : {"old", "theirs", "nothing"}, value : {"old", "asked", "theirs"},
     work : BOOLEAN, lost : BOOLEAN]

Untouched ==
    [made |-> 0, runs |-> 0, keys |-> 0, present |-> TRUE, named |-> "old",
     value |-> "old", work |-> FALSE, lost |-> FALSE]

Execute(a, effect) ==
    CASE effect = "reads"    -> a
      [] effect = "creates"  -> [a EXCEPT !.made = @ + 1]
      [] effect = "deletes"  -> [a EXCEPT !.present = FALSE]
      [] effect = "unnames"  -> [a EXCEPT !.named = "nothing",
                                          !.lost = @ \/ a.named = "theirs"]
      [] effect = "sets"     -> [a EXCEPT !.value = "asked"]
      [] effect = "starts"   -> [a EXCEPT !.runs = @ + 1]
      [] effect = "restores" -> [a EXCEPT !.work = FALSE, !.lost = @ \/ a.work]
      [] effect = "mints"    -> [a EXCEPT !.keys = @ + 1]

-----------------------------------------------------------------------------
(* Who may call, and as whom.                                              *)

\* RequireBearer lets through what has a bearer token, whatever the case of
\* the scheme.
Challenged == mode = "guarded" /\ auth = "absent"

\* clientFromContext: over stdio there is one client with the token of the
\* command line, over HTTP a client per call with the token of the header.
\* Mutant: a remote server falls back on the token of its command line.
HasClient_OwnToken == TRUE
HasClient == mode = "stdio" \/ auth # "absent"

\* The token that is sent is what remains without the prefix "Bearer ": in
\* lower case the scheme stays in the token.  Requests made without a godo
\* client carry none and need none.
TokenIsGood == mode = "stdio" \/ auth # "bearer" \/ Handled.client = "none"

-----------------------------------------------------------------------------
(* Answers, and ToolMiddleware, which logs them.                           *)

ToolMiddleware(a) ==
    CASE a = "goError"               -> "tool_call_error"
      [] a \in {"failed", "refused"} -> "tool_call_result_error"
      [] a = "done"                  -> "tool_call_success"

Answer(a) == pc' = "answered" /\ answer' = a /\ outcome' = ToolMiddleware(a)

\* An unchecked type assertion fails.  Nothing is logged or answered: over
\* stdio the process ends, over HTTP net/http gives up the connection.
Panic ==
    /\ pc' = IF mode = "stdio" THEN "down" ELSE "dropped"
    /\ UNCHANGED reply

-----------------------------------------------------------------------------
(* The client.                                                             *)

Receive(t, args, header) ==
    /\ tool' = t /\ call' = args /\ auth' = header
    /\ calls' = calls + 1
    /\ pc' = "received" /\ answer' = None /\ outcome' = None
    /\ executed' = {}
    /\ UNCHANGED <<mode, handler, account, keyed, others>>

\* The calls that are tried: complete, without one of the arguments, with one
\* of them malformed, and with only what the schema requires.
Calls(t) ==
    LET complete == Complete(t)
    IN  {Call(c \ {a}, {}) : c \in complete, a \in Mentioned(t.handler)}
          \union {Call(c, {a}) : c \in complete, a \in Mentioned(t.handler)}
          \union {Call(c, {}) : c \in complete \union {t.required}}

Offered == IF mode = "anonymous" THEN Public ELSE Offer

FirstCall(t) ==
    /\ pc = "idle" /\ t \in Offered
    /\ \E args \in Calls(t) :
          \E header \in IF mode = "stdio" THEN {"absent"} ELSE Headers :
             Receive(t, args, header)

\* The same call once more: the client has no answer, or one it thinks it can
\* do better than, or the hints say that there is no harm in it.
Repeat ==
    /\ pc \in {"answered", "dropped"} /\ calls < MaxCalls
    /\ answer \in {"failed", "goError", None} \/ tool.hints.idempotent
    /\ Receive(tool, call, auth)

-----------------------------------------------------------------------------
(* The handler, up to its first request.                                   *)

Challenge ==
    /\ pc = "received" /\ Challenged
    /\ pc' = "answered" /\ answer' = "unauthorized"
    /\ UNCHANGED <<request, handler, outcome, world>>

LacksClient(when) == Handled.client = when /\ ~HasClient
NoClientAnswer    == IF Handled.noClient = "goError" THEN "goError" ELSE "failed"

Decline ==
    /\ pc = "received" /\ ~Challenged
    /\ \/ LacksClient("first") /\ Answer(NoClientAnswer)
       \/ ~LacksClient("first") /\ Panics(Handled, call) /\ Panic
       \/ /\ ~LacksClient("first") /\ ~Panics(Handled, Typed(Handled, call))
          /\ \/ Refuses(Handled, call) /\ Answer("refused")
             \/ ~Refuses(Handled, call) /\ LacksClient("later") /\ Answer(NoClientAnswer)
             \/ /\ ~Refuses(Handled, call) /\ ~LacksClient("later")
                /\ RulesOut(Handled, call) /\ Answer("refused")
    /\ UNCHANGED <<request, handler, world>>

Accept ==
    /\ pc = "received" /\ ~Challenged
    /\ ~LacksClient("first") /\ ~LacksClient("later")
    /\ ~Panics(Handled, call) /\ ~Refuses(Handled, call) /\ ~RulesOut(Handled, call)
    /\ plan' \in Handled.does
    /\ step' = 1 /\ tries' = 0 /\ won' = FALSE /\ pc' = "requesting"
    /\ UNCHANGED <<request, reply, world>>

-----------------------------------------------------------------------------
(* One request after the other.                                            *)

Sending == pc = "requesting" /\ step <= Len(plan)
Current == plan[step]

\* OWResolver.Resolve finds a key in its cache.
Cached(r) == r.effect = "mints" /\ keyed

Proceed == step' = step + 1 /\ tries' = 0 /\ UNCHANGED <<pc, plan, reply>>

\* A request has failed for good.  Mutant: the error is not looked at.
Fail_Ignored(r) == Proceed
Fail(r) ==
    \/ r.optional /\ Proceed
    \/ /\ ~r.optional
       /\ Answer(IF r.raising THEN "goError" ELSE "failed")
       /\ UNCHANGED <<plan, step, tries>>

Perform(r) ==
    /\ account' = Execute(account, r.effect)
    /\ executed' = executed \union {step}

\* Served from the cache, without a request, or by the API.
Served ==
    /\ Sending
    /\ \/ Cached(Current) /\ executed' = executed \union {step} /\ UNCHANGED account
       \/ ~Cached(Current) /\ TokenIsGood /\ Perform(Current)
    /\ Proceed
    /\ won' = (won \/ Current.optional)
    /\ keyed' = (keyed \/ Current.effect = "mints")
    /\ UNCHANGED <<request, others>>

Rejected ==
    /\ Sending /\ ~Cached(Current)
    /\ Fail(Current)
    /\ UNCHANGED <<request, won, world>>

\* There is no answer: the request has been executed nevertheless, or not.
Unheard(r) ==
    \/ TokenIsGood /\ Perform(r)
    \/ UNCHANGED <<account, executed>>

\* retryablehttp repeats a request whatever its method.
MayRetry(r) == ~r.direct /\ tries < RetryMax

Retry ==
    /\ Sending /\ ~Cached(Current) /\ MayRetry(Current)
    /\ Unheard(Current)
    /\ tries' = tries + 1
    /\ UNCHANGED <<request, pc, plan, step, won, reply, keyed, others>>

\* The retries are used up, there are none, or the call has been cancelled.
Unreachable ==
    /\ Sending /\ ~Cached(Current)
    /\ Unheard(Current)
    /\ Fail(Current)
    /\ UNCHANGED <<request, won, keyed, others>>

\* A handler that has got something from an optional request may do without
\* the next one.
Content ==
    /\ Sending /\ won /\ Current.optional
    /\ Proceed
    /\ UNCHANGED <<request, won, world>>

AllFailed == plan # <<>> /\ ~won /\ \A i \in DOMAIN plan : plan[i].optional

Finish ==
    /\ pc = "requesting" /\ step > Len(plan)
    /\ Answer(IF AllFailed THEN "failed" ELSE "done")
    /\ UNCHANGED <<request, handler, world>>

-----------------------------------------------------------------------------
(* Somebody else, once, while the client is about its calls.               *)

Others ==
    /\ ~others /\ pc # "idle" /\ others' = TRUE
    /\ account' = [account EXCEPT
                     !.work = TRUE, !.value = "theirs",
                     !.named = IF @ = "nothing" THEN "theirs" ELSE @]
    /\ UNCHANGED <<request, pc, handler, reply, keyed, executed>>

-----------------------------------------------------------------------------
Init ==
    /\ mode \in Modes
    /\ tool = NoTool /\ call = Call({}, {}) /\ auth = "absent" /\ pc = "idle"
    /\ plan = <<>> /\ step = 0 /\ tries = 0 /\ won = FALSE
    /\ answer = None /\ outcome = None /\ calls = 0
    /\ account = Untouched /\ keyed = FALSE /\ others = FALSE /\ executed = {}

Serve ==
    Challenge \/ Decline \/ Accept \/ Served \/ Rejected \/ Retry \/ Unreachable
      \/ Content \/ Finish

Next == (\E t \in Offer : FirstCall(t)) \/ Repeat \/ Serve \/ Others

Spec == Init /\ [][Next]_vars

-----------------------------------------------------------------------------
(* Properties.                                                             *)

\* The variables have their types; a request is repeated RetryMax times at
\* most (newGodoClientWithTokenAndEndpoint) and a handler is at one of its
\* requests, or past the last.
TypeOK ==
    /\ mode \in Modes /\ auth \in Headers
    /\ pc \in {"idle", "received", "requesting", "answered", "dropped", "down"}
    /\ tool.handler.does \subseteq Seq(Requests) /\ (pc = "idle" => tool = NoTool)
    /\ plan \in Seq(Requests) /\ step \in 0..(Len(plan) + 1) /\ tries \in 0..RetryMax
    /\ pc = "requesting" => step > 0
    /\ won \in BOOLEAN /\ keyed \in BOOLEAN /\ others \in BOOLEAN
    /\ answer \in Answers \union {None}
    /\ account \in Account /\ executed \subseteq DOMAIN plan /\ calls \in 0..MaxCalls

CONSTANT NotRepeatable  \* names of the tools whose hints promise too much

\* The hints hold through retries, failures, repeated calls and the work of
\* others in between: a tool that announces that it only reads changes nothing,
\* one that is not destructive takes nothing away, and one that is idempotent
\* makes nothing twice and destroys nothing that came after it (the hint
\* profiles of annotations.go).  Access keys are not counted.
HintsHold ==
    pc # "idle" =>
      LET hints == tool.hints
      IN  /\ hints.readOnly =>
                account = [Untouched EXCEPT
                             !.keys = account.keys, !.work = account.work,
                             !.value = IF others THEN "theirs" ELSE "old"]
          /\ ~hints.destructive => account.present /\ account.named = "old"
          /\ hints.idempotent /\ tool.name \notin NotRepeatable =>
                account.made = 0 /\ account.runs = 0 /\ ~account.lost

\* What the client is told, and what is logged, is what happened: a success
\* means that every request was executed that is not optional, and one of them
\* at least if all are; a refusal or a dropped connection, that none was.
AnswersAreHonest ==
    /\ answer = "done" \/ outcome = "tool_call_success" =>
          /\ {i \in DOMAIN plan : ~plan[i].optional} \subseteq executed
          /\ plan # <<>> => executed # {}
    /\ answer \in {"refused", "unauthorized"} \/ pc \in {"dropped", "down"} =>
          executed = {}

CONSTANT Misfits        \* names of the tools with a schema the handler does not keep to

\* By the schema: all that is required and none of it malformed, and the
\* alternatives the description of the tool explains are respected.
BySchema ==
    /\ tool.required \subseteq call.given /\ call.malformed = {}
    /\ \A S \in Handled.someOf : S \intersect call.given # {}
    /\ \A S \in Handled.oneOf : Cardinality(S \intersect call.given) = 1

\* The schema requires all that the handler insists on.
SchemaIsComplete(t) == t.handler.demands \union t.handler.asserts \subseteq t.required

\* A call made by the schema of the tool is neither refused nor panics.
FitsItsSchema ==
    pc # "idle" /\ BySchema /\ tool.name \notin Misfits =>
      answer # "refused" /\ pc \notin {"dropped", "down"}

\* Without a token no request is made in anybody's name: behind the guard no
\* handler is reached, and on an anonymous server only those get somewhere that
\* use no client (checkAnonymousServices, clientFromContext).
NoTokenNoRequest ==
    mode # "stdio" /\ auth = "absent" /\ pc # "idle" =>
      /\ executed # {} => Handled.client = "none" /\ mode = "anonymous"
      /\ account.keys = 0

\* What middleware.go says of ToolCallResultError: an error that is driven by
\* faulty input of the model or the user is a tool result, so that they can
\* correct it.
FaultyInputIsAResult ==
    [][ pc = "received" /\ pc' # pc /\ pc' # "requesting" /\ HasClient
          /\ ~Challenged /\ (call.malformed # {} \/ ~BySchema) =>
          outcome' = "tool_call_result_error" ]_vars
=============================================================================
