---------------------------- MODULE ToolContract ----------------------------
(***************************************************************************)
(* The vocabulary the tool catalogues are written in.  A tool is a name,   *)
(* the hints it announces (pkg/registry/common/annotations.go), the        *)
(* arguments its schema requires and its handler.  A handler is what it    *)
(* asks of its arguments and the requests it then sends, one after the     *)
(* other, to the DigitalOcean API.                                         *)
(*                                                                         *)
(* An argument is missing, well formed or malformed: of another type, or   *)
(* outside of the values the handler accepts.  What a handler reads if it  *)
(* is there and well formed, and ignores otherwise, does not change what   *)
(* it does and is left out.                                                *)
(***************************************************************************)
EXTENDS Naturals, Sequences, FiniteSets

-----------------------------------------------------------------------------
(* Hints.                                                                  *)

Hints(readOnly, destructive, idempotent) ==
    [readOnly |-> readOnly, destructive |-> destructive, idempotent |-> idempotent]

\* Mutant: a creation is announced as one that converges.
HintsCreate_Toggle == Hints(FALSE, FALSE, TRUE)

HintsRead == Hints(TRUE,  FALSE, TRUE)
HintsCreate == Hints(FALSE, FALSE, FALSE)
HintsAction == Hints(FALSE, FALSE, FALSE)
HintsToggle == Hints(FALSE, FALSE, TRUE)
HintsDelete == Hints(FALSE, TRUE,  TRUE)
HintsReplace == Hints(FALSE, TRUE,  FALSE)
HintsOverwrite == Hints(FALSE, TRUE,  TRUE)

-----------------------------------------------------------------------------
(* Requests.  What one does to the resource it is about:                   *)
(*   reads                                                                 *)
(*   creates    adds one, with another identity each time                  *)
(*   deletes    removes the one that has this identity                     *)
(*   unnames    removes whatever has this name now                         *)
(*   sets       gives it the value that is named                           *)
(*   starts     starts one more action, run or deployment on it            *)
(*   restores   goes back to a checkpoint, dropping what came after it     *)
(*   mints      makes an access key, unless the server already keeps one   *)
(* A direct request is sent without godo's retries.  The failure of a      *)
(* raising one is returned as a Go error, that of another one as a tool    *)
(* result.  The failure of an optional one is forgiven, and once one has   *)
(* succeeded the handler may leave out the rest.                           *)

Effects ==
    {"reads", "creates", "deletes", "unnames", "sets", "starts", "restores", "mints"}

Requests == [effect : Effects, direct : BOOLEAN, raising : BOOLEAN, optional : BOOLEAN]

-----------------------------------------------------------------------------
(* Handlers.                                                               *)

\* demands   missing or malformed: refused, with a tool result
\* checks    malformed: refused
\* asserts   an unchecked type assertion: missing or malformed, it panics
\* brittle   an unchecked assertion on what was given: malformed, it panics
\* values    of the right type but not one of the values accepted: refused,
\*           once there is a client
\* someOf    of each of these sets, at least one
\* oneOf     of each of these sets, exactly one
\* client    whether the godo client is asked for "first", "later" than the
\*           arguments are looked at, or not at all ("none")
\* noClient  how it answers without a client: "goError" or "result"
\* does      the sequences of requests, of which it sends one
Handler(does) ==
    [demands |-> {}, checks |-> {}, asserts |-> {}, brittle |-> {}, values |-> {},
     someOf |-> {}, oneOf |-> {}, client |-> "later", noClient |-> "goError",
     does |-> does]

Sends(effect) ==
    Handler({<<[effect |-> effect, direct |-> FALSE, raising |-> FALSE,
                optional |-> FALSE]>>})

Nothing  == Handler({<<>>})
Reads    == Sends("reads")
Creates  == Sends("creates")
Deletes  == Sends("deletes")
Unnames  == Sends("unnames")
Sets     == Sends("sets")
Starts   == Sends("starts")
Restores == Sends("restores")

\* The requests of h, then those of k; the requests of the one or of the other.
h ++ k       == [h EXCEPT !.does = {s \o t : s \in h.does, t \in k.does}]
Either(h, k) == [h EXCEPT !.does = @ \union k.does]

Each(h, change(_)) == [h EXCEPT !.does = {[i \in DOMAIN s |-> change(s[i])] : s \in @}]

Direct(h)  == LET Change(r) == [r EXCEPT !.direct = TRUE] IN Each(h, Change)
Raising(h) == LET Change(r) == [r EXCEPT !.raising = TRUE] IN Each(h, Change)
May(h)     == LET Change(r) == [r EXCEPT !.optional = TRUE] IN Each(h, Change)

Demands(args, h) == [h EXCEPT !.demands = @ \union args]
Checks(args, h)  == [h EXCEPT !.checks = @ \union args]
Asserts(args, h) == [h EXCEPT !.asserts = @ \union args]
Brittle(args, h) == [h EXCEPT !.brittle = @ \union args]
Values(args, h)  == [h EXCEPT !.values = @ \union args]
SomeOf(args, h)  == [h EXCEPT !.someOf = @ \union {args}]
OneOf(args, h)   == [h EXCEPT !.oneOf = @ \union {args}]

ClientFirst(h)         == [h EXCEPT !.client = "first"]
NoClient(h)            == [h EXCEPT !.client = "none"]
ClientErrorIsResult(h) == [h EXCEPT !.noClient = "result"]

\* uploadEvaluationDataset and its likes: presign, PUT to object storage with
\* http.DefaultClient, register what was uploaded.
Upload == Reads ++ Direct(Sets) ++ Creates

\* The OpenWhisk tools: resolver.Resolve (module OWResolver), then one request
\* with the OpenWhisk client.
WithKey(h) == Sends("mints") ++ Direct(h)

-----------------------------------------------------------------------------
(* Tools.                                                                  *)

Tool(name, hints, required, handler) ==
    [name |-> name, hints |-> hints, required |-> required, handler |-> handler]

Mentioned(h) ==
    h.demands \union h.checks \union h.asserts \union h.brittle \union h.values
      \union UNION h.someOf \union UNION h.oneOf

\* A call of the tool: the arguments that are given, and those of them that
\* are malformed.
Call(given, malformed) == [given |-> given, malformed |-> malformed]

\* What the handler makes of a call.
Panics(h, call) ==
    \/ ~(h.asserts \subseteq call.given \ call.malformed)
    \/ call.malformed \intersect h.brittle # {}

RulesOut(h, call) == call.malformed \intersect h.values # {}

\* What is malformed only by its value has the type that is asserted.
Typed(h, call) == Call(call.given, call.malformed \ h.values)

\* Mutant: both of two alternatives are asked for.
Refuses_Alternatives(h, call) ==
    LET wellFormed == call.given \ call.malformed
    IN  \/ ~(h.demands \subseteq wellFormed)
        \/ call.malformed \intersect h.checks # {}
        \/ \E S \in h.someOf \union h.oneOf : ~(S \subseteq wellFormed)
Refuses(h, call) ==
    LET wellFormed == call.given \ call.malformed
    IN  \/ ~(h.demands \subseteq wellFormed)
        \/ call.malformed \intersect h.checks # {}
        \/ \E S \in h.someOf : S \intersect wellFormed = {}
        \/ \E S \in h.oneOf : Cardinality(S \intersect wellFormed) # 1

\* The arguments a client gives that goes by the schema and the description of
\* the tool: all that are required and whatever else the handler knows, with
\* one only of alternatives that exclude each other.
Complete(tool) ==
    LET h == tool.handler
        excluded == UNION h.oneOf
        always == tool.required \union Mentioned(h)
    IN  {always \ (excluded \ kept) :
            kept \in {K \in SUBSET excluded :
                        \A S \in h.oneOf : Cardinality(K \intersect S) = 1}}
=============================================================================
