---------------------------- MODULE MCWsLogging -----------------------------
(***************************************************************************)
(* WsLogging for TLC: the family as a library user may build it            *)
(* (FamilySpec), and as cmd/mcp-digitalocean/main.go builds it (MainSpec). *)
(***************************************************************************)
EXTENDS WsLogging, TLC

CONSTANTS base, child

RecordSymmetry == Permutations(Records)

\* main configures and starts the handler of NewHandler, then logs through and
\* closes the handler it derived from it (the deferred Close reads the variable
\* that was reassigned to the derived handler).
MainInit ==
    /\ made = Handlers
    /\ wsEnabled = [h \in Handlers |-> TRUE]
    /\ closed = [h \in Handlers |-> FALSE]
    /\ handled = {} /\ stderr = {} /\ pending = {}
    /\ wsBuffer = <<>> /\ bufferClosed = FALSE
    /\ once = "unused" /\ closer = Base
    /\ ctxDone = FALSE
    /\ pc = "select" /\ leaving = FALSE /\ batch = <<>> /\ sent = 0
    /\ lastFlush = "sent"
    /\ accepted = <<>> /\ written = <<>> /\ received = <<>>
    /\ panicked = FALSE

MainSpec == MainInit /\ [][Next]_vars /\ SchedulerFairness /\ NetworkFairness
=============================================================================
