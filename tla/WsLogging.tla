----------------------------- MODULE WsLogging ------------------------------
(***************************************************************************)
(* internal/wslogging/handler.go: a family of slog handlers (the one that  *)
(* NewHandler returned and those WithAttrs and WithGroup derived from it)  *)
(* that share one buffer channel, one mutex and one sync.Once, but each    *)
(* hold their own copies of wsEnabled and closed; and the goroutine that   *)
(* drains the channel into a batch and writes the batch to a WebSocket.    *)
(*                                                                         *)
(* wsMu is only ever held over code that cannot block, so a section under  *)
(* wsMu is one step.  flushMu has a single user, the log writer.           *)
(***************************************************************************)
EXTENDS Naturals, Sequences, FiniteSets

CONSTANTS
    Handlers,       \* the handlers of the family
    Base,           \* the one NewHandler returned: configured and started
    Loggers,        \* the handlers the application logs through
    Closers,        \* the handlers on which the application calls Close
    Records,        \* the log records; each is handled at most once
    BufferSize,     \* bufferSize
    MaxBatchSize,   \* maxBatchSize
    WriteOutcomes,  \* what a write may do, a subset of Outcomes
    MaxReceived     \* bound: no more failed writes that arrive beyond this

\* ok: arrived, reported as done.      lost: reported as done, never arrives.
\* fail: reported as failed.           failSeen: reported as failed, arrived.
Outcomes == {"ok", "lost", "fail", "failSeen"}

ASSUME FamilyAssumption ==
    /\ Base \in Handlers
    /\ Loggers \subseteq Handlers
    /\ Closers \subseteq Handlers
ASSUME SizeAssumption ==
    /\ BufferSize \in Nat \ {0}
    /\ MaxBatchSize \in Nat \ {0}
    /\ MaxReceived \in Nat
ASSUME OutcomeAssumption == WriteOutcomes \subseteq Outcomes

VARIABLES
    made,           \* the handlers that exist
    wsEnabled,      \* [Handlers -> BOOLEAN]: also says that h.wsBuffer is set
    closed,         \* [Handlers -> BOOLEAN]: each handler's own copy
    handled,        \* the records Handle was called with
    stderr,         \* the records written to stderr
    pending,        \* the goroutines running sendToWebSocket: <<handler, record>>
    wsBuffer,       \* the contents of the shared channel
    bufferClosed,   \* the channel is closed
    once,           \* closeOnce: "unused", "marked" (inside Do), "done"
    closer,         \* the handler whose Close runs inside closeOnce.Do
    ctxDone,        \* the context passed to Start is cancelled
    pc,             \* where the log writer is
    leaving,        \* the log writer returns after the current flush
    batch,          \* h.batch of the started handler
    sent,           \* sentCount of the flush in progress
    lastFlush,      \* history: "sent" all there was, "refused" (closed), "failed"
    accepted,       \* history: the records queued, in order
    written,        \* history: the records WriteMessage returned nil for
    received,       \* the records the endpoint saw
    panicked        \* the process died of a send on a closed channel

family == <<made, wsEnabled, closed>>
sending == <<handled, stderr, pending>>
closing == <<once, closer>>
writer == <<pc, leaving, batch, sent, lastFlush>>
history == <<accepted, written, received>>
vars == <<family, sending, wsBuffer, bufferClosed, closing, ctxDone, writer,
          history, panicked>>

\* NewHandler
Init ==
    /\ made = {Base}
    /\ wsEnabled = [h \in Handlers |-> FALSE]
    /\ closed = [h \in Handlers |-> FALSE]
    /\ handled = {} /\ stderr = {} /\ pending = {}
    /\ wsBuffer = <<>> /\ bufferClosed = FALSE
    /\ once = "unused" /\ closer = Base
    /\ ctxDone = FALSE
    /\ pc = "off" /\ leaving = FALSE /\ batch = <<>> /\ sent = 0
    /\ lastFlush = "sent"
    /\ accepted = <<>> /\ written = <<>> /\ received = <<>>
    /\ panicked = FALSE
-----------------------------------------------------------------------------
(* The family.                                                             *)

\* The one handler that is configured is the one that is then started.
ConfigureWebSocket ==
    /\ pc = "off"
    /\ ~wsEnabled[Base]
    /\ wsEnabled' = [wsEnabled EXCEPT ![Base] = TRUE]
    /\ UNCHANGED <<made, closed, sending, wsBuffer, bufferClosed, closing,
                   ctxDone, writer, history, panicked>>

\* Both methods copy the parent's fields; wsMu is not taken.
WithAttrsOrGroup(h, d) ==
    /\ h \in made
    /\ d \notin made
    /\ made' = made \cup {d}
    /\ wsEnabled' = [wsEnabled EXCEPT ![d] = wsEnabled[h]]
    /\ closed' = [closed EXCEPT ![d] = closed[h]]
    /\ UNCHANGED <<sending, wsBuffer, bufferClosed, closing, ctxDone, writer,
                   history, panicked>>

-----------------------------------------------------------------------------
(* Logging.                                                                *)

Handle(h, r) ==
    /\ h \in made
    /\ r \notin handled
    /\ handled' = handled \cup {r}
    /\ \/ /\ closed[h]
          /\ UNCHANGED <<stderr, pending>>
       \/ /\ ~closed[h]
          /\ stderr' = stderr \cup {r}
          /\ pending' = IF wsEnabled[h] THEN pending \cup {<<h, r>>} ELSE pending
    /\ UNCHANGED <<family, wsBuffer, bufferClosed, closing, ctxDone, writer,
                   history, panicked>>

\* json.Marshal rejects an attribute of the record.
SendNotMarshalled(h, r) == UNCHANGED <<wsBuffer, accepted, panicked>>

SendDropsClosed(h, r) ==
    /\ closed[h]
    /\ UNCHANGED <<wsBuffer, accepted, panicked>>

\* Mutant: sendToWebSocket forgets to look at h.closed.
SendPanicsUnchecked(h, r) ==
    /\ bufferClosed
    /\ panicked' = TRUE
    /\ UNCHANGED <<wsBuffer, accepted>>

\* A send on a closed channel panics, also inside a select with a default.
SendPanics(h, r) ==
    /\ ~closed[h]
    /\ bufferClosed
    /\ panicked' = TRUE
    /\ UNCHANGED <<wsBuffer, accepted>>

SendQueues(h, r) ==
    /\ ~closed[h]
    /\ ~bufferClosed
    /\ Len(wsBuffer) < BufferSize
    /\ wsBuffer' = Append(wsBuffer, r)
    /\ accepted' = Append(accepted, r)
    /\ UNCHANGED panicked

SendDropsFull(h, r) ==
    /\ ~closed[h]
    /\ ~bufferClosed
    /\ Len(wsBuffer) = BufferSize
    /\ UNCHANGED <<wsBuffer, accepted, panicked>>

sendToWebSocket(h, r) ==
    /\ <<h, r>> \in pending
    /\ pending' = pending \ {<<h, r>>}
    /\ \/ SendNotMarshalled(h, r)
       \/ SendDropsClosed(h, r)
       \/ SendPanics(h, r)
       \/ SendQueues(h, r)
       \/ SendDropsFull(h, r)
    /\ UNCHANGED <<family, handled, stderr, bufferClosed, closing, ctxDone,
                   writer, written, received>>
-----------------------------------------------------------------------------
(* Closing: the flag is set under wsMu, the channel is closed after it.    *)

CloseMarks(h) ==
    /\ h \in made
    /\ once = "unused"
    /\ once' = "marked"
    /\ closer' = h
    /\ closed' = [closed EXCEPT ![h] = TRUE]
    /\ UNCHANGED <<made, wsEnabled, sending, wsBuffer, bufferClosed, ctxDone,
                   writer, history, panicked>>

\* Mutant: Close sets the flag and leaves the channel open.
CloseWithoutBuffer ==
    /\ once = "marked"
    /\ once' = "done"
    /\ UNCHANGED <<family, sending, wsBuffer, bufferClosed, closer, ctxDone,
                   writer, history, panicked>>

CloseBuffer ==
    /\ once = "marked"
    /\ once' = "done"
    /\ bufferClosed' = wsEnabled[closer]
    /\ UNCHANGED <<family, sending, wsBuffer, closer, ctxDone, writer, history,
                   panicked>>

\* The context given to Start is the process's signal context.
CancelContext ==
    /\ ~ctxDone
    /\ ctxDone' = TRUE
    /\ UNCHANGED <<family, sending, wsBuffer, bufferClosed, closing, writer,
                   history, panicked>>
-----------------------------------------------------------------------------
(* The log writer.                                                         *)

Start ==
    /\ pc = "off"
    /\ wsEnabled[Base]
    /\ pc' = "select"
    /\ UNCHANGED <<family, sending, wsBuffer, bufferClosed, closing, ctxDone,
                   leaving, batch, sent, lastFlush, history, panicked>>

outsideWriter == <<family, sending, bufferClosed, closing, ctxDone, accepted,
                   panicked>>

\* A case of the select that only calls flushBatch; `last` when it then returns.
CallsFlush(last) ==
    /\ pc = "select"
    /\ pc' = "flush"
    /\ leaving' = last
    /\ UNCHANGED <<outsideWriter, wsBuffer, batch, sent, lastFlush, written,
                   received>>

ContextDone == ctxDone /\ CallsFlush(TRUE)
\* Mutant: the closed channel ends the writer without a last flush.
BufferDrainedNoFlush ==
    /\ bufferClosed
    /\ wsBuffer = <<>>
    /\ pc = "select"
    /\ pc' = "exited"
    /\ UNCHANGED <<outsideWriter, wsBuffer, leaving, batch, sent, lastFlush,
                   written, received>>

BufferDrained == bufferClosed /\ wsBuffer = <<>> /\ CallsFlush(TRUE)
Tick == CallsFlush(FALSE)

\* Mutant: > for >= in the comparison with maxBatchSize.
TakeRecordOneMore ==
    /\ pc = "select"
    /\ wsBuffer # <<>>
    /\ batch' = Append(batch, Head(wsBuffer))
    /\ wsBuffer' = Tail(wsBuffer)
    /\ pc' = IF Len(batch') > MaxBatchSize THEN "flush" ELSE "select"
    /\ UNCHANGED <<outsideWriter, leaving, sent, lastFlush, written, received>>

TakeRecord ==
    /\ pc = "select"
    /\ wsBuffer # <<>>
    /\ batch' = Append(batch, Head(wsBuffer))
    /\ wsBuffer' = Tail(wsBuffer)
    /\ pc' = IF Len(batch') >= MaxBatchSize THEN "flush" ELSE "select"
    /\ UNCHANGED <<outsideWriter, leaving, sent, lastFlush, written, received>>

AfterFlush == IF leaving THEN "exited" ELSE "select"

\* The copy of the batch and the reading of closed, both at the head of flushBatch.
FlushBegins ==
    /\ pc = "flush"
    /\ pc' = IF batch = <<>> \/ closed[Base] THEN AfterFlush ELSE "dial"
    /\ lastFlush' = IF batch # <<>> /\ closed[Base] THEN "refused" ELSE "sent"
    /\ UNCHANGED <<outsideWriter, wsBuffer, leaving, batch, sent, written, received>>

Connects ==
    /\ pc = "dial"
    /\ pc' = "write"
    /\ sent' = 0
    /\ UNCHANGED <<outsideWriter, wsBuffer, leaving, batch, lastFlush, written,
                   received>>

\* Mutant: the batch is dropped when the endpoint cannot be reached.
ConnectFailsDropping ==
    /\ pc = "dial"
    /\ pc' = AfterFlush
    /\ batch' = <<>>
    /\ lastFlush' = "failed"
    /\ UNCHANGED <<outsideWriter, wsBuffer, leaving, sent, written, received>>

ConnectFails ==
    /\ pc = "dial"
    /\ pc' = AfterFlush
    /\ lastFlush' = "failed"
    /\ UNCHANGED <<outsideWriter, wsBuffer, leaving, batch, sent, written, received>>

WriteSucceeds ==
    /\ pc = "write"
    /\ sent < Len(batch)
    /\ sent' = sent + 1
    /\ written' = Append(written, batch[sent + 1])
    /\ \/ "ok" \in WriteOutcomes /\ received' = Append(received, batch[sent + 1])
       \/ "lost" \in WriteOutcomes /\ received' = received
    /\ UNCHANGED <<outsideWriter, wsBuffer, pc, leaving, batch, lastFlush>>

WriteFails ==
    /\ pc = "write"
    /\ sent < Len(batch)
    /\ \/ "fail" \in WriteOutcomes /\ received' = received
       \/ /\ "failSeen" \in WriteOutcomes
          /\ Len(received) < MaxReceived
          /\ received' = Append(received, batch[sent + 1])
    /\ pc' = "back"
    /\ UNCHANGED <<outsideWriter, wsBuffer, leaving, batch, sent, lastFlush, written>>

AllWritten ==
    /\ pc = "write"
    /\ sent = Len(batch)
    /\ pc' = "back"
    /\ UNCHANGED <<outsideWriter, wsBuffer, leaving, batch, sent, lastFlush,
                   written, received>>

\* Mutants: the batch is cleared whatever was sent; its head is kept, not its tail.
WriteBackClears ==
    /\ pc = "back"
    /\ batch' = <<>>
    /\ lastFlush' = IF sent < Len(batch) THEN "failed" ELSE "sent"
    /\ sent' = 0
    /\ pc' = AfterFlush
    /\ UNCHANGED <<outsideWriter, wsBuffer, leaving, written, received>>
WriteBackKeepsHead ==
    /\ pc = "back"
    /\ batch' = SubSeq(batch, 1, Len(batch) - sent)
    /\ lastFlush' = IF sent < Len(batch) THEN "failed" ELSE "sent"
    /\ sent' = 0
    /\ pc' = AfterFlush
    /\ UNCHANGED <<outsideWriter, wsBuffer, leaving, written, received>>

WriteBack ==
    /\ pc = "back"
    /\ batch' = SubSeq(batch, sent + 1, Len(batch))
    /\ lastFlush' = IF sent < Len(batch) THEN "failed" ELSE "sent"
    /\ sent' = 0
    /\ pc' = AfterFlush
    /\ UNCHANGED <<outsideWriter, wsBuffer, leaving, written, received>>
-----------------------------------------------------------------------------
\* A panic ends every goroutine, so nothing happens after it.
Close == (\E h \in Closers : CloseMarks(h)) \/ CloseBuffer
Select == ContextDone \/ BufferDrained \/ Tick \/ TakeRecord
FlushBatch == \/ FlushBegins \/ Connects \/ ConnectFails \/ WriteSucceeds
              \/ WriteFails \/ AllWritten \/ WriteBack
Application ==
    \/ ConfigureWebSocket
    \/ \E h, d \in Handlers : WithAttrsOrGroup(h, d)
    \/ \E h \in Loggers, r \in Records : Handle(h, r)

Quiet == /\ pc = "exited" /\ pending = {} /\ once = "done" /\ ctxDone
         /\ handled = Records /\ made = Handlers

\* The process is gone, or has nothing left to do.
Stopped == (panicked \/ Quiet) /\ UNCHANGED vars

Next ==
    \/ /\ ~panicked
       /\ \/ Application
          \/ \E p \in pending : sendToWebSocket(p[1], p[2])
          \/ Close
          \/ CancelContext
          \/ Start
          \/ Select
          \/ FlushBatch
    \/ Stopped

Spec == Init /\ [][Next]_vars

\* The Go scheduler runs every goroutine that can run, and a select that is
\* reached again and again with a case ready takes that case now and then.
Running(A) == ~panicked /\ A
SchedulerFairness ==
    /\ \A h \in Handlers, r \in Records : WF_vars(Running(sendToWebSocket(h, r)))
    /\ WF_vars(Running(CloseBuffer))
    /\ SF_vars(Running(ContextDone))
    /\ SF_vars(Running(BufferDrained))
    /\ SF_vars(Running(Tick))
    /\ SF_vars(Running(TakeRecord))
    /\ WF_vars(Running(FlushBegins \/ AllWritten \/ WriteBack))

\* Every dial and every write returns, and an endpoint that is tried for ever
\* accepts now and then.  The code sets no write deadline: that writes return
\* is an assumption about the network, as is the rest of this formula.
NetworkFairness ==
    /\ WF_vars(Running(Connects \/ ConnectFails))
    /\ WF_vars(Running(WriteSucceeds \/ WriteFails))
    /\ SF_vars(Running(Connects))
    /\ SF_vars(Running(WriteSucceeds))
-----------------------------------------------------------------------------
TypeOK ==
    /\ made \subseteq Handlers
    /\ wsEnabled \in [Handlers -> BOOLEAN]
    /\ closed \in [Handlers -> BOOLEAN]
    /\ handled \subseteq Records
    /\ stderr \subseteq handled
    /\ pending \subseteq Handlers \X stderr
    /\ wsBuffer \in Seq(Records) /\ Len(wsBuffer) <= BufferSize
    /\ bufferClosed \in BOOLEAN
    /\ once \in {"unused", "marked", "done"}
    /\ closer \in Handlers
    /\ ctxDone \in BOOLEAN
    /\ pc \in {"off", "select", "flush", "dial", "write", "back", "exited"}
    /\ leaving \in BOOLEAN
    /\ batch \in Seq(Records)
    /\ sent \in 0 .. Len(batch)
    /\ lastFlush \in {"sent", "refused", "failed"}
    /\ accepted \in Seq(Records)
    /\ written \in Seq(Records)
    /\ received \in Seq(Records)
    /\ panicked \in BOOLEAN

InHand == SubSeq(batch, sent + 1, Len(batch))

\* Whatever fails, the records queued are exactly those written, then those
\* still in the batch, then those in the channel, in the order they were
\* queued: a failed dial, a write that stops half-way and the write-back that
\* cuts the batch neither lose nor repeat nor reorder one.
Conserved == accepted = written \o InHand \o wsBuffer

\* The writer waits on its channel with a full batch only after a flush that
\* could not send it: reaching maxBatchSize forces a flush, always.
FullBatchWasTried ==
    pc = "select" /\ Len(batch) >= MaxBatchSize => lastFlush # "sent"

\* A writer that left because the channel was closed, and whose final flush
\* sent what there was, has written every record that was ever queued.
ExitIsComplete ==
    pc = "exited" /\ ~ctxDone /\ lastFlush = "sent" => written = accepted

\* No goroutine sends on the channel that Close closed (README: "Thread-safe").
NoPanic == ~panicked

\* The writer's comments, "flush remaining messages before shutdown", and
\* main's, "ensures logs are properly flushed even during shutdown": a writer
\* that met no network failure leaves nothing behind.
ShutdownFlushes ==
    pc = "exited" /\ lastFlush # "failed" => batch = <<>> /\ wsBuffer = <<>>

\* The endpoint sees what LogRelay promises, whatever the batches do.
Relay == INSTANCE LogRelay WITH acked <- written
RelayImplemented == Relay!Spec

Contents(s) == {s[i] : i \in DOMAIN s}

\* A record that was queued is written in the end, however many dials and
\* writes fail first, unless the writer is told to stop by its context or the
\* final flush of a Close does not get through.
EventuallyWritten ==
    \A r \in Records :
        r \in Contents(accepted) ~>
            \/ r \in Contents(written)
            \/ ctxDone
            \/ pc = "exited" /\ lastFlush # "sent"

\* Close returns control to nobody who waits for the writer, but it does make
\* the writer drain the channel and leave.
CloseStopsWriter == once = "done" /\ pc # "off" ~> pc = "exited"
=============================================================================
