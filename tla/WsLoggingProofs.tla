-------------------------- MODULE WsLoggingProofs ---------------------------
(***************************************************************************)
(* What holds of WsLogging for every family of handlers, every set of      *)
(* records, all buffer and batch sizes and every network behaviour.        *)
(***************************************************************************)
EXTENDS WsLogging, SequenceTheorems, TLAPS

-----------------------------------------------------------------------------
(* Lemmas about the sequences that queued work moves between.              *)

\* Moving the head of the channel to the end of the batch keeps their concatenation.
LEMMA MoveHead ==
    ASSUME NEW S, NEW b \in Seq(S), NEW q \in Seq(S), q # <<>>
    PROVE  Append(b, Head(q)) \o Tail(q) = b \o q
<1>1. /\ Head(q) \in S /\ Tail(q) \in Seq(S) /\ Len(Tail(q)) = Len(q) - 1
      /\ \A i \in 1 .. Len(Tail(q)) : Tail(q)[i] = q[i + 1]
  BY HeadTailProperties
<1>2. Len(q) \in Nat \ {0} /\ Head(q) = q[1]
  BY EmptySeq
<1> DEFINE l == Append(b, Head(q)) \o Tail(q)
           r == b \o q
<1>3. /\ Append(b, Head(q)) \in Seq(S)
      /\ Len(Append(b, Head(q))) = Len(b) + 1
      /\ \A i \in 1 .. Len(b) : Append(b, Head(q))[i] = b[i]
      /\ Append(b, Head(q))[Len(b) + 1] = Head(q)
  BY <1>1, AppendProperties
<1>4. /\ l \in Seq(S)
      /\ Len(l) = Len(b) + 1 + Len(Tail(q))
      /\ \A i \in 1 .. Len(b) + 1 + Len(Tail(q)) :
            l[i] = IF i <= Len(b) + 1 THEN Append(b, Head(q))[i]
                                      ELSE Tail(q)[i - (Len(b) + 1)]
  BY <1>1, <1>3, ConcatProperties
<1>5. /\ r \in Seq(S)
      /\ Len(r) = Len(b) + Len(q)
      /\ \A i \in 1 .. Len(b) + Len(q) :
            r[i] = IF i <= Len(b) THEN b[i] ELSE q[i - Len(b)]
  BY ConcatProperties
<1> HIDE DEF l, r
<1>6. Len(b) \in Nat
  BY LenProperties
<1>7. Len(l) = Len(r)
  BY <1>1, <1>2, <1>4, <1>5, <1>6
<1>8. ASSUME NEW i \in 1 .. Len(l) PROVE l[i] = r[i]
  <2>1. CASE i <= Len(b)
    BY <1>1, <1>2, <1>3, <1>4, <1>5, <1>6, <2>1
  <2>2. CASE i = Len(b) + 1
    BY <1>1, <1>2, <1>3, <1>4, <1>5, <1>6, <2>2
  <2>3. CASE i > Len(b) + 1
    <3>1. i - (Len(b) + 1) \in 1 .. Len(Tail(q))
      BY <1>1, <1>2, <1>4, <1>6, <2>3
    <3>2. Tail(q)[i - (Len(b) + 1)] = q[i - Len(b)]
      BY <1>1, <3>1, <1>6
    <3> QED BY <1>1, <1>2, <1>4, <1>5, <1>6, <2>3, <3>2
  <2>4. i \in Int
    OBVIOUS
  <2> QED BY <2>1, <2>2, <2>3, <2>4, <1>6
<1>9. l = r
  BY <1>4, <1>5, <1>7, <1>8, SeqEqual
<1> QED BY <1>9 DEF l, r

\* Writing one more record of a batch moves it from what is left to what is written.
LEMMA MoveNext ==
    ASSUME NEW S, NEW w \in Seq(S), NEW b \in Seq(S), NEW n \in 0 .. Len(b) - 1
    PROVE  /\ Append(w, b[n + 1]) \o SubSeq(b, n + 2, Len(b))
                = w \o SubSeq(b, n + 1, Len(b))
           /\ (w \o SubSeq(b, n + 1, Len(b)))[Len(w) + 1] = b[n + 1]
<1>1. Len(b) \in Nat /\ n + 1 \in 1 .. Len(b) /\ Len(w) \in Nat
  BY LenProperties
<1> DEFINE rest == SubSeq(b, n + 1, Len(b))
<1>2. /\ rest \in Seq(S)
      /\ Len(rest) = Len(b) - n
      /\ rest[1] = b[n + 1]
  <2>1. \A i \in n + 1 .. Len(b) : b[i] \in S
    BY <1>1, ElementOfSeq
  <2> QED BY <1>1, <2>1, SubSeqProperties
<1>3. rest # <<>>
  <2>1. Len(rest) # 0
    <3>1. Len(b) - n # 0 /\ n \in Int
      BY <1>1
    <3> HIDE DEF rest
    <3> QED BY <1>2, <3>1
  <2> HIDE DEF rest
  <2> QED BY <2>1, EmptySeq
<1>4. Head(rest) = b[n + 1] /\ Tail(rest) = SubSeq(b, n + 2, Len(b))
  <2>1. Len(b) \in n + 1 .. Len(b) /\ n + 1 + 1 = n + 2
    BY <1>1
  <2> QED BY <1>1, <2>1, HeadTailOfSubSeq
<1>5. Append(w, Head(rest)) \o Tail(rest) = w \o rest
  BY <1>2, <1>3, MoveHead
<1>6. (w \o rest)[Len(w) + 1] = rest[1]
  <2>1. Len(rest) >= 1
    BY <1>1, <1>2
  <2> HIDE DEF rest
  <2>2. \A i \in 1 .. Len(w) + Len(rest) :
          (w \o rest)[i] = IF i <= Len(w) THEN w[i] ELSE rest[i - Len(w)]
    BY <1>2, ConcatProperties
  <2>3. Len(w) + 1 \in 1 .. Len(w) + Len(rest) /\ Len(w) + 1 - Len(w) = 1
    BY <1>1, <1>2, <2>1
  <2> QED BY <1>1, <2>2, <2>3
<1> QED BY <1>2, <1>4, <1>5, <1>6

\* What is left of a sequence after its first n elements is a sequence.
LEMMA RestOfSeq ==
    ASSUME NEW S, NEW b \in Seq(S), NEW n \in 0 .. Len(b)
    PROVE  /\ SubSeq(b, n + 1, Len(b)) \in Seq(S)
           /\ Len(SubSeq(b, n + 1, Len(b))) = Len(b) - n
<1>1. Len(b) \in Nat /\ n \in Int /\ n + 1 \in Int
  BY LenProperties
<1>2. \A i \in n + 1 .. Len(b) : b[i] \in S
  BY <1>1, ElementOfSeq
<1>3. /\ SubSeq(b, n + 1, Len(b)) \in Seq(S)
      /\ Len(SubSeq(b, n + 1, Len(b)))
            = IF n + 1 <= Len(b) THEN Len(b) - (n + 1) + 1 ELSE 0
  BY <1>1, <1>2, SubSeqProperties
<1> QED BY <1>1, <1>3

-----------------------------------------------------------------------------
(* Type correctness.                                                       *)

\* The handlers, the channel and the writer keep to their types; the channel
\* never holds more than bufferSize records, and no more of a batch is counted
\* as sent than the batch holds.
THEOREM TypeCorrect == Spec => []TypeOK
<1>1. Init => TypeOK
  <2> SUFFICES ASSUME Init PROVE TypeOK
    OBVIOUS
  <2>1. <<>> \in Seq(Records) /\ Len(<<>>) = 0
    BY EmptySeq
  <2>2. /\ wsBuffer \in Seq(Records) /\ Len(wsBuffer) <= BufferSize
        /\ batch \in Seq(Records) /\ sent \in 0 .. Len(batch)
        /\ accepted \in Seq(Records)
        /\ written \in Seq(Records)
        /\ received \in Seq(Records)
    BY <2>1, SizeAssumption DEF Init
  <2> QED BY <2>2, FamilyAssumption DEF Init, TypeOK
<1>2. TypeOK /\ [Next]_vars => TypeOK'
  <2> SUFFICES ASSUME TypeOK, [Next]_vars PROVE TypeOK'
    OBVIOUS
  <2> USE FamilyAssumption, SizeAssumption DEF TypeOK, family, sending, closing,
                                              writer, history, outsideWriter
  <2>1. CASE ConfigureWebSocket
    BY <2>1 DEF ConfigureWebSocket
  <2>2. ASSUME NEW h \in Handlers, NEW d \in Handlers, WithAttrsOrGroup(h, d)
        PROVE TypeOK'
    BY <2>2 DEF WithAttrsOrGroup
  <2>3. ASSUME NEW h \in Loggers, NEW r \in Records, Handle(h, r)
        PROVE TypeOK'
    BY <2>3 DEF Handle
  <2>4. ASSUME NEW p \in pending, sendToWebSocket(p[1], p[2])
        PROVE TypeOK'
    <3>1. p[2] \in Records /\ pending' \subseteq Handlers \X stderr
      BY <2>4 DEF sendToWebSocket
    <3>2. CASE wsBuffer' = wsBuffer /\ accepted' = accepted /\ panicked' \in BOOLEAN
      BY <2>4, <3>1, <3>2 DEF sendToWebSocket
    <3>3. CASE SendQueues(p[1], p[2])
      BY <2>4, <3>1, <3>3 DEF sendToWebSocket, SendQueues
    <3> QED
      BY <2>4, <3>2, <3>3 DEF sendToWebSocket, SendNotMarshalled, SendDropsClosed,
                           SendPanics, SendDropsFull
  <2>5. ASSUME NEW h \in Closers, CloseMarks(h) PROVE TypeOK'
    BY <2>5 DEF CloseMarks
  <2>6. CASE CloseBuffer
    BY <2>6 DEF CloseBuffer
  <2>7. CASE CancelContext
    BY <2>7 DEF CancelContext
  <2>8. CASE Start
    BY <2>8 DEF Start
  <2>9. CASE ContextDone \/ BufferDrained \/ Tick
    BY <2>9 DEF ContextDone, BufferDrained, Tick, CallsFlush
  <2>10. CASE TakeRecord
    <3>1. Head(wsBuffer) \in Records /\ Tail(wsBuffer) \in Seq(Records)
          /\ Len(Tail(wsBuffer)) = Len(wsBuffer) - 1
      BY <2>10, HeadTailProperties DEF TakeRecord
    <3> QED BY <2>10, <3>1 DEF TakeRecord
  <2>11. CASE FlushBegins \/ Connects \/ ConnectFails \/ AllWritten
    BY <2>11 DEF FlushBegins, Connects, ConnectFails, AllWritten, AfterFlush
  <2>12. CASE WriteSucceeds
    <3>1. sent + 1 \in 0 .. Len(batch) /\ batch[sent + 1] \in Records
      BY <2>12 DEF WriteSucceeds
    <3>2. /\ Append(written, batch[sent + 1]) \in Seq(Records)
          /\ Append(received, batch[sent + 1]) \in Seq(Records)
      BY <3>1, AppendProperties
    <3> QED BY <2>12, <3>1, <3>2 DEF WriteSucceeds
  <2>13. CASE WriteFails
    <3>1. batch[sent + 1] \in Records
      BY <2>13 DEF WriteFails
    <3>2. Append(received, batch[sent + 1]) \in Seq(Records)
      BY <3>1, AppendProperties
    <3> QED BY <2>13, <3>1, <3>2 DEF WriteFails
  <2>14. CASE WriteBack
    BY <2>14 DEF WriteBack, AfterFlush
  <2>15. CASE UNCHANGED vars
    BY <2>15 DEF vars
  <2> QED
    BY <2>1, <2>2, <2>3, <2>4, <2>5, <2>6, <2>7, <2>8, <2>9, <2>10, <2>11,
       <2>12, <2>13, <2>14, <2>15
       DEF Next, Application, Close, Select, FlushBatch, Stopped
<1> QED BY <1>1, <1>2, PTL DEF Spec

-----------------------------------------------------------------------------
(* The records queued are those written, in hand and in the channel.       *)

\* sentCount only means something between the connection and the write-back.
SentOnlyWhileWriting == pc \notin {"write", "back"} => sent = 0

ConservedInv == SentOnlyWhileWriting /\ Conserved

untouched == <<accepted, written, batch, wsBuffer, sent>>

LEMMA ConservedStep ==
    TypeOK /\ ConservedInv /\ [Next]_vars => ConservedInv'
<1> SUFFICES ASSUME TypeOK, ConservedInv, [Next]_vars PROVE ConservedInv'
  OBVIOUS
<1> USE DEF family, sending, closing, writer, history, outsideWriter
<1>0. /\ written \in Seq(Records) /\ batch \in Seq(Records)
      /\ wsBuffer \in Seq(Records) /\ accepted \in Seq(Records)
      /\ sent \in 0 .. Len(batch)
      /\ InHand \in Seq(Records)
      /\ Len(InHand) = Len(batch) - sent
      /\ Len(batch) \in Nat
  BY RestOfSeq, LenProperties DEF TypeOK, InHand
<1>a. /\ written \in Seq(Records) /\ batch \in Seq(Records)
      /\ wsBuffer \in Seq(Records) /\ InHand \in Seq(Records)
  BY <1>0
<1>1. ASSUME UNCHANGED untouched, SentOnlyWhileWriting' PROVE ConservedInv'
  BY <1>1 DEF ConservedInv, Conserved, InHand, untouched
<1>2. CASE Application \/ Close \/ CancelContext \/ UNCHANGED vars
  <2>1. UNCHANGED untouched /\ pc' = pc
    BY <1>2 DEF Application, ConfigureWebSocket, WithAttrsOrGroup, Handle, Close,
                CloseMarks, CloseBuffer, CancelContext, vars, untouched
  <2> QED BY <1>1, <2>1 DEF ConservedInv, SentOnlyWhileWriting, untouched
<1>3. ASSUME NEW p \in pending, sendToWebSocket(p[1], p[2])
      PROVE ConservedInv'
  <2>1. p[2] \in Records /\ UNCHANGED <<pc, sent, batch, written>>
    BY <1>3 DEF TypeOK, sendToWebSocket
  <2>2. CASE UNCHANGED <<wsBuffer, accepted>>
    BY <1>1, <2>1, <2>2 DEF ConservedInv, SentOnlyWhileWriting, untouched
  <2>3. CASE SendQueues(p[1], p[2])
    <3>1. wsBuffer' = Append(wsBuffer, p[2]) /\ accepted' = Append(accepted, p[2])
      BY <2>3 DEF SendQueues
    <3>2. written \o InHand \in Seq(Records)
      BY <1>0, ConcatProperties
    <3>3. accepted' = (written \o InHand) \o wsBuffer'
      <4> DEFINE front == written \o InHand
                 r == p[2]
      <4>1. accepted = front \o wsBuffer
        BY DEF ConservedInv, Conserved
      <4>2. front \in Seq(Records) /\ r \in Records /\ wsBuffer \in Seq(Records)
        BY <1>a, <2>1, <3>2
      <4> HIDE DEF front, r
      <4>3. Append(front \o wsBuffer, r) = front \o Append(wsBuffer, r)
        BY ONLY <4>2, SMT
      <4>4. accepted' = front \o wsBuffer'
        BY <3>1, <4>1, <4>3 DEF r
      <4> QED BY <4>4 DEF front
    <3> QED
      BY <2>1, <3>3 DEF ConservedInv, Conserved, InHand, SentOnlyWhileWriting
  <2> QED
    BY <1>3, <2>2, <2>3 DEF sendToWebSocket, SendNotMarshalled, SendDropsClosed,
                           SendPanics, SendDropsFull
<1>4. CASE \/ Start \/ ContextDone \/ BufferDrained \/ Tick \/ FlushBegins
           \/ Connects \/ ConnectFails \/ WriteFails \/ AllWritten
  <2>1. UNCHANGED <<accepted, written, batch, wsBuffer>>
    BY <1>4 DEF Start, ContextDone, BufferDrained, Tick, CallsFlush, FlushBegins,
                Connects, ConnectFails, WriteFails, AllWritten
  <2>2. UNCHANGED sent /\ SentOnlyWhileWriting'
    BY <1>4 DEF Start, ContextDone, BufferDrained, Tick, CallsFlush, FlushBegins,
                Connects, ConnectFails, WriteFails, AllWritten, AfterFlush,
                ConservedInv, SentOnlyWhileWriting
  <2> QED BY <1>1, <2>1, <2>2 DEF untouched
<1>5. CASE TakeRecord
  <2>1. /\ sent = 0 /\ sent' = 0 /\ wsBuffer # <<>>
        /\ batch' = Append(batch, Head(wsBuffer)) /\ wsBuffer' = Tail(wsBuffer)
        /\ accepted' = accepted /\ written' = written
    BY <1>5 DEF TakeRecord, ConservedInv, SentOnlyWhileWriting
  <2>2. batch' \in Seq(Records) /\ wsBuffer' \in Seq(Records)
    BY <1>0, <2>1, HeadTailProperties, AppendProperties
  <2>3. InHand = batch /\ InHand' = batch'
    BY <1>0, <2>1, <2>2, SubSeqFull DEF InHand
  <2>4. batch' \o wsBuffer' = batch \o wsBuffer
    BY <1>0, <2>1, MoveHead
  <2>5. (written \o batch) \o wsBuffer = written \o (batch \o wsBuffer)
    BY ONLY <1>a, ConcatAssociative
  <2>6. (written \o batch') \o wsBuffer' = written \o (batch' \o wsBuffer')
    <3> DEFINE b == batch'
               w == wsBuffer'
    <3>1. written \in Seq(Records) /\ b \in Seq(Records) /\ w \in Seq(Records)
      BY <1>a, <2>2
    <3> HIDE DEF b, w
    <3>2. (written \o b) \o w = written \o (b \o w)
      BY ONLY <3>1, ConcatAssociative
    <3> QED BY <3>2 DEF b, w
  <2> QED
    BY <2>1, <2>3, <2>4, <2>5, <2>6 DEF ConservedInv, Conserved, SentOnlyWhileWriting
<1>6. CASE WriteSucceeds
  <2>1. /\ sent \in 0 .. Len(batch) - 1 /\ sent' = sent + 1 /\ pc = "write"
        /\ written' = Append(written, batch[sent + 1])
        /\ UNCHANGED <<pc, batch, wsBuffer, accepted>>
    BY <1>0, <1>6 DEF WriteSucceeds
  <2>2. InHand' = SubSeq(batch, sent + 2, Len(batch))
    BY <1>0, <2>1 DEF InHand
  <2>3. written' \o InHand' = written \o InHand
    BY <1>0, <2>1, <2>2, MoveNext DEF InHand
  <2> QED BY <2>1, <2>3 DEF ConservedInv, Conserved, SentOnlyWhileWriting
<1>7. CASE WriteBack
  <2>1. /\ batch' = InHand /\ sent' = 0 /\ UNCHANGED <<accepted, written, wsBuffer>>
    BY <1>7 DEF WriteBack, InHand
  <2>2. InHand' = InHand
    BY <1>0, <2>1, SubSeqFull DEF InHand
  <2> QED BY <2>1, <2>2 DEF ConservedInv, Conserved, SentOnlyWhileWriting
<1> QED
  BY <1>2, <1>3, <1>4, <1>5, <1>6, <1>7 DEF Next, Select, FlushBatch, Stopped

LEMMA ConservedInvAlways == Spec => []ConservedInv
<1>1. Init => ConservedInv
  <2> SUFFICES ASSUME Init PROVE ConservedInv
    OBVIOUS
  <2>1. <<>> \in Seq(Records) /\ Len(<<>>) = 0
    BY EmptySeq
  <2>2. SubSeq(<<>>, 1, 0) = <<>>
    BY SubSeqEmpty
  <2>3. <<>> \o <<>> \o <<>> = <<>>
    BY <2>1, ConcatEmptySeq
  <2> QED
    BY <2>1, <2>2, <2>3
       DEF Init, ConservedInv, Conserved, InHand, SentOnlyWhileWriting
<1>2. TypeOK /\ ConservedInv /\ [Next]_vars => ConservedInv'
  BY ConservedStep
<1> QED BY <1>1, <1>2, TypeCorrect, PTL DEF Spec

\* No record is lost, repeated or reordered between the channel and the
\* connection, whatever dials and writes fail.
THEOREM ConservedAlways == Spec => []Conserved
<1>1. ConservedInv => Conserved
  BY DEF ConservedInv
<1> QED BY <1>1, ConservedInvAlways, PTL

-----------------------------------------------------------------------------
(* How the writer leaves.                                                  *)

\* The writer leaves for one of two reasons; if not its context, then the
\* channel was closed and drained, and stays so because nothing is sent to a
\* closed channel.
LeavingInv ==
    /\ pc = "off" => batch = <<>>
    /\ pc = "exited" => leaving
    /\ leaving => pc \in {"flush", "dial", "write", "back", "exited"}
    /\ bufferClosed => once = "done"
    /\ leaving /\ ~ctxDone => bufferClosed /\ wsBuffer = <<>>
    /\ pc = "exited" /\ lastFlush = "sent" => batch = <<>>
    /\ FullBatchWasTried

LEMMA LeavingStep ==
    TypeOK /\ LeavingInv /\ [Next]_vars => LeavingInv'
<1> SUFFICES ASSUME TypeOK, LeavingInv, [Next]_vars PROVE LeavingInv'
  OBVIOUS
<1> USE SizeAssumption
        DEF family, sending, closing, writer, history, outsideWriter,
            LeavingInv, FullBatchWasTried
<1>0. batch \in Seq(Records) /\ Len(batch) \in Nat /\ sent \in 0 .. Len(batch)
  BY LenProperties DEF TypeOK
<1>1. CASE \/ Application \/ (\E h \in Closers : CloseMarks(h))
           \/ UNCHANGED vars
  BY <1>1 DEF Application, ConfigureWebSocket, WithAttrsOrGroup, Handle,
              CloseMarks, vars
<1>2. CASE CloseBuffer \/ CancelContext
  BY <1>2 DEF CloseBuffer, CancelContext
<1>3. ASSUME NEW p \in pending, sendToWebSocket(p[1], p[2])
      PROVE LeavingInv'
  BY <1>3 DEF sendToWebSocket, SendQueues, SendNotMarshalled, SendDropsClosed, SendPanics, SendDropsFull
<1>4a. CASE Start
  <2>1. batch = <<>> /\ Len(<<>>) = 0
    BY <1>4a, EmptySeq DEF Start
  <2> QED BY <1>4a, <2>1 DEF Start
<1>4. CASE ContextDone \/ BufferDrained \/ Tick
  BY <1>4 DEF ContextDone, BufferDrained, Tick, CallsFlush
<1>5. CASE TakeRecord
  <2>1. Head(wsBuffer) \in Records
    BY <1>5, HeadTailProperties DEF TakeRecord, TypeOK
  <2>2. Len(batch') \in Nat
    BY <1>0, <1>5, <2>1, AppendProperties DEF TakeRecord
  <2>3. ~leaving' /\ (pc' = "select" => ~(Len(batch') >= MaxBatchSize))
        /\ pc' \in {"select", "flush"} /\ UNCHANGED <<bufferClosed, once>>
    BY <1>5 DEF TakeRecord
  <2> QED BY <2>2, <2>3
<1>6. CASE FlushBegins
  <2>1. Len(<<>>) = 0
    BY EmptySeq
  <2> QED BY <1>0, <1>6, <2>1 DEF FlushBegins, AfterFlush
<1>7. CASE Connects \/ ConnectFails \/ WriteSucceeds \/ WriteFails \/ AllWritten
  BY <1>7 DEF Connects, ConnectFails, WriteSucceeds, WriteFails, AllWritten, AfterFlush
<1>8. CASE WriteBack
  <2>1. CASE sent < Len(batch)
    BY <1>8, <2>1 DEF WriteBack, AfterFlush
  <2>2. CASE ~(sent < Len(batch))
    <3>1. SubSeq(batch, sent + 1, Len(batch)) = <<>> /\ Len(<<>>) = 0
      BY <1>0, <2>2, SubSeqEmpty, EmptySeq
    <3>2. batch' = <<>> /\ ~(Len(batch') >= MaxBatchSize)
      <4>1. batch' = <<>>
        BY <1>8, <3>1 DEF WriteBack
      <4>2. Len(batch') = 0
        BY <3>1, <4>1
      <4> QED BY ONLY <4>1, <4>2, SizeAssumption
    <3>3. UNCHANGED <<leaving, bufferClosed, once, ctxDone, wsBuffer>>
          /\ pc = "back" /\ pc' = AfterFlush
      BY <1>8 DEF WriteBack
    <3> QED BY <3>2, <3>3 DEF AfterFlush
  <2> QED BY <2>1, <2>2
<1> QED
  BY <1>1, <1>2, <1>3, <1>4, <1>4a, <1>5, <1>6, <1>7, <1>8
     DEF Next, Close, Select, FlushBatch, Stopped

THEOREM LeavingAlways == Spec => []LeavingInv
<1>1. Init => LeavingInv
  <2>1. Len(<<>>) = 0
    BY EmptySeq
  <2> QED BY <2>1, SizeAssumption DEF Init, LeavingInv, FullBatchWasTried
<1>2. TypeOK /\ LeavingInv /\ [Next]_vars => LeavingInv'
  BY LeavingStep
<1> QED BY <1>1, <1>2, TypeCorrect, PTL DEF Spec

\* The writer never waits on its channel with a batch of maxBatchSize records
\* or more unless a flush of it just failed or was refused.
THEOREM FullBatchAlwaysTried == Spec => []FullBatchWasTried
<1>1. LeavingInv => FullBatchWasTried
  BY DEF LeavingInv
<1> QED BY <1>1, LeavingAlways, PTL

\* A writer that left because the channel was closed, after a last flush that
\* sent what there was, has written every record ever queued.
THEOREM ExitAlwaysComplete == Spec => []ExitIsComplete
<1>1. TypeOK /\ ConservedInv /\ LeavingInv => ExitIsComplete
  <2> SUFFICES ASSUME TypeOK, ConservedInv, LeavingInv,
                      pc = "exited", ~ctxDone, lastFlush = "sent"
               PROVE  written = accepted
    BY DEF ExitIsComplete
  <2>1. batch = <<>> /\ wsBuffer = <<>> /\ sent = 0
    BY DEF LeavingInv, ConservedInv, SentOnlyWhileWriting
  <2>2. InHand = <<>>
    BY <2>1, SubSeqEmpty, EmptySeq DEF InHand
  <2>3. written \in Seq(Records)
    BY DEF TypeOK
  <2>4. written \o <<>> = written
    BY <2>3, ConcatEmptySeq
  <2>5. accepted = (written \o <<>>) \o <<>>
    BY <2>1, <2>2 DEF ConservedInv, Conserved
  <2> QED BY <2>4, <2>5
<1> QED
  BY <1>1, TypeCorrect, ConservedInvAlways, LeavingAlways, PTL

-----------------------------------------------------------------------------
(* WsLogging implements LogRelay.                                          *)

\* Every record has at most one sender, which is gone once it was queued.
OnePerRecord ==
    /\ \A p, q \in pending : p[2] = q[2] => p = q
    /\ \A i \in DOMAIN accepted :
          accepted[i] \in handled /\ \A p \in pending : p[2] # accepted[i]

LEMMA OnePerRecordStep ==
    TypeOK /\ OnePerRecord /\ [Next]_vars => OnePerRecord'
<1> SUFFICES ASSUME TypeOK, OnePerRecord, [Next]_vars PROVE OnePerRecord'
  OBVIOUS
<1> USE DEF family, sending, closing, writer, history, outsideWriter
<1>0. \A p \in pending : p \in Handlers \X stderr /\ p[2] \in handled /\ p[2] \in Records
  BY DEF TypeOK
<1>1. ASSUME UNCHANGED <<pending, handled, accepted>> PROVE OnePerRecord'
  BY <1>1 DEF OnePerRecord
<1>2. ASSUME NEW h \in Loggers, NEW r \in Records, Handle(h, r)
      PROVE OnePerRecord'
  <2>1. /\ r \notin handled /\ handled' = handled \cup {r} /\ accepted' = accepted
        /\ pending' = pending \/ pending' = pending \cup {<<h, r>>}
    BY <1>2 DEF Handle
  <2> QED BY <1>0, <2>1 DEF OnePerRecord
<1>3. ASSUME NEW p \in pending, sendToWebSocket(p[1], p[2])
      PROVE OnePerRecord'
  <2>1. /\ p = <<p[1], p[2]>> /\ p[2] \in Records /\ p[2] \in handled
        /\ handled' = handled
        /\ pending' = pending \ {p}
    BY <1>0, <1>3 DEF sendToWebSocket
  <2>2. CASE UNCHANGED accepted
    BY <2>1, <2>2 DEF OnePerRecord
  <2>3. CASE SendQueues(p[1], p[2])
    <3>1. accepted' = Append(accepted, p[2]) /\ accepted \in Seq(Records)
      BY <2>3 DEF SendQueues, TypeOK
    <3>2. \A i \in DOMAIN accepted' :
            \/ i \in DOMAIN accepted /\ accepted'[i] = accepted[i]
            \/ accepted'[i] = p[2]
      BY <2>1, <3>1
    <3> QED BY <2>1, <3>2 DEF OnePerRecord
  <2> QED
    BY <1>3, <2>2, <2>3 DEF sendToWebSocket, SendNotMarshalled, SendDropsClosed,
                           SendPanics, SendDropsFull
<1>4. CASE \/ ConfigureWebSocket \/ (\E h, d \in Handlers : WithAttrsOrGroup(h, d))
           \/ Close \/ CancelContext \/ Start \/ Select \/ UNCHANGED vars
  BY <1>1, <1>4 DEF ConfigureWebSocket, WithAttrsOrGroup, Close, CloseMarks,
        CloseBuffer, CancelContext, Start, Select, ContextDone, BufferDrained,
        Tick, CallsFlush, TakeRecord, vars
<1>5. CASE FlushBatch
  BY <1>1, <1>5 DEF FlushBatch, FlushBegins, Connects, ConnectFails,
        WriteSucceeds, WriteFails, AllWritten, WriteBack
<1> QED BY <1>2, <1>3, <1>4, <1>5 DEF Next, Application, Stopped

\* A step of the handler family is a step of the relay or changes nothing it shows.
LEMMA RelayStep ==
    TypeOK /\ ConservedInv /\ OnePerRecord /\ [Next]_vars
        => [Relay!Next]_(Relay!relayVars)
<1> SUFFICES ASSUME TypeOK, ConservedInv, OnePerRecord, [Next]_vars
             PROVE  Relay!Next \/ UNCHANGED Relay!relayVars
  OBVIOUS
<1> USE DEF family, sending, closing, writer, history, outsideWriter
<1>1. CASE \/ Application \/ Close \/ CancelContext \/ Start \/ Select
           \/ FlushBegins \/ Connects \/ ConnectFails \/ AllWritten
           \/ WriteBack \/ UNCHANGED vars
  BY <1>1 DEF Application, ConfigureWebSocket, WithAttrsOrGroup, Handle, Close,
        CloseMarks, CloseBuffer, CancelContext, Start, Select, ContextDone,
        BufferDrained, Tick, CallsFlush, TakeRecord, FlushBegins, Connects,
        ConnectFails, AllWritten, WriteBack, vars, Relay!relayVars
<1>2. ASSUME NEW p \in pending, sendToWebSocket(p[1], p[2])
      PROVE Relay!Next \/ UNCHANGED Relay!relayVars
  <2>1. CASE SendQueues(p[1], p[2])
    <3>1. /\ accepted' = Append(accepted, p[2])
          /\ UNCHANGED <<written, received>> /\ p[2] \in Records
      BY <1>2, <2>1 DEF SendQueues, sendToWebSocket, TypeOK
    <3>2. \A i \in DOMAIN accepted : accepted[i] # p[2]
      BY DEF OnePerRecord
    <3>3. Relay!Accept(p[2])
      BY <3>1, <3>2 DEF Relay!Accept
    <3> QED BY <3>1, <3>3 DEF Relay!Next
  <2> QED
    BY <1>2, <2>1 DEF sendToWebSocket, SendNotMarshalled, SendDropsClosed,
                           SendPanics, SendDropsFull,
                      Relay!relayVars
<1>3. ASSUME pc = "write", sent < Len(batch)
      PROVE  Relay!Waiting /\ Relay!NextInLine = batch[sent + 1]
  <2>1. /\ written \in Seq(Records) /\ batch \in Seq(Records)
        /\ wsBuffer \in Seq(Records)
        /\ Len(batch) \in Nat /\ sent \in 0 .. Len(batch) - 1
    BY <1>3, LenProperties DEF TypeOK
  <2>2. /\ InHand \in Seq(Records) /\ Len(InHand) = Len(batch) - sent
        /\ (written \o InHand)[Len(written) + 1] = batch[sent + 1]
    BY <2>1, RestOfSeq, MoveNext DEF InHand
  <2> DEFINE front == written \o InHand
  <2>3. /\ front \in Seq(Records)
        /\ Len(front) = Len(written) + Len(InHand)
    BY <2>1, <2>2, ConcatProperties
  <2>4. accepted = front \o wsBuffer
    BY DEF ConservedInv, Conserved
  <2>5. /\ Len(written) \in Nat /\ Len(wsBuffer) \in Nat
        /\ Len(written) + 1 \in 1 .. Len(front)
    BY <2>1, <2>2, <2>3, LenProperties
  <2>6. front[Len(written) + 1] = batch[sent + 1]
    BY <2>2
  <2> HIDE DEF front
  <2>7. /\ Len(accepted) = Len(front) + Len(wsBuffer)
        /\ accepted[Len(written) + 1] = front[Len(written) + 1]
    <3> DEFINE k == Len(written) + 1
    <3>1. /\ Len(front \o wsBuffer) = Len(front) + Len(wsBuffer)
          /\ \A i \in 1 .. Len(front) + Len(wsBuffer) :
                (front \o wsBuffer)[i]
                    = IF i <= Len(front) THEN front[i] ELSE wsBuffer[i - Len(front)]
      <4>1. front \in Seq(Records) /\ wsBuffer \in Seq(Records)
        BY <2>1, <2>3
      <4> QED BY ONLY <4>1, ConcatProperties
    <3>2. k \in 1 .. Len(front) + Len(wsBuffer) /\ k <= Len(front)
      BY <2>3, <2>5, LenProperties
    <3> HIDE DEF k
    <3>3. (front \o wsBuffer)[k] = front[k]
      BY <3>1, <3>2
    <3> QED BY <2>4, <3>1, <3>3 DEF k
  <2> QED BY <2>3, <2>5, <2>6, <2>7 DEF Relay!Waiting, Relay!NextInLine
<1>4. CASE WriteSucceeds
  BY <1>3, <1>4 DEF WriteSucceeds, Relay!Next, Relay!Acknowledge
<1>5. CASE WriteFails
  BY <1>3, <1>5 DEF WriteFails, Relay!Next, Relay!DeliverUnacknowledged,
                    Relay!relayVars
<1> QED BY <1>1, <1>2, <1>4, <1>5 DEF Next, FlushBatch, Stopped

\* The endpoint sees accepted records only, each when it is next in line, and
\* acknowledgements follow the order of acceptance.
THEOREM Refinement == Spec => RelayImplemented
<1>1. Init => Relay!Init /\ OnePerRecord
  BY DEF Init, Relay!Init, OnePerRecord
<1>2. TypeOK /\ OnePerRecord /\ [Next]_vars => OnePerRecord'
  BY OnePerRecordStep
<1>3. TypeOK /\ ConservedInv /\ OnePerRecord /\ [Next]_vars
        => [Relay!Next]_(Relay!relayVars)
  BY RelayStep
<1> QED
  BY <1>1, <1>2, <1>3, TypeCorrect, ConservedInvAlways, PTL
     DEF Spec, RelayImplemented, Relay!Spec

-----------------------------------------------------------------------------
(* When Close is safe.                                                     *)

\* The handler that is closed is also the only one the application logs through.
OneHandlerInUse == \A h \in Loggers, c \in Closers : h = c

\* The channel is only closed once the closing handler refuses records, and
\* whoever still sends does it through that handler.
ClosingInv ==
    /\ \A p \in pending : p[1] \in Loggers
    /\ bufferClosed => once = "done"
    /\ once # "unused" => closer \in Closers /\ closer \in made /\ closed[closer]
    /\ ~panicked

LEMMA ClosingStep ==
    ASSUME OneHandlerInUse
    PROVE  TypeOK /\ ClosingInv /\ [Next]_vars => ClosingInv'
<1> SUFFICES ASSUME TypeOK, ClosingInv, [Next]_vars PROVE ClosingInv'
  OBVIOUS
<1> USE FamilyAssumption
        DEF family, sending, closing, writer, history, outsideWriter, ClosingInv
<1>1. CASE ConfigureWebSocket
  BY <1>1 DEF ConfigureWebSocket
<1>2. ASSUME NEW h \in Handlers, NEW d \in Handlers, WithAttrsOrGroup(h, d)
      PROVE ClosingInv'
  BY <1>2 DEF WithAttrsOrGroup, TypeOK
<1>3. ASSUME NEW h \in Loggers, NEW r \in Records, Handle(h, r)
      PROVE ClosingInv'
  BY <1>3 DEF Handle
<1>4. ASSUME NEW p \in pending, sendToWebSocket(p[1], p[2])
      PROVE ClosingInv'
  <2>1. ~SendPanics(p[1], p[2])
    <3>1. SUFFICES ASSUME SendPanics(p[1], p[2]) PROVE FALSE
      OBVIOUS
    <3>2. once = "done" /\ ~closed[p[1]]
      BY <3>1 DEF SendPanics
    <3>3. p[1] = closer /\ closed[closer]
      BY <3>2 DEF OneHandlerInUse
    <3> QED BY <3>2, <3>3
  <2> QED
    BY <1>4, <2>1 DEF sendToWebSocket, SendQueues, SendNotMarshalled, SendDropsClosed, SendDropsFull
<1>5. ASSUME NEW h \in Closers, CloseMarks(h) PROVE ClosingInv'
  BY <1>5 DEF CloseMarks, TypeOK
<1>6. CASE CloseBuffer
  BY <1>6 DEF CloseBuffer
<1>7. CASE CancelContext \/ Start \/ Select \/ UNCHANGED vars
  BY <1>7 DEF CancelContext, Start, Select, ContextDone, BufferDrained, Tick,
              CallsFlush, TakeRecord, vars
<1>8. CASE FlushBatch
  BY <1>8 DEF FlushBatch, FlushBegins, Connects, ConnectFails, WriteSucceeds,
              WriteFails, AllWritten, WriteBack
<1> QED
  BY <1>1, <1>2, <1>3, <1>4, <1>5, <1>6, <1>7, <1>8
     DEF Next, Application, Close, Stopped

\* An application that logs through the one handler it closes, as main.go does,
\* never sends on the closed channel, whatever senders are still running.
THEOREM OneHandlerNeverPanics ==
    ASSUME OneHandlerInUse
    PROVE  Spec => []NoPanic
<1>1. Init => ClosingInv
  BY DEF Init, ClosingInv
<1>2. TypeOK /\ ClosingInv /\ [Next]_vars => ClosingInv'
  BY ClosingStep
<1>3. ClosingInv => NoPanic
  BY DEF ClosingInv, NoPanic
<1> QED BY <1>1, <1>2, <1>3, TypeCorrect, PTL DEF Spec
=============================================================================
