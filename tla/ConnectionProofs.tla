---------------------------- MODULE ConnectionProofs ----------------------------
(******************************************************************************)
(* Theorems about Connection, for every buffer and any number of callers: the *)
(* socket receives what was accepted, in order; SendAndClose reports the      *)
(* truth; a graceful close flushes.                                           *)
(******************************************************************************)
EXTENDS Connection, SequenceTheorems, TLAPS

\* Every accepted frame is on the wire, in the writer's hands or in the channel,
\* in this order, until the writer turns to its end.
Pipeline ==
    /\ writer = "select" =>
          /\ Len(accepted) = Len(wire) + Len(send)
          /\ \A i \in 1 .. Len(send) : accepted[Len(wire) + i] = send[i]
    /\ writer = "writing" =>
          /\ current \in Frames
          /\ Len(accepted) = Len(wire) + 1 + Len(send)
          /\ accepted[Len(wire) + 1] = current
          /\ \A i \in 1 .. Len(send) : accepted[Len(wire) + 1 + i] = send[i]

\* A final frame is the last to be accepted, and its caller waits for the writer.
FinalIsLast ==
    \A i \in 1 .. Len(accepted) :
        accepted[i] \in Finishers =>
            /\ i = Len(accepted)
            /\ gracefulClosing
            /\ writer \in {"select", "writing", "result"} => call[accepted[i]] = "pending"

\* Once a graceful close has begun only the writer closes, as its last act.
WriterCloses ==
    /\ gracefulClosing /\ closed => writer = "stopped"
    /\ writer = "stopped" => closed
    /\ \A f \in Finishers : call[f] = "pending" => gracefulClosing

\* The result the writer holds out is that of the final frame.
ResultTrue ==
    writer = "result" =>
        /\ current \in Finishers
        /\ gracefulClosing
        /\ written => wire # <<>> /\ wire[Len(wire)] = current

\* A final frame on the wire is reported, or is about to be.
FinalOnWire ==
    \A f \in Finishers :
        /\ Occurs(f, wire) =>
              \/ call[f] = "true" /\ writer \in {"finish", "stopped"}
              \/ call[f] = "pending" /\ writer = "result" /\ written /\ current = f
        /\ call[f] = "true" =>
              writer \in {"finish", "stopped"} /\ wire # <<>> /\ wire[Len(wire)] = f

\* A writer past its last write has flushed, unless a write failed; one that
\* ends an open connection that nobody finishes has met such a failure.
Flushed ==
    /\ gracefulClosing /\ ~writeFailed /\ writer \in {"result", "finish", "stopped"}
          => wire = accepted
    /\ writer = "finish" /\ ~closed /\ ~gracefulClosing => writeFailed

ConnectionInv ==
    /\ TypeOK
    /\ Pipeline
    /\ WireInOrder
    /\ FinalIsLast
    /\ WriterCloses
    /\ ResultTrue
    /\ FinalOnWire
    /\ Flushed

--------------------------------------------------------------------------------
(* The callers.                                                               *)

\* What enqueuing does to the channel and to the history.
LEMMA Enqueued ==
    ASSUME TypeOK, NEW p \in Frames, Enqueue(p)
    PROVE  /\ send' \in Seq(Frames) /\ accepted' \in Seq(Frames)
           /\ Len(send') = Len(send) + 1 /\ Len(send') <= Capacity
           /\ Len(accepted') = Len(accepted) + 1
           /\ \A i \in 1 .. Len(send) : send'[i] = send[i]
           /\ send'[Len(send) + 1] = p
           /\ \A i \in 1 .. Len(accepted) : accepted'[i] = accepted[i]
           /\ accepted'[Len(accepted) + 1] = p
<1>1. /\ send \in Seq(Frames) /\ accepted \in Seq(Frames) /\ Len(send) < Capacity
      /\ send' = Append(send, p) /\ accepted' = Append(accepted, p)
    BY DEF Enqueue, TypeOK
<1>2. Len(send) \in Nat /\ Len(accepted) \in Nat /\ Capacity \in Nat
    BY <1>1, LenProperties, ConnectionAssumption DEF ConnectionAssumption
<1> QED
    BY <1>1, <1>2, AppendProperties

\* The channel and both histories are sequences with a length.
LEMMA Lengths ==
    ASSUME TypeOK
    PROVE  Len(send) \in Nat /\ Len(accepted) \in Nat /\ Len(wire) \in Nat
    BY LenProperties DEF TypeOK

\* A frame that joins the channel joins the pipeline at its end.
LEMMA EnqueueKeepsPipeline ==
    ASSUME TypeOK, Pipeline, WireInOrder, NEW p \in Frames, Enqueue(p),
           UNCHANGED writerVars
    PROVE  Pipeline' /\ WireInOrder'
<1>1. UNCHANGED <<writer, current, wire>>
    BY DEF writerVars
<1>2. WireInOrder'
    BY <1>1, Enqueued, Lengths DEF WireInOrder
<1>3. ASSUME writer = "select" PROVE Pipeline'
  <2>1. /\ Len(accepted) = Len(wire) + Len(send)
        /\ \A i \in 1 .. Len(send) : accepted[Len(wire) + i] = send[i]
      BY <1>3 DEF Pipeline
  <2>2. Len(accepted') = Len(wire) + Len(send')
      BY <2>1, Enqueued, Lengths
  <2>3. ASSUME NEW i \in 1 .. Len(send')
        PROVE  accepted'[Len(wire) + i] = send'[i]
    <3>1. CASE i \in 1 .. Len(send)
        BY <2>1, <3>1, Enqueued, Lengths
    <3>2. CASE i = Len(send) + 1
        BY <2>1, <3>2, Enqueued, Lengths
    <3> QED
        BY <3>1, <3>2, Enqueued, Lengths
  <2> QED
      BY <1>1, <1>3, <2>2, <2>3 DEF Pipeline
<1>4. ASSUME writer = "writing" PROVE Pipeline'
  <2>1. /\ current \in Frames
        /\ Len(accepted) = Len(wire) + 1 + Len(send)
        /\ accepted[Len(wire) + 1] = current
        /\ \A i \in 1 .. Len(send) : accepted[Len(wire) + 1 + i] = send[i]
      BY <1>4 DEF Pipeline
  <2>2. /\ Len(accepted') = Len(wire) + 1 + Len(send')
        /\ accepted'[Len(wire) + 1] = current
      BY <2>1, Enqueued, Lengths
  <2>3. ASSUME NEW i \in 1 .. Len(send')
        PROVE  accepted'[Len(wire) + 1 + i] = send'[i]
    <3>1. CASE i \in 1 .. Len(send)
        BY <2>1, <3>1, Enqueued, Lengths
    <3>2. CASE i = Len(send) + 1
        BY <2>1, <3>2, Enqueued, Lengths
    <3> QED
        BY <3>1, <3>2, Enqueued, Lengths
  <2> QED
      BY <1>1, <1>4, <2>1, <2>2, <2>3 DEF Pipeline
<1>5. ASSUME writer \notin {"select", "writing"} PROVE Pipeline'
  <2>1. writer' # "select" /\ writer' # "writing"
      BY <1>1, <1>5
  <2> QED
      BY <2>1 DEF Pipeline
<1> QED
    BY <1>2, <1>3, <1>4, <1>5

\* Senders and finishers have frames of their own; no closer finishes.
LEMMA Sets ==
    /\ Senders \subseteq Frames /\ Finishers \subseteq Frames /\ Frames \subseteq Callers
    /\ Senders \cap Finishers = {} /\ Closers \cap Finishers = {}
    BY ConnectionAssumption DEF ConnectionAssumption, Frames, Callers

\* A call that is turned down changes nothing but its own outcome.
LEMMA Refused ==
    ASSUME ConnectionInv, NEW p \in Callers, call[p] = "idle",
           NEW outcome \in {"false", "returned"}, Return(p, outcome),
           UNCHANGED <<send, accepted, gracefulClosing, writerVars>>,
           closed' \in BOOLEAN, closed => closed', closed' # closed => ~gracefulClosing
    PROVE  ConnectionInv'
<1>1. /\ call' \in [Callers -> CallStates] /\ call'[p] = outcome
      /\ \A q \in Callers \ {p} : call'[q] = call[q]
    BY DEF Return, ConnectionInv, TypeOK, CallStates
<1>2. UNCHANGED <<send, accepted, gracefulClosing, writer, current, written, wire, writeFailed>>
    BY DEF writerVars
<1>3. TypeOK' /\ Pipeline' /\ WireInOrder' /\ ResultTrue' /\ Flushed'
    BY <1>1, <1>2 DEF ConnectionInv, TypeOK, Pipeline, WireInOrder, ResultTrue, Flushed
<1>4. FinalIsLast'
  <2>1. \A i \in 1 .. Len(accepted) : accepted[i] \in Callers
      BY Sets DEF ConnectionInv, TypeOK
  <2> QED
      BY <1>1, <1>2, <2>1 DEF ConnectionInv, FinalIsLast
<1>5. WriterCloses'
    BY <1>1, <1>2, Sets DEF ConnectionInv, WriterCloses
<1>6. FinalOnWire'
    BY <1>1, <1>2, Sets DEF ConnectionInv, FinalOnWire, Occurs
<1> QED
    BY <1>3, <1>4, <1>5, <1>6 DEF ConnectionInv

\* A frame that Send accepts goes to the end of the channel; one it refuses changes
\* nothing but the answer.
LEMMA ConnSend ==
    ASSUME ConnectionInv, NEW p \in Senders, Send(p)
    PROVE  ConnectionInv'
<1>1. p \in Frames /\ p \in Callers /\ p \notin Finishers
    BY Sets
<1>2. CASE Return(p, "false") /\ UNCHANGED <<send, accepted>>
  <2>1. \/ closed' = closed
        \/ ~Refuses /\ closed' = TRUE
      BY <1>2 DEF Send, Overflow, Enqueue, Return
  <2>2. \/ UNCHANGED closed
        \/ closed' = TRUE /\ ~gracefulClosing
      BY <2>1 DEF Refuses
  <2> QED
      BY <1>1, <1>2, <2>2, Refused DEF Send, ConnectionInv, TypeOK
<1>3. CASE ~Refuses /\ Enqueue(p) /\ Return(p, "true") /\ UNCHANGED closed
  <2>1. /\ call' \in [Callers -> CallStates]
        /\ \A q \in Callers \ {p} : call'[q] = call[q]
      BY <1>1, <1>3 DEF Return, ConnectionInv, TypeOK, CallStates
  <2>2. UNCHANGED <<gracefulClosing, closed, writer, current, written, wire, writeFailed>>
      BY <1>3 DEF Send, writerVars
  <2>3. Pipeline' /\ WireInOrder'
      BY <1>1, <1>3, EnqueueKeepsPipeline DEF Send, ConnectionInv
  <2>4. TypeOK'
      BY <1>1, <1>3, <2>1, <2>2, Enqueued DEF ConnectionInv, TypeOK
  <2>5. ~gracefulClosing /\ \A i \in 1 .. Len(accepted) : accepted[i] \notin Finishers
      BY <1>3 DEF Refuses, ConnectionInv, FinalIsLast
  <2>6. FinalIsLast'
    <3>1. \A i \in 1 .. Len(accepted') : accepted'[i] \notin Finishers
        BY <1>1, <1>3, <2>5, Enqueued, Lengths DEF ConnectionInv
    <3> QED
        BY <3>1 DEF FinalIsLast
  <2>7. WriterCloses' /\ ResultTrue' /\ FinalOnWire'
      BY <1>1, <2>1, <2>2, Sets DEF ConnectionInv, WriterCloses, ResultTrue, FinalOnWire, Occurs
  <2>8. Flushed'
      BY <2>2, <2>5 DEF ConnectionInv, Flushed
  <2> QED
      BY <2>3, <2>4, <2>6, <2>7, <2>8 DEF ConnectionInv
<1> QED
    BY <1>2, <1>3 DEF Send

\* It accepts the last frame that is ever accepted, or refuses, closing if it is full.
LEMMA ConnSendAndClose ==
    ASSUME ConnectionInv, NEW f \in Finishers, SendAndClose(f)
    PROVE  ConnectionInv'
<1>1. f \in Frames /\ f \in Callers
    BY Sets
<1>2. CASE Return(f, "false") /\ UNCHANGED <<send, accepted, gracefulClosing>>
  <2>1. \/ closed' = closed
        \/ ~Refuses /\ closed' = TRUE
      BY <1>2 DEF SendAndClose, Overflow, Enqueue, Return
  <2>2. \/ UNCHANGED closed
        \/ closed' = TRUE /\ ~gracefulClosing
      BY <2>1 DEF Refuses
  <2> QED
      BY <1>1, <1>2, <2>2, Refused DEF SendAndClose, ConnectionInv, TypeOK
<1>3. CASE /\ ~Refuses /\ Enqueue(f) /\ gracefulClosing' = TRUE
           /\ Return(f, "pending") /\ UNCHANGED closed
  <2>1. /\ call' \in [Callers -> CallStates] /\ call'[f] = "pending" /\ call[f] = "idle"
        /\ \A q \in Callers \ {f} : call'[q] = call[q]
      BY <1>1, <1>3 DEF Return, ConnectionInv, TypeOK, CallStates, SendAndClose
  <2>2. UNCHANGED <<closed, writer, current, written, wire, writeFailed>>
      BY <1>3 DEF SendAndClose, writerVars
  <2>3. Pipeline' /\ WireInOrder'
      BY <1>1, <1>3, EnqueueKeepsPipeline DEF SendAndClose, ConnectionInv
  <2>4. TypeOK'
      BY <1>1, <1>3, <2>1, <2>2, Enqueued DEF ConnectionInv, TypeOK
  <2>5. /\ ~gracefulClosing /\ ~closed
        /\ \A i \in 1 .. Len(accepted) : accepted[i] \notin Finishers
      BY <1>3 DEF Refuses, ConnectionInv, FinalIsLast
  <2>6. FinalIsLast'
    <3>1. \A i \in 1 .. Len(accepted') : accepted'[i] \in Finishers =>
                                            i = Len(accepted') /\ accepted'[i] = f
        BY <1>1, <1>3, <2>5, Enqueued, Lengths DEF ConnectionInv
    <3> QED
        BY <1>3, <2>1, <3>1 DEF FinalIsLast
  <2>7. writer \notin {"result", "stopped"}
      BY <2>5 DEF ConnectionInv, ResultTrue, WriterCloses
  <2>8. WriterCloses' /\ ResultTrue'
      BY <1>3, <2>2, <2>5, <2>7 DEF WriterCloses, ResultTrue
  <2>9. FinalOnWire'
      BY <1>1, <2>1, <2>2, Sets DEF ConnectionInv, FinalOnWire, Occurs
  <2>10. Flushed'
      BY <1>3, <2>2, <2>5, <2>7 DEF ConnectionInv, Flushed
  <2> QED
      BY <2>3, <2>4, <2>6, <2>8, <2>9, <2>10 DEF ConnectionInv
<1> QED
    BY <1>2, <1>3 DEF SendAndClose

\* Close leaves a graceful close to the writer, and closes otherwise.
LEMMA ConnClose ==
    ASSUME ConnectionInv, NEW p \in Closers, Close(p)
    PROVE  ConnectionInv'
<1>1. p \in Callers /\ closed \in BOOLEAN /\ gracefulClosing \in BOOLEAN
    BY DEF Callers, ConnectionInv, TypeOK
<1>2. closed' = (closed \/ ~gracefulClosing)
    BY DEF Close
<1>3. closed' \in BOOLEAN /\ (closed => closed') /\ (closed' # closed => ~gracefulClosing)
    BY <1>1, <1>2
<1> QED
    BY <1>1, <1>3, Refused DEF Close

\* The done case is taken only when the writer has stopped without a result.
LEMMA ConnObserveDone ==
    ASSUME ConnectionInv, NEW f \in Finishers, ObserveDone(f)
    PROVE  ConnectionInv'
<1>1. /\ f \in Callers /\ call[f] = "pending" /\ closed
      /\ UNCHANGED <<send, accepted, closed, gracefulClosing, writer, current, written,
                     wire, writeFailed>>
    BY Sets DEF ObserveDone, writerVars
<1>2. /\ call' \in [Callers -> CallStates] /\ call'[f] = "false"
      /\ \A q \in Callers \ {f} : call'[q] = call[q]
    BY <1>1 DEF ObserveDone, Return, ConnectionInv, TypeOK, CallStates
<1>3. writer = "stopped"
    BY <1>1 DEF ConnectionInv, WriterCloses
<1>4. ~Occurs(f, wire)
    BY <1>1, <1>3 DEF ConnectionInv, FinalOnWire
<1>5. TypeOK' /\ Pipeline' /\ WireInOrder' /\ ResultTrue' /\ Flushed'
    BY <1>1, <1>2 DEF ConnectionInv, TypeOK, Pipeline, WireInOrder, ResultTrue, Flushed
<1>6. FinalIsLast' /\ WriterCloses'
    BY <1>1, <1>2, <1>3, Sets DEF ConnectionInv, FinalIsLast, WriterCloses
<1>7. FinalOnWire'
    BY <1>1, <1>2, <1>4, Sets DEF ConnectionInv, FinalOnWire, Occurs
<1> QED
    BY <1>5, <1>6, <1>7 DEF ConnectionInv

--------------------------------------------------------------------------------
(* The writer.                                                                *)

\* What the writer knows of the frames it has written while it writes on.
LEMMA NoFinalWritten ==
    ASSUME ConnectionInv, writer \in {"select", "writing"}
    PROVE  \A f \in Finishers : ~Occurs(f, wire) /\ call[f] # "true"
    BY DEF ConnectionInv, FinalOnWire

\* The writer takes the oldest frame of the channel.
LEMMA ConnTakeFrame ==
    ASSUME ConnectionInv, TakeFrame
    PROVE  ConnectionInv'
<1>1. /\ writer = "select" /\ writer' = "writing" /\ send # <<>>
      /\ current' = Head(send) /\ send' = Tail(send)
      /\ UNCHANGED <<gracefulClosing, call, accepted, closed, written, wire, writeFailed>>
      /\ send \in Seq(Frames)
    BY DEF TakeFrame, callerVars, ConnectionInv, TypeOK
<1>2. /\ Head(send) = send[1] /\ Head(send) \in Frames
      /\ Tail(send) \in Seq(Frames) /\ Len(Tail(send)) = Len(send) - 1
      /\ \A i \in 1 .. Len(Tail(send)) : Tail(send)[i] = send[i + 1]
      /\ Len(send) \in Nat \ {0}
    BY <1>1, HeadTailProperties, EmptySeq, LenProperties
<1>3. TypeOK'
    BY <1>1, <1>2, ConnectionAssumption
    DEF ConnectionInv, TypeOK, WriterStates, ConnectionAssumption
<1>4. Pipeline'
  <2>1. /\ Len(accepted) = Len(wire) + Len(send)
        /\ \A i \in 1 .. Len(send) : accepted[Len(wire) + i] = send[i]
      BY <1>1 DEF ConnectionInv, Pipeline
  <2>2. Len(accepted) = Len(wire) + 1 + Len(send')
      BY <1>1, <1>2, <2>1, Lengths DEF ConnectionInv
  <2>3. accepted[Len(wire) + 1] = current'
      BY <1>1, <1>2, <2>1
  <2>4. ASSUME NEW i \in 1 .. Len(send')
        PROVE  accepted[Len(wire) + 1 + i] = send'[i]
    <3>1. i + 1 \in 1 .. Len(send) /\ send'[i] = send[i + 1]
        BY <1>1, <1>2
    <3>2. Len(wire) + 1 + i = Len(wire) + (i + 1)
        BY Lengths DEF ConnectionInv
    <3> QED
        BY <2>1, <3>1, <3>2
  <2> QED
      BY <1>1, <1>2, <2>2, <2>3, <2>4 DEF Pipeline
<1>5. WireInOrder' /\ FinalIsLast' /\ WriterCloses'
    BY <1>1 DEF ConnectionInv, WireInOrder, FinalIsLast, WriterCloses
<1>6. ResultTrue' /\ Flushed'
    BY <1>1 DEF ResultTrue, Flushed
<1>7. FinalOnWire'
    BY <1>1, NoFinalWritten DEF FinalOnWire, Occurs
<1> QED
    BY <1>3, <1>4, <1>5, <1>6, <1>7 DEF ConnectionInv

\* The writer turns to its end when the connection is closed.
LEMMA ConnTakeDone ==
    ASSUME ConnectionInv, TakeDone
    PROVE  ConnectionInv'
<1>1. /\ writer = "select" /\ writer' = "finish" /\ closed
      /\ UNCHANGED <<send, gracefulClosing, call, accepted, closed, current, written,
                     wire, writeFailed>>
    BY DEF TakeDone, callerVars
<1>2. ~gracefulClosing
    BY <1>1 DEF ConnectionInv, WriterCloses
<1>3. TypeOK' /\ Pipeline' /\ WireInOrder'
    BY <1>1 DEF ConnectionInv, TypeOK, WriterStates, Pipeline, WireInOrder
<1>4. FinalIsLast' /\ WriterCloses' /\ ResultTrue' /\ Flushed'
    BY <1>1, <1>2 DEF ConnectionInv, FinalIsLast, WriterCloses, ResultTrue, Flushed
<1>5. FinalOnWire'
    BY <1>1, NoFinalWritten DEF FinalOnWire, Occurs
<1> QED
    BY <1>3, <1>4, <1>5 DEF ConnectionInv

\* The frame in the writer's hands is the next of the accepted; a final one is
\* the last.
LEMMA NextOnWire ==
    ASSUME ConnectionInv, writer = "writing"
    PROVE  /\ current \in Frames
           /\ Len(wire) + 1 <= Len(accepted)
           /\ accepted[Len(wire) + 1] = current
           /\ current \in Finishers =>
                 /\ Len(accepted) = Len(wire) + 1
                 /\ gracefulClosing /\ call[current] = "pending"
<1>1. /\ current \in Frames
      /\ Len(accepted) = Len(wire) + 1 + Len(send)
      /\ accepted[Len(wire) + 1] = current
    BY DEF ConnectionInv, Pipeline
<1>2. Len(wire) + 1 \in 1 .. Len(accepted)
    BY <1>1, Lengths DEF ConnectionInv
<1> QED
    BY <1>1, <1>2, Lengths DEF ConnectionInv, FinalIsLast

\* A frame written follows those on the wire; a final frame leaves its result.
LEMMA ConnWriteOk ==
    ASSUME ConnectionInv, WriteOk
    PROVE  ConnectionInv'
<1>1. /\ writer = "writing" /\ ~closed /\ wire' = Append(wire, current)
      /\ UNCHANGED <<send, gracefulClosing, call, accepted, closed, writeFailed>>
    BY DEF WriteOk, callerVars
<1>2. /\ wire \in Seq(Frames) /\ accepted \in Seq(Frames) /\ send \in Seq(Frames)
    BY DEF ConnectionInv, TypeOK
<1>3. /\ current \in Frames /\ Len(wire) + 1 <= Len(accepted)
      /\ accepted[Len(wire) + 1] = current
      /\ current \in Finishers => /\ Len(accepted) = Len(wire) + 1
                                  /\ gracefulClosing /\ call[current] = "pending"
    BY <1>1, NextOnWire
<1>4. /\ wire' \in Seq(Frames) /\ Len(wire') = Len(wire) + 1
      /\ \A i \in 1 .. Len(wire) : wire'[i] = wire[i]
      /\ wire'[Len(wire) + 1] = current /\ Len(wire) \in Nat /\ Len(accepted) \in Nat
    BY <1>1, <1>2, <1>3, AppendProperties, LenProperties
<1>5. WireInOrder'
    BY <1>1, <1>3, <1>4 DEF ConnectionInv, WireInOrder
<1>6. CASE current \in Finishers
  <2>1. /\ writer' = "result" /\ written' = TRUE /\ current' = current
      BY <1>6 DEF WriteOk
  <2>2. TypeOK' /\ Pipeline'
      BY <1>1, <1>4, <2>1 DEF ConnectionInv, TypeOK, Pipeline, WriterStates
  <2>3. FinalIsLast' /\ WriterCloses'
      BY <1>1, <2>1 DEF ConnectionInv, FinalIsLast, WriterCloses
  <2>4. wire' # <<>> /\ wire'[Len(wire')] = current
      BY <1>4
  <2>5. ResultTrue'
      BY <1>1, <1>3, <1>6, <2>1, <2>4 DEF ResultTrue
  <2>6. FinalOnWire'
    <3>1. ASSUME NEW f \in Finishers, Occurs(f, wire')
          PROVE  f = current
      <4>1. PICK i \in 1 .. Len(wire') : wire'[i] = f
          BY <3>1 DEF Occurs
      <4>2. CASE i = Len(wire) + 1
          BY <1>4, <4>1, <4>2
      <4>3. CASE i \in 1 .. Len(wire)
          BY <1>1, <1>4, <4>1, <4>3, NoFinalWritten DEF Occurs
      <4> QED
          BY <1>4, <4>2, <4>3
    <3> QED
        BY <1>1, <1>3, <1>6, <2>1, <3>1, NoFinalWritten DEF FinalOnWire
  <2>7. Flushed'
    <3>1. wire' = accepted
        BY <1>1, <1>2, <1>3, <1>4, <1>5, <1>6, SeqEqual DEF WireInOrder
    <3> QED
        BY <1>1, <2>1, <3>1 DEF Flushed
  <2> QED
      BY <1>5, <2>2, <2>3, <2>5, <2>6, <2>7 DEF ConnectionInv
<1>7. CASE current \notin Finishers
  <2>1. /\ writer' = "select" /\ written' = written /\ current' = NONE
      BY <1>7 DEF WriteOk
  <2>2. TypeOK'
      BY <1>1, <1>4, <2>1 DEF ConnectionInv, TypeOK, WriterStates
  <2>3. Pipeline'
    <3>1. /\ Len(accepted) = Len(wire) + 1 + Len(send)
          /\ \A i \in 1 .. Len(send) : accepted[Len(wire) + 1 + i] = send[i]
        BY <1>1 DEF ConnectionInv, Pipeline
    <3>2. /\ Len(accepted) = Len(wire') + Len(send)
          /\ \A i \in 1 .. Len(send) : accepted[Len(wire') + i] = send[i]
        BY <1>4, <3>1
    <3> QED
        BY <1>1, <2>1, <3>2 DEF Pipeline
  <2>4. FinalIsLast' /\ WriterCloses' /\ ResultTrue' /\ Flushed'
      BY <1>1, <2>1 DEF ConnectionInv, FinalIsLast, WriterCloses, ResultTrue, Flushed
  <2>5. FinalOnWire'
    <3>1. ASSUME NEW f \in Finishers, Occurs(f, wire')
          PROVE  FALSE
      <4>1. PICK i \in 1 .. Len(wire') : wire'[i] = f
          BY <3>1 DEF Occurs
      <4>2. CASE i = Len(wire) + 1
          BY <1>4, <1>7, <4>1, <4>2
      <4>3. CASE i \in 1 .. Len(wire)
          BY <1>1, <1>4, <4>1, <4>3, NoFinalWritten DEF Occurs
      <4> QED
          BY <1>4, <4>2, <4>3
    <3> QED
        BY <1>1, <3>1, NoFinalWritten DEF FinalOnWire
  <2> QED
      BY <1>5, <2>2, <2>3, <2>4, <2>5 DEF ConnectionInv
<1> QED
    BY <1>6, <1>7

\* A write that fails ends the writer, or leaves the result of a final frame.
LEMMA ConnWriteFails ==
    ASSUME ConnectionInv, WriteFails
    PROVE  ConnectionInv'
<1>1. /\ writer = "writing" /\ writeFailed' = (writeFailed \/ ~closed)
      /\ UNCHANGED <<send, gracefulClosing, call, accepted, closed, wire>>
    BY DEF WriteFails, callerVars
<1>2. gracefulClosing => ~closed
    BY <1>1 DEF ConnectionInv, WriterCloses
<1>3. /\ current \in Frames
      /\ current \in Finishers => gracefulClosing /\ call[current] = "pending"
    BY <1>1, NextOnWire
<1>4. \/ /\ current \in Finishers /\ writer' = "result" /\ written' = FALSE
         /\ current' = current
      \/ writer' = "finish" /\ current' = NONE /\ written' = written
    BY DEF WriteFails
<1>5. TypeOK'
    BY <1>1, <1>3, <1>4 DEF ConnectionInv, TypeOK, WriterStates
<1>6. Pipeline' /\ WireInOrder' /\ WriterCloses'
    BY <1>1, <1>4 DEF ConnectionInv, Pipeline, WireInOrder, WriterCloses
<1>7. FinalIsLast'
    BY <1>1, <1>4 DEF ConnectionInv, FinalIsLast
<1>8. ResultTrue' /\ Flushed'
    BY <1>1, <1>2, <1>3, <1>4 DEF ConnectionInv, ResultTrue, Flushed, TypeOK
<1>9. FinalOnWire'
    BY <1>1, NoFinalWritten DEF FinalOnWire, Occurs
<1> QED
    BY <1>5, <1>6, <1>7, <1>8, <1>9 DEF ConnectionInv

\* The caller of SendAndClose gets the answer that the writer has for it.
LEMMA ConnHandOver ==
    ASSUME ConnectionInv, HandOver
    PROVE  ConnectionInv'
<1> DEFINE outcome == IF written THEN "true" ELSE "false"
<1>1. /\ writer = "result" /\ call[current] = "pending"
      /\ writer' = "finish" /\ current' = NONE
      /\ UNCHANGED <<send, gracefulClosing, closed, written, wire, accepted, writeFailed>>
    BY DEF HandOver
<1>2. /\ current \in Finishers /\ gracefulClosing
      /\ written => wire # <<>> /\ wire[Len(wire)] = current
    BY <1>1 DEF ConnectionInv, ResultTrue
<1>3. /\ call' \in [Callers -> CallStates] /\ call'[current] = outcome
      /\ \A q \in Callers \ {current} : call'[q] = call[q]
    BY <1>2, Sets DEF HandOver, Return, ConnectionInv, TypeOK, CallStates
<1>4. TypeOK' /\ Pipeline' /\ WireInOrder' /\ ResultTrue' /\ Flushed'
    BY <1>1, <1>2, <1>3
    DEF ConnectionInv, TypeOK, WriterStates, Pipeline, WireInOrder, ResultTrue, Flushed
<1>5. FinalIsLast' /\ WriterCloses'
    BY <1>1, <1>2, <1>3, Sets DEF ConnectionInv, FinalIsLast, WriterCloses
<1>6. FinalOnWire'
  <2> SUFFICES ASSUME NEW f \in Finishers
               PROVE  /\ Occurs(f, wire) => call'[f] = "true"
                      /\ call'[f] = "true" => wire # <<>> /\ wire[Len(wire)] = f
      BY <1>1 DEF FinalOnWire, Occurs
  <2>1. Occurs(f, wire) => written /\ current = f
      BY <1>1 DEF ConnectionInv, FinalOnWire
  <2>2. call[f] # "true"
      BY <1>1 DEF ConnectionInv, FinalOnWire
  <2> QED
      BY <1>2, <1>3, <2>1, <2>2, Sets
<1> QED
    BY <1>4, <1>5, <1>6 DEF ConnectionInv

\* The writer closes the connection as it stops.
LEMMA ConnFinishClose ==
    ASSUME ConnectionInv, FinishClose
    PROVE  ConnectionInv'
<1>1. /\ writer = "finish" /\ writer' = "stopped" /\ closed' = TRUE
      /\ UNCHANGED <<gracefulClosing, call, accepted, send, current, written, wire,
                     writeFailed>>
    BY DEF FinishClose, callerVars
<1>2. TypeOK' /\ Pipeline' /\ WireInOrder' /\ ResultTrue' /\ Flushed'
    BY <1>1 DEF ConnectionInv, TypeOK, WriterStates, Pipeline, WireInOrder, ResultTrue, Flushed
<1>3. FinalIsLast' /\ WriterCloses'
    BY <1>1 DEF ConnectionInv, FinalIsLast, WriterCloses
<1>4. FinalOnWire'
    BY <1>1 DEF ConnectionInv, FinalOnWire, Occurs
<1> QED
    BY <1>2, <1>3, <1>4 DEF ConnectionInv

--------------------------------------------------------------------------------
(* The results.                                                               *)

\* Nothing is accepted and nothing written.
LEMMA ConnInit ==
    ASSUME Init
    PROVE  ConnectionInv
<1>1. Len(<<>>) = 0 /\ <<>> \in Seq(Frames)
    BY EmptySeq
<1>2. TypeOK
  <2>1. Len(<<>>) <= Capacity
      BY <1>1, ConnectionAssumption DEF ConnectionAssumption
  <2> QED
      BY <1>1, <2>1 DEF Init, TypeOK, CallStates, WriterStates
<1>3. Pipeline /\ WireInOrder /\ FinalIsLast /\ FinalOnWire
    BY <1>1, Sets DEF Init, Pipeline, WireInOrder, FinalIsLast, FinalOnWire, Occurs
<1>4. WriterCloses /\ ResultTrue /\ Flushed
    BY Sets DEF Init, WriterCloses, ResultTrue, Flushed
<1> QED
    BY <1>2, <1>3, <1>4 DEF ConnectionInv

\* Every step of callers and writer keeps the invariant.
LEMMA ConnStep ==
    ASSUME ConnectionInv, [Next]_vars
    PROVE  ConnectionInv'
<1>1. CASE UNCHANGED vars
    BY <1>1 DEF vars, ConnectionInv, TypeOK, Pipeline, WireInOrder, FinalIsLast,
                WriterCloses, ResultTrue, FinalOnWire, Flushed, Occurs
<1> QED
    BY <1>1, ConnSend, ConnSendAndClose, ConnObserveDone, ConnClose, ConnTakeFrame,
       ConnTakeDone, ConnWriteOk, ConnWriteFails, ConnHandOver, ConnFinishClose
    DEF Next, Writer

\* The invariant holds in every reachable state.
LEMMA ConnectionInvariant == Spec => []ConnectionInv
BY ConnInit, ConnStep, PTL DEF Spec

\* WritePump puts the accepted frames on the socket in the order in which Send
\* and SendAndClose accepted them, without gaps.
THEOREM WireKeepsOrder == Spec => []WireInOrder
BY ConnectionInvariant, PTL DEF ConnectionInv

\* SendAndClose returns true exactly when its frame reached the socket, after
\* which nothing follows: no interleaving of writer, Close and a full buffer
\* makes it lie.
THEOREM SendAndCloseIsTruthful == Spec => []FinalFrameTruth
<1>1. ConnectionInv => FinalFrameTruth
  <2> SUFFICES ASSUME ConnectionInv, NEW f \in Finishers
               PROVE  /\ call[f] = "true" => wire # <<>> /\ wire[Len(wire)] = f
                      /\ call[f] = "false" => ~Occurs(f, wire)
      BY DEF FinalFrameTruth
  <2> QED
      BY DEF ConnectionInv, FinalOnWire
<1> QED
    BY <1>1, ConnectionInvariant, PTL

\* A graceful close that no write error cut short has flushed every accepted
\* frame.
THEOREM GracefulCloseIsComplete == Spec => []GracefulCloseFlushes
<1>1. ConnectionInv => GracefulCloseFlushes
    BY DEF ConnectionInv, WriterCloses, Flushed, GracefulCloseFlushes
<1> QED
    BY <1>1, ConnectionInvariant, PTL
================================================================================
