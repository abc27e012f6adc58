------------------------------ MODULE Connection -------------------------------
(******************************************************************************)
(* One websocket connection of a client: internal/relay/connection.go.        *)
(*                                                                            *)
(* Any number of goroutines call Send, SendAndClose and Close; one writer     *)
(* (WritePump) drains the buffered channel to the socket.  Each section under *)
(* c.mu is one action.  c.closed, the done channel and the socket change      *)
(* together under c.mu, so `closed` stands for the three.                     *)
(*                                                                            *)
(* A frame is named by the goroutine that sends it: each sends once.  The     *)
(* channel is never closed and the second check of c.closed in Send cannot    *)
(* succeed under the lock, so neither branch has an action.                   *)
(******************************************************************************)
EXTENDS Naturals, Sequences

CONSTANTS
    Senders,    \* goroutines that call Send
    Finishers,  \* goroutines that call SendAndClose
    Closers,    \* goroutines that call Close
    Capacity,   \* of the send channel (256 in the code)
    NONE        \* the writer holds no frame

Callers == Senders \cup Finishers \cup Closers
Frames  == Senders \cup Finishers

ASSUME ConnectionAssumption ==
    /\ Capacity \in Nat \ {0}
    /\ NONE \notin Callers
    /\ Senders \cap Finishers = {}
    /\ Closers \cap Frames = {}

VARIABLES
    send,            \* c.send
    gracefulClosing, \* c.gracefulClosing
    closed,          \* c.closed, c.done closed, socket closed
    call,            \* state and outcome of each goroutine's call
    writer,          \* where WritePump is
    current,         \* the frame it has taken from the channel
    written,         \* whether the write of `current` succeeded
    wire,            \* the frames the socket has accepted
    accepted,        \* history: the frames enqueued, in order
    writeFailed      \* history: a write to an open socket failed

vars == <<send, gracefulClosing, closed, call, writer, current, written, wire,
          accepted, writeFailed>>

\* A call is pending in SendAndClose's select; the other states are final.
CallStates == {"idle", "pending", "true", "false", "returned"}
WriterStates == {"select", "writing", "result", "finish", "stopped"}

TypeOK ==
    /\ send \in Seq(Frames) /\ Len(send) <= Capacity
    /\ gracefulClosing \in BOOLEAN
    /\ closed \in BOOLEAN
    /\ call \in [Callers -> CallStates]
    /\ writer \in WriterStates
    /\ current \in Frames \cup {NONE}
    /\ written \in BOOLEAN
    /\ wire \in Seq(Frames)
    /\ accepted \in Seq(Frames)
    /\ writeFailed \in BOOLEAN

Init ==
    /\ send = <<>>
    /\ gracefulClosing = FALSE
    /\ closed = FALSE
    /\ call = [p \in Callers |-> "idle"]
    /\ writer = "select"
    /\ current = NONE
    /\ written = FALSE
    /\ wire = <<>>
    /\ accepted = <<>>
    /\ writeFailed = FALSE

Return(p, outcome) == call' = [call EXCEPT ![p] = outcome]

writerVars == <<writer, current, written, wire, writeFailed>>

--------------------------------------------------------------------------------
(* The callers.                                                               *)

\* Send and SendAndClose turn a frame down.
Refuses == closed \/ gracefulClosing

\* The select's send case: there is room in the channel.
Enqueue(p) ==
    /\ Len(send) < Capacity
    /\ send' = Append(send, p)
    /\ accepted' = Append(accepted, p)

\* A full buffer means a stuck writer: the connection is dropped.
Overflow == Len(send) = Capacity /\ closed' = TRUE

\* Send never blocks: refused, enqueued, or dropped with the connection.
Send(p) ==
    /\ call[p] = "idle"
    /\ \/ /\ Refuses
          /\ Return(p, "false")
          /\ UNCHANGED <<send, accepted, closed>>
       \/ /\ ~Refuses
          /\ Enqueue(p)
          /\ Return(p, "true")
          /\ UNCHANGED closed
       \/ /\ ~Refuses
          /\ Overflow
          /\ Return(p, "false")
          /\ UNCHANGED <<send, accepted>>
    /\ UNCHANGED <<gracefulClosing, writerVars>>

\* The final frame is enqueued and the call waits for the writer's result.
SendAndClose(f) ==
    /\ call[f] = "idle"
    /\ \/ /\ Refuses
          /\ Return(f, "false")
          /\ UNCHANGED <<send, accepted, closed, gracefulClosing>>
       \/ /\ ~Refuses
          /\ Enqueue(f)
          /\ gracefulClosing' = TRUE
          /\ Return(f, "pending")
          /\ UNCHANGED closed
       \/ /\ ~Refuses
          /\ Overflow
          /\ Return(f, "false")
          /\ UNCHANGED <<send, accepted, gracefulClosing>>
    /\ UNCHANGED writerVars

\* Mutation: the select has no done case.
ObserveDoneNever(f) == FALSE

\* The select of a pending SendAndClose takes the done case.
ObserveDone(f) ==
    /\ call[f] = "pending"
    /\ closed
    /\ Return(f, "false")
    /\ UNCHANGED <<send, accepted, closed, gracefulClosing, writerVars>>

\* Mutation: Close does not give way to a graceful close.
CloseAtOnce(p) ==
    /\ call[p] = "idle"
    /\ closed' = TRUE
    /\ Return(p, "returned")
    /\ UNCHANGED <<send, accepted, gracefulClosing, writerVars>>

\* A graceful close in progress is left to the writer.
Close(p) ==
    /\ call[p] = "idle"
    /\ closed' = (closed \/ ~gracefulClosing)
    /\ Return(p, "returned")
    /\ UNCHANGED <<send, accepted, gracefulClosing, writerVars>>

--------------------------------------------------------------------------------
(* The writer.                                                                *)

callerVars == <<gracefulClosing, call, accepted>>

\* Mutation: the latest frame is written first.
TakeLatestFrame ==
    /\ writer = "select"
    /\ send # <<>>
    /\ current' = send[Len(send)]
    /\ send' = SubSeq(send, 1, Len(send) - 1)
    /\ writer' = "writing"
    /\ UNCHANGED <<callerVars, closed, written, wire, writeFailed>>

\* The select of WritePump: with both cases ready Go takes either.
TakeFrame ==
    /\ writer = "select"
    /\ send # <<>>
    /\ current' = Head(send)
    /\ send' = Tail(send)
    /\ writer' = "writing"
    /\ UNCHANGED <<callerVars, closed, written, wire, writeFailed>>

\* The select's done case.
TakeDone ==
    /\ writer = "select"
    /\ closed
    /\ writer' = "finish"
    /\ UNCHANGED <<callerVars, send, closed, current, written, wire, writeFailed>>

\* After a write the result of a final frame is handed to its caller.
WriteOk ==
    /\ writer = "writing"
    /\ ~closed
    /\ wire' = Append(wire, current)
    /\ IF current \in Finishers
       THEN writer' = "result" /\ written' = TRUE /\ UNCHANGED current
       ELSE writer' = "select" /\ current' = NONE /\ UNCHANGED written
    /\ UNCHANGED <<callerVars, send, closed, writeFailed>>

\* The socket is closed, the peer is gone or the write deadline has passed.
WriteFails ==
    /\ writer = "writing"
    /\ writeFailed' = (writeFailed \/ ~closed)
    /\ IF current \in Finishers
       THEN writer' = "result" /\ written' = FALSE /\ UNCHANGED current
       ELSE writer' = "finish" /\ current' = NONE /\ UNCHANGED written
    /\ UNCHANGED <<callerVars, send, closed, wire>>

\* writeResult is unbuffered: the writer and the caller meet.
HandOver ==
    /\ writer = "result"
    /\ call[current] = "pending"
    /\ Return(current, IF written THEN "true" ELSE "false")
    /\ writer' = "finish"
    /\ current' = NONE
    /\ UNCHANGED <<send, gracefulClosing, closed, written, wire, accepted,
                   writeFailed>>

\* Mutation: the writer calls Close, which gives way to the graceful close.
FinishCloseGivesWay ==
    /\ writer = "finish"
    /\ closed' = (closed \/ ~gracefulClosing)
    /\ writer' = "stopped"
    /\ UNCHANGED <<callerVars, send, current, written, wire, writeFailed>>

\* The deferred finishClose closes whatever gracefulClosing says.
FinishClose ==
    /\ writer = "finish"
    /\ closed' = TRUE
    /\ writer' = "stopped"
    /\ UNCHANGED <<callerVars, send, current, written, wire, writeFailed>>

Writer == TakeFrame \/ TakeDone \/ WriteOk \/ WriteFails \/ HandOver \/ FinishClose

Next ==
    \/ \E p \in Senders : Send(p)
    \/ \E f \in Finishers : SendAndClose(f) \/ ObserveDone(f)
    \/ \E p \in Closers : Close(p)
    \/ Writer

Spec == Init /\ [][Next]_vars

\* WritePump is never blocked for ever in a write (10s deadline) and the
\* runtime schedules it and every caller that has a ready select case.
Fairness == WF_vars(Writer) /\ \A f \in Finishers : WF_vars(ObserveDone(f))

FairSpec == Spec /\ Fairness

--------------------------------------------------------------------------------
(* Properties.                                                                *)

Occurs(f, seq) == \E i \in 1 .. Len(seq) : seq[i] = f

\* SendAndClose reports the truth: true exactly when the final frame reached
\* the socket, and then nothing was written after it.
FinalFrameTruth ==
    \A f \in Finishers :
        /\ call[f] = "true" => wire # <<>> /\ wire[Len(wire)] = f
        /\ call[f] = "false" => ~Occurs(f, wire)

\* The socket receives the accepted frames in the order of acceptance without
\* gaps, and only those.
WireInOrder ==
    /\ Len(wire) <= Len(accepted)
    /\ \A i \in 1 .. Len(wire) : wire[i] = accepted[i]

\* A concurrent Close or a full buffer never drops a final frame already
\* accepted: a graceful close that ends without a write error has flushed all.
GracefulCloseFlushes ==
    gracefulClosing /\ closed /\ ~writeFailed => wire = accepted

\* Every SendAndClose returns.
FinisherReturns ==
    \A f \in Finishers : call[f] = "pending" ~> call[f] \in {"true", "false"}

\* A closed connection's writer ends, and a graceful close always completes.
WriterStops == (closed \/ gracefulClosing) ~> (closed /\ writer = "stopped")
================================================================================
