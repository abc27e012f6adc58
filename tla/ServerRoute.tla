------------------------------ MODULE ServerRoute ------------------------------
(******************************************************************************)
(* Messages to and from the server of one device while its socket is          *)
(* replaced: OnlineServer and AddServer of internal/relay/device_hub.go,      *)
(* SendToServer of internal/relay/room.go, and the server's read pump of      *)
(* internal/relay/ws_handler.go.                                              *)
(*                                                                            *)
(* DeviceHub takes AddServer for one step.  Here it has three, because the    *)
(* old server's done channel and the room's route are guarded by locks of     *)
(* their own (none and serverMu): senders that do not take h.mu see what is   *)
(* between them.  An OnlineServer is named by its generation; all are of the  *)
(* device's owner.  The device starts with one server, a room and a session.  *)
(******************************************************************************)
EXTENDS Naturals

CONSTANTS
    RoomSenders,     \* goroutines that call Room.SendToServer
    SessionSenders,  \* goroutines that call DeviceHub.ForwardToServer
    MaxServers,      \* bound: registrations of the device
    NONE             \* writeMu is free

Senders == RoomSenders \cup SessionSenders
Servers == 1 .. MaxServers
NoServer == 0

ASSUME RouteAssumption ==
    /\ MaxServers \in Nat \ {0}
    /\ NONE \notin Senders
    /\ RoomSenders \cap SessionSenders = {}

VARIABLES
    serverGen,     \* h.serverGen
    registered,    \* h.onlineServers of the device
    adding,        \* progress of the AddServer that holds h.mu
    displaced,     \* the server it replaces
    closed,        \* servers whose done channel and socket are closed
    roomServer,    \* r.ServerConn and r.serverGen
    roomClosed,    \* r.closed
    sessionServer, \* sess.ServerConn
    writeMu,       \* server -> the sender that holds its writeMu
    pump,          \* server -> where its read pump is
    routed,        \* history: the server of the frame clients got last
    call,          \* progress and outcome of each sender's call
    route,         \* the server the call has snapshotted
    retried,       \* callers on their second attempt
    faulted,       \* history: callers whose write failed on an open socket
    missed,        \* history: callers whose second snapshot came in mid-AddServer
    since,         \* history: the oldest server that may get the frame
    first,         \* history: the server of the first snapshot
    received       \* <<p, w>>: the frame of p was written to the socket of w

hubVars  == <<serverGen, registered, adding, displaced, roomServer, roomClosed,
              sessionServer>>
pumpVars == <<pump, routed>>
callVars == <<writeMu, call, route, retried, faulted, missed, since, first,
              received>>
vars == <<hubVars, closed, pumpVars, callVars>>

PumpStates == {"none", "reading", "routing", "ending", "ended"}
CallStates == {"idle", "checked", "acquire", "writing", "failed", "true", "false"}

TypeOK ==
    /\ serverGen \in Servers
    /\ registered \in {NoServer, serverGen}
    /\ adding \in {"idle", "close", "rebind"}
    /\ displaced \in Servers \cup {NoServer}
    /\ closed \subseteq Servers
    /\ roomServer \in Servers
    /\ roomClosed \in BOOLEAN
    /\ sessionServer \in Servers \cup {NoServer}
    /\ writeMu \in [Servers -> Senders \cup {NONE}]
    /\ pump \in [Servers -> PumpStates]
    /\ routed \in Servers \cup {NoServer}
    /\ call \in [Senders -> CallStates]
    /\ route \in [Senders -> Servers \cup {NoServer}]
    /\ retried \subseteq RoomSenders
    /\ faulted \subseteq Senders
    /\ missed \subseteq RoomSenders
    /\ since \in [Senders -> Nat]
    /\ first \in [Senders -> Servers \cup {NoServer}]
    /\ received \subseteq Senders \X Servers

Init ==
    /\ serverGen = 1
    /\ registered = 1
    /\ adding = "idle"
    /\ displaced = NoServer
    /\ closed = {}
    /\ roomServer = 1
    /\ roomClosed = FALSE
    /\ sessionServer = 1
    /\ writeMu = [w \in Servers |-> NONE]
    /\ pump = [w \in Servers |-> IF w = 1 THEN "reading" ELSE "none"]
    /\ routed = NoServer
    /\ call = [p \in Senders |-> "idle"]
    /\ route = [p \in Senders |-> NoServer]
    /\ retried = {}
    /\ faulted = {}
    /\ missed = {}
    /\ since = [p \in Senders |-> 0]
    /\ first = [p \in Senders |-> NoServer]
    /\ received = {}

--------------------------------------------------------------------------------
(* Replacement: AddServer, under h.mu from its first step to its last.        *)

\* A new server is entered in the map.
AddServer ==
    /\ adding = "idle"
    /\ serverGen < MaxServers
    /\ serverGen' = serverGen + 1
    /\ registered' = serverGen + 1
    /\ displaced' = registered
    /\ adding' = "close"
    /\ UNCHANGED <<roomServer, roomClosed, sessionServer, closed, pumpVars,
                   callVars>>

\* Mutation: the old server is left to its read pump.
CloseOldForgotten ==
    /\ adding = "close"
    /\ adding' = "rebind"
    /\ UNCHANGED <<serverGen, registered, displaced, roomServer, roomClosed,
                   sessionServer, closed, pumpVars, callVars>>

\* Mutation: Close takes writeMu and waits for the writer.
CloseOldWaits ==
    /\ adding = "close"
    /\ displaced # NoServer => writeMu[displaced] = NONE
    /\ adding' = "rebind"
    /\ closed' = closed \cup ({displaced} \ {NoServer})
    /\ UNCHANGED <<serverGen, registered, displaced, roomServer, roomClosed,
                   sessionServer, pumpVars, callVars>>

\* old.Close: done and the socket are closed without writeMu.
CloseOld ==
    /\ adding = "close"
    /\ adding' = "rebind"
    /\ closed' = closed \cup ({displaced} \ {NoServer})
    /\ UNCHANGED <<serverGen, registered, displaced, roomServer, roomClosed,
                   sessionServer, pumpVars, callVars>>

\* The room and the session are rebound, h.mu is freed, the pump starts.
Rebind ==
    /\ adding = "rebind"
    /\ adding' = "idle"
    /\ roomServer' = IF roomClosed THEN roomServer ELSE registered
    /\ sessionServer' = registered
    /\ pump' = [pump EXCEPT ![registered] = "reading"]
    /\ UNCHANGED <<serverGen, registered, displaced, roomClosed, closed, routed,
                   callVars>>

\* RemoveRoom, called by the owner.
CloseRoom ==
    /\ adding = "idle"
    /\ ~roomClosed
    /\ roomClosed' = TRUE
    /\ UNCHANGED <<serverGen, registered, adding, displaced, roomServer,
                   sessionServer, closed, pumpVars, callVars>>

--------------------------------------------------------------------------------
(* The read pump of a server.                                                 *)

\* A frame has been read from the socket.
ReadFrame(w) ==
    /\ pump[w] = "reading"
    /\ w \notin closed
    /\ pump' = [pump EXCEPT ![w] = "routing"]
    /\ UNCHANGED <<hubVars, closed, routed, callVars>>

\* The socket is closed, the peer is gone or the read deadline has passed.
ReadFails(w) ==
    /\ pump[w] = "reading"
    /\ pump' = [pump EXCEPT ![w] = "ending"]
    /\ UNCHANGED <<hubVars, closed, routed, callVars>>

\* Mutation: a frame that has been read is routed.
CurrentOnceRead(w) == TRUE

\* w is the registered server and open.
Current(w) == w \notin closed /\ registered = w

\* routeCurrentServerMessage, under h.mu's read lock; a pump that is no longer
\* current ends.
RouteFrame(w) ==
    /\ pump[w] = "routing"
    /\ adding = "idle"
    /\ IF Current(w)
       THEN routed' = w /\ pump' = [pump EXCEPT ![w] = "reading"]
       ELSE pump' = [pump EXCEPT ![w] = "ending"] /\ UNCHANGED routed
    /\ UNCHANGED <<hubVars, closed, callVars>>

\* The pump's deferred RemoveServerConn: if w is registered the device goes
\* offline, with its room.  The socket is closed after h.mu is released.
RemoveServerConn(w) ==
    /\ pump[w] = "ending"
    /\ adding = "idle"
    /\ pump' = [pump EXCEPT ![w] = "ended"]
    /\ IF registered = w
       THEN /\ registered' = NoServer
            /\ roomClosed' = TRUE
            /\ sessionServer' = NoServer
       ELSE UNCHANGED <<registered, roomClosed, sessionServer>>
    /\ UNCHANGED <<serverGen, adding, displaced, roomServer, closed, routed,
                   callVars>>

\* conn.Close, the last step of an effective RemoveServerConn; after one that
\* did nothing w has been closed already.
CloseRemoved(w) ==
    /\ pump[w] = "ended"
    /\ w \notin closed
    /\ closed' = closed \cup {w}
    /\ UNCHANGED <<hubVars, pumpVars, callVars>>

--------------------------------------------------------------------------------
(* The senders.                                                               *)

\* The oldest server that may receive a frame whose call begins now: not one
\* that AddServer has closed or RemoveServerConn has removed.
OldestLive ==
    CASE adding = "close" /\ displaced # NoServer -> displaced
      [] registered = NoServer -> serverGen + 1
      [] OTHER -> registered

\* SendToServer reads r.closed.
SendToServer(p) ==
    /\ p \in RoomSenders
    /\ call[p] = "idle"
    /\ call' = [call EXCEPT ![p] = IF roomClosed THEN "false" ELSE "checked"]
    /\ since' = [since EXCEPT ![p] = OldestLive]
    /\ UNCHANGED <<hubVars, closed, pumpVars, writeMu, route, retried, faulted,
                   missed, first, received>>

\* serverSnapshot, under serverMu.
Snapshot(p) ==
    /\ call[p] = "checked"
    /\ call' = [call EXCEPT ![p] = "acquire"]
    /\ route' = [route EXCEPT ![p] = roomServer]
    /\ first' = [first EXCEPT ![p] = roomServer]
    /\ UNCHANGED <<hubVars, closed, pumpVars, writeMu, retried, faulted, missed,
                   since, received>>

\* ForwardToServer snapshots the session's server under h.mu's read lock.
ForwardToServer(p) ==
    /\ p \in SessionSenders
    /\ call[p] = "idle"
    /\ adding = "idle"
    /\ call' = [call EXCEPT ![p] = IF sessionServer = NoServer
                                   THEN "false" ELSE "acquire"]
    /\ route' = [route EXCEPT ![p] = sessionServer]
    /\ since' = [since EXCEPT ![p] = OldestLive]
    /\ UNCHANGED <<hubVars, closed, pumpVars, writeMu, retried, faulted, missed,
                   first, received>>

\* SendMessage takes the server's writeMu.
Acquire(p) ==
    /\ call[p] = "acquire"
    /\ writeMu[route[p]] = NONE
    /\ writeMu' = [writeMu EXCEPT ![route[p]] = p]
    /\ call' = [call EXCEPT ![p] = "writing"]
    /\ UNCHANGED <<hubVars, closed, pumpVars, route, retried, faulted, missed,
                   since, first, received>>

\* done is open and the socket takes the frame.
WriteOk(p) ==
    /\ call[p] = "writing"
    /\ route[p] \notin closed
    /\ received' = received \cup {<<p, route[p]>>}
    /\ writeMu' = [writeMu EXCEPT ![route[p]] = NONE]
    /\ call' = [call EXCEPT ![p] = "true"]
    /\ UNCHANGED <<hubVars, closed, pumpVars, route, retried, faulted, missed,
                   since, first>>

\* done or the socket is closed, the peer is gone or the deadline has passed.
WriteFails(p) ==
    /\ call[p] = "writing"
    /\ writeMu' = [writeMu EXCEPT ![route[p]] = NONE]
    /\ faulted' = faulted \cup (IF route[p] \in closed THEN {} ELSE {p})
    /\ call' = [call EXCEPT ![p] = IF p \in RoomSenders \ retried
                                   THEN "failed" ELSE "false"]
    /\ UNCHANGED <<hubVars, closed, pumpVars, route, retried, missed, since,
                   first, received>>

\* Mutation: a newer server is taken for a frame delivered.
RetryUnsent(p) ==
    /\ call[p] = "failed"
    /\ call' = [call EXCEPT ![p] = IF roomServer > route[p]
                                   THEN "true" ELSE "false"]
    /\ retried' = retried \cup {p}
    /\ missed' = missed \cup (IF adding = "idle" THEN {} ELSE {p})
    /\ UNCHANGED <<hubVars, closed, pumpVars, writeMu, route, faulted, since,
                   first, received>>

\* SendToServer's second snapshot: one more attempt if the route is newer.
Retry(p) ==
    /\ call[p] = "failed"
    /\ IF roomServer > route[p]
       THEN /\ route' = [route EXCEPT ![p] = roomServer]
            /\ retried' = retried \cup {p}
            /\ call' = [call EXCEPT ![p] = "acquire"]
       ELSE /\ call' = [call EXCEPT ![p] = "false"]
            /\ UNCHANGED <<route, retried>>
    /\ missed' = missed \cup (IF adding = "idle" THEN {} ELSE {p})
    /\ UNCHANGED <<hubVars, closed, pumpVars, writeMu, faulted, since, first,
                   received>>

Next ==
    \/ AddServer \/ CloseOld \/ Rebind \/ CloseRoom
    \/ \E w \in Servers : \/ ReadFrame(w) \/ ReadFails(w) \/ RouteFrame(w)
                          \/ RemoveServerConn(w) \/ CloseRemoved(w)
    \/ \E p \in Senders : \/ SendToServer(p) \/ Snapshot(p)
                          \/ ForwardToServer(p) \/ Acquire(p)
                          \/ WriteOk(p) \/ WriteFails(p) \/ Retry(p)

Spec == Init /\ [][Next]_vars

\* The goroutine in AddServer runs on.  No write need ever end.
Fairness == WF_vars(CloseOld) /\ WF_vars(Rebind)

FairSpec == Spec /\ Fairness

--------------------------------------------------------------------------------
(* Properties.                                                                *)

\* A send reports the truth: true when exactly one server has received the
\* frame, and no server has otherwise, a retry's first attempt included.
SendTruth ==
    \A p \in Senders :
        LET got == {w \in Servers : <<p, w>> \in received}
        IN  IF call[p] = "true" THEN \E w \in Servers : got = {w} ELSE got = {}

\* Once AddServer has closed a server, or a removed one has left its room and
\* session, no message whose sending begins then reaches it ("stale old
\* messages cannot route to the replacement's window", device_hub.go:120).
NoFrameToReplaced == \A pw \in received : pw[2] >= since[pw[1]]

\* "Rooms and all legacy sessions are rebound before the old connection is
\* closed" (device_hub.go:83-85): a room message whose write has failed because
\* the old server was closed finds a newer one to retry on.
ReboundBeforeClosed ==
    \A p \in RoomSenders :
        call[p] = "failed" /\ route[p] \in closed /\ ~roomClosed =>
            roomServer > route[p]

\* What the retry buys as AddServer is, which closes first and rebinds then: in
\* an open room a frame that meets no network fault is lost only if its second
\* snapshot falls between the two, against ReboundBeforeClosed, or the server
\* has been replaced twice.
LostOnlyMidReplacement ==
    \A p \in RoomSenders :
        call[p] = "false" /\ p \notin faulted /\ ~roomClosed =>
            p \in missed \/ serverGen >= first[p] + 2

\* Clients never get a frame of a replaced server after one of its successor.
ClientsSeeNewer == [][routed' >= routed]_routed

\* A writer stuck in the old socket does not hold up its replacement
\* (device_hub.go:123).
ReplacementNotStalled == adding # "idle" ~> adding = "idle"
================================================================================
