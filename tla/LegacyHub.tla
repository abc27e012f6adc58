------------------------------- MODULE LegacyHub -------------------------------
(******************************************************************************)
(* The Phase 1 relay without accounts: internal/relay/hub.go and the handler  *)
(* of /ws in internal/relay/handler.go.                                       *)
(*                                                                            *)
(* A room has one seat for a server and one for a client.  A connection takes *)
(* its role's seat (Join), its read pump relays frames to the other seat      *)
(* (Forward) and, when the socket ends, vacates the seat (Leave).  Each       *)
(* section under h.mu is one action; the messages Leave, NotifyRoomReady and  *)
(* Forward send after releasing it are actions of their own.                  *)
(******************************************************************************)
EXTENDS Naturals, FiniteSets

CONSTANTS
    RoomNames,  \* values of the room parameter
    Conns,      \* *Connection objects, one for each request
    NONE        \* nil

SeatRoles == {"server", "client"}

\* Mutation: the switch picks the sender's own seat.
PeerOfOwnSeat(r) == r

\* The seat across from r's.
PeerOf(r) == IF r = "server" THEN "client" ELSE "server"

ASSUME LegacyAssumption == NONE \notin Conns \cup RoomNames

VARIABLES
    rooms,     \* the keys of h.rooms
    seat,      \* room.Server and room.Client
    connRoom,  \* conn.RoomID
    connRole,  \* conn.Role
    pump,      \* progress of a connection's handler
    closed,    \* connections whose socket is closed
    outbox     \* sends to make after h.mu: [to, about, kind]

vars == <<rooms, seat, connRoom, connRole, pump, closed, outbox>>

EmptySeats == [r \in SeatRoles |-> NONE]
Outgoing   == [to: Conns, about: Conns,
               kind: {"room_ready", "peer_disconnected", "frame"}]
Running    == {"paired", "reading"}

TypeOK ==
    /\ rooms \subseteq RoomNames
    /\ seat \in [RoomNames -> [SeatRoles -> Conns \cup {NONE}]]
    /\ connRoom \in [Conns -> RoomNames \cup {NONE}]
    /\ connRole \in [Conns -> SeatRoles \cup {NONE}]
    /\ pump \in [Conns -> {"unused", "ended"} \cup Running]
    /\ closed \subseteq Conns
    /\ outbox \subseteq Outgoing

Init ==
    /\ rooms = {}
    /\ seat = [n \in RoomNames |-> EmptySeats]
    /\ connRoom = [k \in Conns |-> NONE]
    /\ connRole = [k \in Conns |-> NONE]
    /\ pump = [k \in Conns |-> "unused"]
    /\ closed = {}
    /\ outbox = {}

\* A new connection takes the seat of its role; the one it replaces is closed
\* under the lock.
Join(k, n, r) ==
    /\ pump[k] = "unused"
    /\ rooms' = rooms \cup {n}
    /\ seat' = [seat EXCEPT ![n][r] = k]
    /\ closed' = closed \cup ({seat[n][r]} \ {NONE})
    /\ connRoom' = [connRoom EXCEPT ![k] = n]
    /\ connRole' = [connRole EXCEPT ![k] = r]
    /\ pump' = [pump EXCEPT ![k] = IF seat[n][PeerOf(r)] = NONE
                                   THEN "reading" ELSE "paired"]
    /\ UNCHANGED outbox

\* The handler whose Join completed a pair announces it to whoever holds the
\* seats by now, then starts its read pump.
NotifyRoomReady(k) ==
    /\ pump[k] = "paired"
    /\ pump' = [pump EXCEPT ![k] = "reading"]
    /\ outbox' = outbox \cup
         (IF connRoom[k] \in rooms
          THEN {[to |-> p, about |-> k, kind |-> "room_ready"] :
                   p \in {seat[connRoom[k]][r] : r \in SeatRoles} \ {NONE}}
          ELSE {})
    /\ UNCHANGED <<rooms, seat, connRoom, connRole, closed>>

\* The socket of k fails: its peer goes away or the read deadline passes.
SocketFails(k) ==
    /\ pump[k] \in Running
    /\ closed' = closed \cup {k}
    /\ UNCHANGED <<rooms, seat, connRoom, connRole, pump, outbox>>

\* Mutation: the seat is not cleared.
VacatedForgotten(n, r) == seat

\* The seats without the holder of n's seat r.
Vacated(n, r) == [seat EXCEPT ![n][r] = NONE]

\* Mutation: the sweep is left to remove rooms.
WithoutEmptyForgotten(n, peer) == rooms

\* The rooms once n has lost a seat and `peer` holds its other one.
WithoutEmpty(n, peer) == IF peer = NONE THEN rooms \ {n} ELSE rooms

\* The read pump of k ends and vacates the seat of k's role, whoever holds it.
Leave(k) ==
    LET n     == connRoom[k]
        r     == connRole[k]
        peer  == seat[n][PeerOf(r)]
    IN  /\ pump[k] = "reading"
        /\ k \in closed
        /\ pump' = [pump EXCEPT ![k] = "ended"]
        /\ \/ /\ n \notin rooms
              /\ UNCHANGED <<rooms, seat, outbox>>
           \/ /\ n \in rooms
              /\ seat' = Vacated(n, r)
              /\ rooms' = WithoutEmpty(n, peer)
              /\ outbox' = outbox \cup
                   {[to |-> p, about |-> k, kind |-> "peer_disconnected"] :
                       p \in {peer} \ {NONE}}
        /\ UNCHANGED <<connRoom, connRole, closed>>

\* A frame read from k is bound for the connection in the other seat.
Forward(k) ==
    LET peer == seat[connRoom[k]][PeerOf(connRole[k])]
    IN  /\ pump[k] = "reading"
        /\ k \notin closed
        /\ connRoom[k] \in rooms
        /\ peer # NONE
        /\ outbox' = outbox \cup {[to |-> peer, about |-> k, kind |-> "frame"]}
        /\ UNCHANGED <<rooms, seat, connRoom, connRole, pump, closed>>

\* The send after the lock; a closed connection drops it.
Deliver(m) ==
    /\ m \in outbox
    /\ outbox' = outbox \ {m}
    /\ UNCHANGED <<rooms, seat, connRoom, connRole, pump, closed>>

\* The periodic sweep of rooms with two empty seats.
CleanupStaleRooms ==
    /\ \E old \in SUBSET {n \in rooms : seat[n] = EmptySeats} :
          rooms' = rooms \ old
    /\ UNCHANGED <<seat, connRoom, connRole, pump, closed, outbox>>

Next ==
    \/ \E k \in Conns, n \in RoomNames, r \in SeatRoles : Join(k, n, r)
    \/ \E k \in Conns : NotifyRoomReady(k) \/ SocketFails(k) \/ Leave(k) \/ Forward(k)
    \/ \E m \in outbox : Deliver(m)
    \/ CleanupStaleRooms

Spec == Init /\ [][Next]_vars

--------------------------------------------------------------------------------
(* Properties.                                                                *)

\* Nothing outlives the handlers: every seat is held by a connection of that room
\* and role whose read pump still runs, and a room is deleted with its last
\* holder, which leaves nothing for CleanupStaleRooms.
NoDeadSeat ==
    /\ \A n \in RoomNames, r \in SeatRoles :
          LET k == seat[n][r]
          IN  k # NONE => pump[k] \in Running /\ connRoom[k] = n /\ connRole[k] = r
    /\ \A n \in RoomNames : n \in rooms <=> seat[n] # EmptySeats

\* No message crosses rooms, and a frame or departure only ever reaches the
\* other role, never the sender's own successor in its seat.
MessagesStayInRoom ==
    \A m \in outbox :
        /\ connRoom[m.to] = connRoom[m.about]
        /\ m.kind # "room_ready" => connRole[m.to] # connRole[m.about]

\* A connection that has joined and is open keeps its seat: Leave "removes a
\* connection from its room" (hub.go:54), its own.  The code does not ensure it.
OpenConnSeated ==
    \A k \in Conns :
        pump[k] \in Running /\ k \notin closed =>
            seat[connRoom[k]][connRole[k]] = k
================================================================================
