----------------------------- MODULE LegacyHubProofs -----------------------------
(******************************************************************************)
(* Theorems about LegacyHub, for every set of rooms and connections: no seat  *)
(* and no room outlives its handlers, and no message crosses rooms or reaches *)
(* the sender's own role.                                                     *)
(******************************************************************************)
EXTENDS LegacyHub, TLAPS

\* Who has called Join has a room and a role, and keeps them.
Joined == {k \in Conns : pump[k] # "unused"}

JoinedKnow ==
    \A k \in Joined : connRoom[k] \in RoomNames /\ connRole[k] \in SeatRoles

\* A message under way is from one that has joined to another.
MailJoined == \A m \in outbox : m.to \in Joined /\ m.about \in Joined

\* A successor that a handler of the past unseats is covered by NoDeadSeat:
\* its seat is empty, not held by a dead connection.
LegacyInv ==
    /\ TypeOK
    /\ JoinedKnow
    /\ MailJoined
    /\ NoDeadSeat
    /\ MessagesStayInRoom

--------------------------------------------------------------------------------
(* Seats.                                                                     *)

\* The two roles are each other's peers.
LEMMA Peers ==
    ASSUME NEW r \in SeatRoles
    PROVE  /\ PeerOf(r) \in SeatRoles
           /\ PeerOf(r) # r
           /\ \A x \in SeatRoles : x = r \/ x = PeerOf(r)
    BY DEF PeerOf, SeatRoles

\* A room is empty when both seats are.
LEMMA Empty ==
    ASSUME NEW s \in [SeatRoles -> Conns \cup {NONE}], NEW r \in SeatRoles
    PROVE  s = EmptySeats <=> s[r] = NONE /\ s[PeerOf(r)] = NONE
<1>1. s = EmptySeats <=> \A x \in SeatRoles : s[x] = NONE
    BY DEF EmptySeats
<1> QED
    BY <1>1, Peers

--------------------------------------------------------------------------------
(* One lemma for each operation that changes a seat or sends.                 *)

\* Join seats a running handler, whomever it replaces.
LEMMA LegacyJoin ==
    ASSUME LegacyInv, NEW k \in Conns, NEW n \in RoomNames, NEW r \in SeatRoles,
           Join(k, n, r)
    PROVE  LegacyInv'
<1>1. /\ seat \in [RoomNames -> [SeatRoles -> Conns \cup {NONE}]]
      /\ connRoom \in [Conns -> RoomNames \cup {NONE}]
      /\ connRole \in [Conns -> SeatRoles \cup {NONE}]
      /\ pump \in [Conns -> {"unused", "ended"} \cup Running]
    BY DEF LegacyInv, TypeOK
<1>2. /\ pump[k] = "unused" /\ rooms' = rooms \cup {n}
      /\ connRoom' = [connRoom EXCEPT ![k] = n]
      /\ connRole' = [connRole EXCEPT ![k] = r]
      /\ outbox' = outbox
      /\ pump'[k] \in Running /\ pump' \in [Conns -> {"unused", "ended"} \cup Running]
      /\ \A j \in Conns \ {k} : pump'[j] = pump[j]
    BY <1>1 DEF Join, Running
<1>3. /\ seat' \in [RoomNames -> [SeatRoles -> Conns \cup {NONE}]]
      /\ seat'[n][r] = k
      /\ \A m \in RoomNames, x \in SeatRoles :
            ~(m = n /\ x = r) => seat'[m][x] = seat[m][x]
    BY <1>1 DEF Join
<1>4. k # NONE
    BY LegacyAssumption DEF LegacyAssumption
<1>5. TypeOK'
    BY <1>1, <1>2, <1>3 DEF LegacyInv, TypeOK, Join
<1>6. JoinedKnow' /\ MailJoined' /\ MessagesStayInRoom'
    BY <1>1, <1>2 DEF LegacyInv, TypeOK, Outgoing, JoinedKnow, MailJoined,
                      MessagesStayInRoom, Joined, Running
<1>7. ASSUME NEW m \in RoomNames, NEW x \in SeatRoles, seat'[m][x] # NONE
      PROVE  /\ pump'[seat'[m][x]] \in Running
             /\ connRoom'[seat'[m][x]] = m /\ connRole'[seat'[m][x]] = x
  <2>1. CASE m = n /\ x = r
      BY <1>1, <1>2, <1>3, <2>1
  <2>2. CASE ~(m = n /\ x = r)
    <3>1. /\ seat'[m][x] = seat[m][x] /\ seat[m][x] \in Conns
          /\ pump[seat[m][x]] \in Running
          /\ connRoom[seat[m][x]] = m /\ connRole[seat[m][x]] = x
        BY <1>1, <1>3, <1>7, <2>2 DEF LegacyInv, NoDeadSeat
    <3>2. seat[m][x] # k
        BY <1>2, <3>1 DEF Running
    <3> QED
        BY <1>1, <1>2, <3>1, <3>2
  <2> QED
      BY <2>1, <2>2
<1>8. ASSUME NEW m \in RoomNames
      PROVE  m \in rooms' <=> seat'[m] # EmptySeats
  <2>1. CASE m = n
      BY <1>2, <1>3, <1>4, <2>1, Empty
  <2>2. CASE m # n
    <3>1. seat'[m] = seat[m]
        BY <1>1, <2>2 DEF Join
    <3> QED
        BY <1>2, <2>2, <3>1 DEF LegacyInv, NoDeadSeat
  <2> QED
      BY <2>1, <2>2
<1> QED
    BY <1>5, <1>6, <1>7, <1>8 DEF LegacyInv, NoDeadSeat

\* m is from k to a seat of k's room, to the one across unless it is room_ready.
FromRoom(k, m) ==
    /\ m \in Outgoing
    /\ m.about = k
    /\ \E x \in SeatRoles :
          /\ m.to = seat[connRoom[k]][x]
          /\ m.kind # "room_ready" => x = PeerOf(connRole[k])

\* The messages a step adds are between connections of one room.
LEMMA LegacySends ==
    ASSUME LegacyInv, NEW k \in Conns, pump[k] \in Running,
           \A m \in outbox' : m \in outbox \/ FromRoom(k, m),
           UNCHANGED <<connRoom, connRole>>,
           \A j \in Conns : pump[j] # "unused" => pump'[j] # "unused"
    PROVE  outbox' \subseteq Outgoing /\ MailJoined' /\ MessagesStayInRoom'
<1>1. k \in Joined /\ connRoom[k] \in RoomNames /\ connRole[k] \in SeatRoles
    BY DEF LegacyInv, JoinedKnow, Joined, Running
<1>2. ASSUME NEW m, FromRoom(k, m)
      PROVE  /\ m.to \in Joined /\ m.about = k /\ connRoom[m.to] = connRoom[k]
             /\ m.kind # "room_ready" => connRole[m.to] # connRole[k]
  <2>1. PICK x \in SeatRoles : /\ m.to = seat[connRoom[k]][x]
                               /\ m.kind # "room_ready" => x = PeerOf(connRole[k])
      BY <1>2 DEF FromRoom
  <2>2. m.to \in Conns /\ m.to # NONE
      BY <1>2, LegacyAssumption DEF FromRoom, Outgoing, LegacyAssumption
  <2>3. pump[m.to] \in Running /\ connRoom[m.to] = connRoom[k] /\ connRole[m.to] = x
      BY <1>1, <2>1, <2>2 DEF LegacyInv, NoDeadSeat
  <2> QED
      BY <1>1, <1>2, <2>1, <2>2, <2>3, Peers DEF Joined, Running, FromRoom
<1>3. outbox' \subseteq Outgoing
    BY DEF LegacyInv, TypeOK, FromRoom
<1>4. MailJoined'
    BY <1>1, <1>2 DEF LegacyInv, MailJoined, Joined
<1>5. MessagesStayInRoom'
    BY <1>2 DEF LegacyInv, MessagesStayInRoom
<1> QED
    BY <1>3, <1>4, <1>5

\* NotifyRoomReady writes to the two seats of one room.
LEMMA LegacyNotify ==
    ASSUME LegacyInv, NEW k \in Conns, NotifyRoomReady(k)
    PROVE  LegacyInv'
<1>1. /\ pump[k] = "paired" /\ pump' = [pump EXCEPT ![k] = "reading"]
      /\ UNCHANGED <<rooms, seat, connRoom, connRole, closed>>
    BY DEF NotifyRoomReady
<1>2. pump \in [Conns -> {"unused", "ended"} \cup Running]
    BY DEF LegacyInv, TypeOK
<1>3. connRoom[k] \in RoomNames
    BY <1>1 DEF LegacyInv, JoinedKnow, Joined
<1>4. \A m \in outbox' : m \in outbox \/ FromRoom(k, m)
  <2> SUFFICES ASSUME NEW r \in SeatRoles, seat[connRoom[k]][r] # NONE
               PROVE  FromRoom(k, [to |-> seat[connRoom[k]][r], about |-> k,
                                   kind |-> "room_ready"])
      BY DEF NotifyRoomReady
  <2>1. seat[connRoom[k]][r] \in Conns
      BY <1>3 DEF LegacyInv, TypeOK
  <2> QED
      BY <2>1 DEF FromRoom, Outgoing
<1>5. outbox' \subseteq Outgoing /\ MailJoined' /\ MessagesStayInRoom'
  <2>1. pump[k] \in Running /\ \A j \in Conns : pump[j] # "unused" => pump'[j] # "unused"
      BY <1>1, <1>2 DEF Running
  <2> QED
      BY <1>1, <1>4, <2>1, LegacySends
<1>6. TypeOK' /\ JoinedKnow' /\ NoDeadSeat'
    BY <1>1, <1>2, <1>5 DEF LegacyInv, TypeOK, JoinedKnow, Joined, NoDeadSeat, Running
<1> QED
    BY <1>5, <1>6 DEF LegacyInv

\* Forward writes to the other seat of the sender's room.
LEMMA LegacyForward ==
    ASSUME LegacyInv, NEW k \in Conns, Forward(k)
    PROVE  LegacyInv'
<1> DEFINE peer == seat[connRoom[k]][PeerOf(connRole[k])]
<1>1. /\ pump[k] \in Running /\ peer # NONE
      /\ UNCHANGED <<rooms, seat, connRoom, connRole, pump, closed>>
      /\ outbox' = outbox \cup {[to |-> peer, about |-> k, kind |-> "frame"]}
    BY DEF Forward, Running
<1>2. PeerOf(connRole[k]) \in SeatRoles /\ peer \in Conns
    BY <1>1 DEF PeerOf, SeatRoles, LegacyInv, TypeOK, JoinedKnow, Joined, Running
<1>3. FromRoom(k, [to |-> peer, about |-> k, kind |-> "frame"])
    BY <1>2 DEF FromRoom, Outgoing
<1>4. outbox' \subseteq Outgoing /\ MailJoined' /\ MessagesStayInRoom'
    BY <1>1, <1>3, LegacySends
<1>5. TypeOK' /\ JoinedKnow' /\ NoDeadSeat'
    BY <1>1, <1>4 DEF LegacyInv, TypeOK, JoinedKnow, Joined, NoDeadSeat
<1> QED
    BY <1>4, <1>5 DEF LegacyInv

\* Leave vacates the seat of its role and drops a room that is empty.
LEMMA LegacyLeave ==
    ASSUME LegacyInv, NEW k \in Conns, Leave(k)
    PROVE  LegacyInv'
<1> DEFINE n    == connRoom[k]
           r    == connRole[k]
           peer == seat[n][PeerOf(r)]
<1>1. /\ pump[k] = "reading" /\ pump' = [pump EXCEPT ![k] = "ended"]
      /\ UNCHANGED <<connRoom, connRole, closed>>
      /\ pump \in [Conns -> {"unused", "ended"} \cup Running]
      /\ seat \in [RoomNames -> [SeatRoles -> Conns \cup {NONE}]]
    BY DEF Leave, LegacyInv, TypeOK
<1>2. n \in RoomNames /\ r \in SeatRoles /\ PeerOf(r) \in SeatRoles
    BY <1>1, Peers DEF LegacyInv, JoinedKnow, Joined
<1>3. JoinedKnow'
    BY <1>1 DEF LegacyInv, JoinedKnow, Joined
<1>4. \A j \in Conns : pump[j] # "unused" => pump'[j] # "unused"
    BY <1>1
\* k is in no seat once it has left.
<1>5. ASSUME seat'[n][r] = NONE,
             \A m \in RoomNames, x \in SeatRoles : seat'[m][x] \in {NONE, seat[m][x]},
             NEW m \in RoomNames, NEW x \in SeatRoles, seat'[m][x] # NONE
      PROVE  /\ pump'[seat'[m][x]] \in Running
             /\ connRoom'[seat'[m][x]] = m /\ connRole'[seat'[m][x]] = x
  <2>1. /\ seat'[m][x] = seat[m][x] /\ seat[m][x] \in Conns
        /\ pump[seat[m][x]] \in Running
        /\ connRoom[seat[m][x]] = m /\ connRole[seat[m][x]] = x
      BY <1>1, <1>5 DEF LegacyInv, NoDeadSeat
  <2>2. seat[m][x] # k
      BY <1>5, <2>1
  <2> QED
      BY <1>1, <2>1, <2>2
<1>6. CASE n \notin rooms /\ UNCHANGED <<rooms, seat, outbox>>
  <2>1. seat[n][r] = NONE
      BY <1>1, <1>2, <1>6, Empty DEF LegacyInv, NoDeadSeat
  <2>2. NoDeadSeat'
      BY <1>5, <1>6, <2>1 DEF LegacyInv, NoDeadSeat
  <2>3. TypeOK' /\ MailJoined' /\ MessagesStayInRoom'
      BY <1>1, <1>4, <1>6
      DEF LegacyInv, TypeOK, MailJoined, Joined, MessagesStayInRoom, Outgoing
  <2> QED
      BY <1>3, <2>2, <2>3 DEF LegacyInv
<1>7. CASE /\ n \in rooms
           /\ seat' = Vacated(n, r)
           /\ rooms' = WithoutEmpty(n, peer)
           /\ outbox' = outbox \cup
                {[to |-> p, about |-> k, kind |-> "peer_disconnected"] :
                    p \in {peer} \ {NONE}}
  <2>1. outbox' \subseteq Outgoing /\ MailJoined' /\ MessagesStayInRoom'
    <3>1. ASSUME peer # NONE
          PROVE  FromRoom(k, [to |-> peer, about |-> k, kind |-> "peer_disconnected"])
      <4>1. peer \in Conns
          BY <1>1, <1>2, <3>1
      <4> QED
          BY <1>2, <4>1 DEF FromRoom, Outgoing
    <3>2. \A m \in outbox' : m \in outbox \/ FromRoom(k, m)
        BY <1>7, <3>1
    <3>3. pump[k] \in Running
        BY <1>1 DEF Running
    <3> QED
        BY <1>1, <1>4, <3>2, <3>3, LegacySends
  <2>2. /\ seat' \in [RoomNames -> [SeatRoles -> Conns \cup {NONE}]]
        /\ seat'[n][r] = NONE /\ seat'[n][PeerOf(r)] = peer
        /\ \A m \in RoomNames, x \in SeatRoles : seat'[m][x] \in {NONE, seat[m][x]}
        /\ \A m \in RoomNames \ {n} : seat'[m] = seat[m]
      BY <1>1, <1>2, <1>7, Peers DEF Vacated
  <2>3. TypeOK'
      BY <1>1, <1>7, <2>1, <2>2 DEF LegacyInv, TypeOK, WithoutEmpty
  <2>4. ASSUME NEW m \in RoomNames
        PROVE  m \in rooms' <=> seat'[m] # EmptySeats
    <3>1. CASE m = n
      <4>1. seat'[n] = EmptySeats <=> peer = NONE
          BY <1>2, <2>2, Empty
      <4> QED
          BY <1>7, <3>1, <4>1 DEF WithoutEmpty
    <3>2. CASE m # n
        BY <1>7, <2>2, <3>2 DEF LegacyInv, NoDeadSeat, WithoutEmpty
    <3> QED
        BY <3>1, <3>2
  <2>5. NoDeadSeat'
      BY <1>5, <2>2, <2>4 DEF NoDeadSeat
  <2> QED
      BY <1>3, <2>1, <2>3, <2>5 DEF LegacyInv
<1> QED
    BY <1>6, <1>7 DEF Leave

\* The sweep finds nothing to remove.
LEMMA LegacyOther ==
    ASSUME LegacyInv,
           \/ \E k \in Conns : SocketFails(k)
           \/ \E m \in outbox : Deliver(m)
           \/ CleanupStaleRooms
           \/ UNCHANGED vars
    PROVE  LegacyInv'
<1>1. UNCHANGED <<seat, connRoom, connRole, pump>> /\ outbox' \subseteq outbox
    BY DEF SocketFails, Deliver, CleanupStaleRooms, vars
<1>2. rooms' = rooms
  <2>1. CASE CleanupStaleRooms
    <3>1. {x \in rooms : seat[x] = EmptySeats} = {}
        BY DEF LegacyInv, NoDeadSeat, TypeOK
    <3> QED
        BY <2>1, <3>1 DEF CleanupStaleRooms
  <2> QED
      BY <2>1 DEF SocketFails, Deliver, vars
<1>3. closed' \subseteq Conns
    BY DEF SocketFails, Deliver, CleanupStaleRooms, vars, LegacyInv, TypeOK
<1> QED
    BY <1>1, <1>2, <1>3 DEF LegacyInv, TypeOK, JoinedKnow, Joined, MailJoined, NoDeadSeat,
                            MessagesStayInRoom

\* The invariant holds in every reachable state.
LEMMA LegacyInvariant == Spec => []LegacyInv
<1>1. Init => LegacyInv
  <2> SUFFICES ASSUME Init PROVE LegacyInv
      OBVIOUS
  <2>1. TypeOK /\ JoinedKnow /\ MailJoined /\ MessagesStayInRoom
      BY DEF Init, TypeOK, JoinedKnow, Joined, MailJoined, MessagesStayInRoom, EmptySeats
  <2>2. NoDeadSeat
      BY DEF Init, NoDeadSeat, EmptySeats
  <2> QED
      BY <2>1, <2>2 DEF LegacyInv
<1>2. LegacyInv /\ [Next]_vars => LegacyInv'
    BY LegacyJoin, LegacyNotify, LegacyForward, LegacyLeave, LegacyOther DEF Next
<1> QED
    BY <1>1, <1>2, PTL DEF Spec

--------------------------------------------------------------------------------
(* The results.                                                               *)

\* Whatever order joins, replacements, failures and Leaves take, every seat of
\* hub.go is held by a running handler of that room and role, and h.rooms has
\* exactly the rooms with a holder.
THEOREM NoSeatOutlivesItsHandler == Spec => []NoDeadSeat
BY LegacyInvariant, PTL DEF LegacyInv

\* Forward, Leave and NotifyRoomReady never send across rooms, and never tell a
\* role of its own frames or departures.
THEOREM NoMessageCrossesRooms == Spec => []MessagesStayInRoom
BY LegacyInvariant, PTL DEF LegacyInv
================================================================================
