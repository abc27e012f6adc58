---------------------------- MODULE DeviceHubProofs ----------------------------
(******************************************************************************)
(* Theorems about DeviceHub, for every value of its constants.                *)
(*                                                                            *)
(* The inductive invariant is TypeInv /\ SessionInv /\ CapInv: the types, the *)
(* life cycle of sessions and their grace, and the cap on sessions in grace;  *)
(* then RouteInv, relative to it: what sessions, rooms and registrations are  *)
(* routed to.  Each part has a lemma for Init and one for a step, and each    *)
(* invariant is followed by its theorems.                                     *)
(******************************************************************************)
EXTENDS DeviceHub, FiniteSetTheorems, TLAPS

\* What the maps refer to has been made, a device's server for that device.
Created ==
    /\ \A d \in Devices :
          onlineServers[d] # NONE => /\ server[onlineServers[d]] \in ServerRecord
                                     /\ server[onlineServers[d]].device = d
    /\ \A s \in sessions : session[s] \in SessionRecord
    /\ \A r \in rooms : room[r] \in RoomRecord

\* Type correctness, made inductive.
TypeInv == TypeOK /\ Created

\* An object that was never made is not a record of its type.
LEMMA Unmade ==
    /\ NoServer \notin ServerRecord
    /\ NoSession \notin SessionRecord
    /\ NoGuest \notin GuestRecord
    /\ NoRoom \notin RoomRecord
BY HubAssumption DEF NoServer, ServerRecord, NoSession, SessionRecord, NoGuest,
                     GuestRecord, NoRoom, RoomRecord

\* Closing a server (OnlineServer.Close) changes nothing else of it.
LEMMA CloseServer ==
    ASSUME NEW x \in ServerRecord
    PROVE  /\ [x EXCEPT !.closed = TRUE] \in ServerRecord
           /\ [x EXCEPT !.closed = TRUE].device = x.device
           /\ [x EXCEPT !.closed = TRUE].user = x.user
           /\ [x EXCEPT !.closed = TRUE].gen = x.gen
BY DEF ServerRecord

\* Closing a room (markClosed) keeps its device.
LEMMA CloseRoom ==
    ASSUME NEW x \in RoomRecord
    PROVE  /\ [x EXCEPT !.closed = TRUE] \in RoomRecord
           /\ [x EXCEPT !.closed = TRUE].device = x.device
BY DEF RoomRecord

\* Rebinding a room (RebindServer) leaves a room.
LEMMA RebindRecord ==
    ASSUME NEW x \in RoomRecord, NEW w \in Servers, NEW gen \in Nat
    PROVE  [x EXCEPT !.server = w, !.gen = gen] \in RoomRecord
BY DEF RoomRecord

\* The part of TypeOK that marking a session stale can touch.
GraceTypes ==
    /\ sessions \subseteq SessionIDs
    /\ stale \in [SessionIDs -> SUBSET Sides]
    /\ graceGen \in [SessionIDs -> [Sides -> Nat]]
    /\ armed \subseteq SessionIDs \X Sides
    /\ staleSessions \subseteq SessionIDs
    /\ staleBefore \subseteq SessionIDs \X SessionIDs
    /\ teardown \subseteq SessionIDs

\* MarkSideStale preserves those types and only ever removes sessions.
LEMMA MarkTypes ==
    ASSUME GraceTypes, NEW s \in SessionIDs, NEW side \in Sides, NEW silent,
           MarkSideStale(s, side, silent)
    PROVE  GraceTypes' /\ sessions' \subseteq sessions
<1> DEFINE tracked == staleSessions \cup {s}
           before  == SeniorityWith(s)
<1>1. /\ tracked \subseteq SessionIDs
      /\ before \subseteq SessionIDs \X SessionIDs
    BY DEF GraceTypes, SeniorityWith
<1>2. graceGen' \in [SessionIDs -> [Sides -> Nat]]
    BY DEF MarkSideStale, GraceTypes
<1>3. /\ stale' \in [SessionIDs -> SUBSET Sides]
      /\ armed' \subseteq SessionIDs \X Sides
    BY DEF MarkSideStale, GraceTypes
<1>4. /\ sessions' \subseteq sessions
      /\ staleSessions' \subseteq tracked
      /\ staleBefore' \subseteq before
      /\ teardown' \subseteq teardown \cup sessions
    BY DEF MarkSideStale
<1> QED
    BY <1>1, <1>2, <1>3, <1>4 DEF GraceTypes

\* The cleanup of a device's guests and room keeps the types of both.
LEMMA CleanupTypes ==
    ASSUME TypeInv, NEW d \in Devices, CleanupDeviceGuestsAndRooms(d)
    PROVE  /\ guestDevices' \in [ShortIDs -> GuestRecord \cup {NoGuest}]
           /\ rooms' \subseteq RoomIDs
           /\ room' \in [RoomIDs -> RoomRecord \cup {NoRoom}]
           /\ serverRooms' \in [Devices -> RoomIDs \cup {NONE}]
           /\ \A r \in rooms' : room'[r] \in RoomRecord
<1>1. guestDevices' \in [ShortIDs -> GuestRecord \cup {NoGuest}]
    BY DEF CleanupDeviceGuestsAndRooms, TypeInv, TypeOK
<1>2. /\ rooms' \subseteq rooms
      /\ serverRooms' \in [Devices -> RoomIDs \cup {NONE}]
    BY DEF CleanupDeviceGuestsAndRooms, TypeInv, TypeOK
<1>3. ASSUME NEW x \in RoomIDs
      PROVE  /\ room'[x] \in RoomRecord \cup {NoRoom}
             /\ x \in rooms => room'[x] \in RoomRecord
    <2>1. \/ room'[x] = room[x]
          \/ x \in rooms /\ room'[x] = [room[x] EXCEPT !.closed = TRUE]
        BY DEF CleanupDeviceGuestsAndRooms
    <2>2. /\ room[x] \in RoomRecord \cup {NoRoom}
          /\ x \in rooms => room[x] \in RoomRecord
        BY DEF TypeInv, TypeOK, Created
    <2> QED
        BY <2>1, <2>2, CloseRoom
<1>4. room' \in [RoomIDs -> RoomRecord \cup {NoRoom}]
    BY <1>3 DEF CleanupDeviceGuestsAndRooms
<1>5. rooms \subseteq RoomIDs
    BY DEF TypeInv, TypeOK
<1> QED
    BY <1>1, <1>2, <1>3, <1>4, <1>5

\* The empty hub of NewDeviceHub is well typed.
LEMMA TypeInvInit == Init => TypeInv
BY DEF Init, TypeInv, TypeOK, Created, Sides

\* Every operation of the hub keeps the types and makes what it refers to.
LEMMA TypeInvStep == TypeInv /\ [Next]_vars => TypeInv'
<1> SUFFICES ASSUME TypeInv, [Next]_vars PROVE TypeInv'
    OBVIOUS
<1> USE HubAssumption
<1>1. ASSUME NEW w \in Servers, NEW d \in Devices, NEW u \in Users,
             AddServer(w, d, u)
      PROVE  TypeInv'
    <2>1. /\ serverGen' \in Nat
          /\ onlineServers' \in [Devices -> Servers \cup {NONE}]
        BY <1>1 DEF AddServer, TypeInv, TypeOK
    <2>2. /\ server'[w] \in ServerRecord
          /\ server'[w].device = d
        BY <1>1, <2>1 DEF AddServer, ServerRecord
    <2>3. ASSUME NEW x \in Servers, server[x] \in ServerRecord, x # w
          PROVE  server'[x] \in ServerRecord /\ server'[x].device = server[x].device
        <3>1. \/ server'[x] = server[x]
              \/ server'[x] = [server[x] EXCEPT !.closed = TRUE]
            BY <1>1, <2>3 DEF AddServer
        <3> QED
            BY <2>3, <3>1, CloseServer
    <2>4. server' \in [Servers -> ServerRecord \cup {NoServer}]
        <3>1. ASSUME NEW x \in Servers, x # w, server[x] = NoServer
              PROVE  server'[x] = NoServer
            <4>1. x # onlineServers[d]
                BY <3>1, Unmade DEF TypeInv, Created
            <4> QED
                BY <1>1, <3>1, <4>1 DEF AddServer
        <3>2. \A x \in Servers : server'[x] \in ServerRecord \cup {NoServer}
            BY <2>2, <2>3, <3>1 DEF TypeInv, TypeOK
        <3> QED
            BY <1>1, <3>2 DEF AddServer
    <2>5. \A e \in Devices :
             onlineServers'[e] # NONE =>
                /\ server'[onlineServers'[e]] \in ServerRecord
                /\ server'[onlineServers'[e]].device = e
        <3> SUFFICES ASSUME NEW e \in Devices, onlineServers'[e] # NONE
                     PROVE  /\ server'[onlineServers'[e]] \in ServerRecord
                            /\ server'[onlineServers'[e]].device = e
            OBVIOUS
        <3>1. CASE e = d
            BY <1>1, <2>2, <3>1 DEF AddServer, TypeInv, TypeOK
        <3>2. CASE e # d
            <4>1. onlineServers'[e] = onlineServers[e]
                BY <1>1, <3>2 DEF AddServer, TypeInv, TypeOK
            <4>2. /\ onlineServers[e] \in Servers
                  /\ server[onlineServers[e]] \in ServerRecord
                  /\ server[onlineServers[e]].device = e
                BY <4>1 DEF TypeInv, TypeOK, Created
            <4>3. onlineServers[e] # w
                BY <1>1, <4>2, Unmade DEF AddServer
            <4> QED
                BY <2>3, <4>1, <4>2, <4>3
        <3> QED
            BY <3>1, <3>2
    <2>6. ASSUME NEW x \in RoomIDs
          PROVE  /\ room'[x] \in RoomRecord \cup {NoRoom}
                 /\ room[x] \in RoomRecord => room'[x] \in RoomRecord
        <3>1. \/ room'[x] = room[x]
              \/ /\ x \in rooms
                 /\ room'[x] = [room[x] EXCEPT !.server = w, !.gen = serverGen']
            BY <1>1 DEF AddServer, RebindRoom
        <3>2. /\ room[x] \in RoomRecord \cup {NoRoom}
              /\ x \in rooms => room[x] \in RoomRecord
            BY DEF TypeInv, TypeOK, Created
        <3>3. room[x] \in RoomRecord =>
                 [room[x] EXCEPT !.server = w, !.gen = serverGen'] \in RoomRecord
            BY <2>1, RebindRecord
        <3> QED
            BY <3>1, <3>2, <3>3
    <2>7. /\ room' \in [RoomIDs -> RoomRecord \cup {NoRoom}]
          /\ \A r \in rooms' : room'[r] \in RoomRecord
        BY <1>1, <2>6 DEF AddServer, RebindRoom, TypeInv, TypeOK, Created
    <2>8. /\ serverConn' \in [SessionIDs -> Servers \cup {NONE}]
          /\ stale' \in [SessionIDs -> SUBSET Sides]
          /\ armed' \subseteq SessionIDs \X Sides
          /\ staleSessions' \subseteq SessionIDs
          /\ staleBefore' \subseteq SessionIDs \X SessionIDs
        BY <1>1 DEF AddServer, Untrack, TypeInv, TypeOK
    <2> QED
        BY <1>1, <2>1, <2>4, <2>5, <2>7, <2>8
           DEF AddServer, guestVars, TypeInv, TypeOK, Created
<1>2. ASSUME NEW d \in Devices, RemoveServer(d) PROVE TypeInv'
    <2>1. ASSUME NEW x \in Servers
          PROVE  /\ server[x] \in ServerRecord =>
                       /\ server'[x] \in ServerRecord
                       /\ server'[x].device = server[x].device
                 /\ server'[x] \in ServerRecord \cup {NoServer}
        <3>1. \/ server'[x] = server[x]
              \/ /\ x = onlineServers[d]
                 /\ server'[x] = [server[x] EXCEPT !.closed = TRUE]
            BY <1>2 DEF RemoveServer
        <3>2. /\ server[x] \in ServerRecord \cup {NoServer}
              /\ x = onlineServers[d] => server[x] \in ServerRecord
            BY DEF TypeInv, TypeOK, Created
        <3> QED
            BY <3>1, <3>2, CloseServer
    <2>2. server' \in [Servers -> ServerRecord \cup {NoServer}]
        BY <1>2, <2>1 DEF RemoveServer
    <2>3. /\ onlineServers' \in [Devices -> Servers \cup {NONE}]
          /\ \A e \in Devices :
                onlineServers'[e] # NONE =>
                   /\ server'[onlineServers'[e]] \in ServerRecord
                   /\ server'[onlineServers'[e]].device = e
        BY <1>2, <2>1 DEF RemoveServer, TypeInv, TypeOK, Created
    <2>4. GraceTypes' /\ sessions' \subseteq sessions
        BY <1>2 DEF RemoveServer, RemoveCleared, Untrack, SessionsOf,
                    GraceTypes,
                    TypeInv, TypeOK
    <2>5. CleanupDeviceGuestsAndRooms(d)
        BY <1>2 DEF RemoveServer
    <2> QED
        BY <1>2, <2>2, <2>3, <2>4, <2>5, CleanupTypes
           DEF RemoveServer, GraceTypes, TypeInv, TypeOK, Created
<1>3. ASSUME NEW w \in Servers, RemoveServerConn(w) PROVE TypeInv'
    <2> DEFINE d == server[w].device
    <2>1. d \in Devices /\ server[w] \in ServerRecord
        BY <1>3 DEF RemoveServerConn, ServerRecord, TypeInv, TypeOK
    <2>2. ASSUME NEW x \in Servers
          PROVE  /\ server[x] \in ServerRecord =>
                       /\ server'[x] \in ServerRecord
                       /\ server'[x].device = server[x].device
                 /\ server'[x] \in ServerRecord \cup {NoServer}
        <3>1. \/ server'[x] = server[x]
              \/ x = w /\ server'[x] = [server[x] EXCEPT !.closed = TRUE]
            BY <1>3 DEF RemoveServerConn, TypeInv, TypeOK
        <3>2. server[x] \in ServerRecord \cup {NoServer}
            BY DEF TypeInv, TypeOK
        <3> QED
            BY <2>1, <3>1, <3>2, CloseServer
    <2>3. server' \in [Servers -> ServerRecord \cup {NoServer}]
        BY <1>3, <2>2 DEF RemoveServerConn, TypeInv, TypeOK
    <2>4. /\ onlineServers' \in [Devices -> Servers \cup {NONE}]
          /\ \A e \in Devices :
                onlineServers'[e] # NONE =>
                   /\ server'[onlineServers'[e]] \in ServerRecord
                   /\ server'[onlineServers'[e]].device = e
        BY <1>3, <2>1, <2>2 DEF RemoveServerConn, TypeInv, TypeOK, Created
    <2>5. /\ GraceTypes' /\ sessions' \subseteq sessions
          /\ serverConn' \in [SessionIDs -> Servers \cup {NONE}]
        <3>1. GraceTypes /\ serverConn \in [SessionIDs -> Servers \cup {NONE}]
            BY DEF GraceTypes, TypeInv, TypeOK
        <3>2. CASE UNCHANGED <<sessions, serverConn, stale, graceGen, teardown,
                               staleSessions, staleBefore, armed>>
            BY <3>1, <3>2 DEF GraceTypes
        <3>3. ASSUME NEW s \in SessionsOf(d),
                     serverConn' = [serverConn EXCEPT ![s] = NONE],
                     MarkSideStale(s, "server", {})
              PROVE  <2>5
            BY <3>1, <3>3, MarkTypes DEF SessionsOf, Sides, GraceTypes
        <3> QED
            BY <1>3, <3>2, <3>3 DEF RemoveServerConn
    <2>6. /\ CleanupDeviceGuestsAndRooms(d)
          /\ UNCHANGED <<serverGen, session, clientConn, fired, attached>>
        BY <1>3 DEF RemoveServerConn
    <2> HIDE DEF d
    <2> QED
        BY <2>1, <2>3, <2>4, <2>5, <2>6, CleanupTypes
           DEF GraceTypes, TypeInv, TypeOK, Created
<1>4. ASSUME NEW u \in Users, NEW d \in Devices, NEW s \in SessionIDs,
             CreateSession(u, d, s)
      PROVE  TypeInv'
    BY <1>4 DEF TypeInv, TypeOK, Created, CreateSession, NewSession, DeviceBusy,
                SessionRecord, GuestUser, serverVars, graceVars, guestVars,
                roomVars
<1>5. ASSUME NEW g \in ShortIDs, NEW s \in SessionIDs, CreateGuestSession(g, s)
      PROVE  TypeInv'
    BY <1>5 DEF TypeInv, TypeOK, Created, CreateGuestSession, NewSession,
                DeviceBusy, SessionRecord, GuestRecord, GuestUser, serverVars,
                graceVars, guestVars, roomVars
<1>6. ASSUME NEW s \in SessionIDs, NEW c \in Clients, SetSessionClient(s, c)
      PROVE  TypeInv'
    BY <1>6 DEF TypeInv, TypeOK, Created, SetSessionClient, Untrack,
                FreshWithout, serverVars, guestVars, roomVars, Sides
<1>7. ASSUME NEW s \in SessionIDs, NEW c \in Clients, MarkClientStale(s, c)
      PROVE  TypeInv'
    <2>1. GraceTypes' /\ sessions' \subseteq sessions
        BY <1>7, MarkTypes DEF MarkClientStale, GraceTypes, TypeInv, TypeOK,
                               Sides
    <2> QED
        BY <1>7, <2>1 DEF MarkClientStale, GraceTypes, TypeInv, TypeOK, Created,
                          serverVars, guestVars, roomVars
<1>8. ASSUME NEW s \in SessionIDs, RemoveSession(s) PROVE TypeInv'
    BY <1>8 DEF TypeInv, TypeOK, Created, RemoveSession, RemoveCleared, Untrack,
                serverVars, guestVars, roomVars
<1>9. ASSUME NEW s \in SessionIDs, NEW side \in Sides, TimerFires(s, side)
      PROVE  TypeInv'
    BY <1>9 DEF TypeInv, TypeOK, Created, TimerFires, serverVars, sessionVars,
                guestVars, roomVars
<1>10. ASSUME NEW cb \in fired, ExpireGrace(cb[1], cb[2], cb[3]) PROVE TypeInv'
    BY <1>10 DEF TypeInv, TypeOK, Created, ExpireGrace, Untrack, serverVars,
                 guestVars, roomVars
<1>11. ASSUME NEW s \in SessionIDs, Teardown(s) PROVE TypeInv'
    BY <1>11 DEF TypeInv, TypeOK, Created, Teardown, serverVars, sessionVars,
                 graceVars, guestVars, roomVars
<1>12. CASE CleanupStaleSessions
    BY <1>12 DEF TypeInv, TypeOK, Created, CleanupStaleSessions, serverVars,
                 graceVars, guestVars, roomVars
<1>13. ASSUME NEW g \in ShortIDs, NEW u \in Users, NEW d \in Devices,
              RegisterGuestDevice(g, u, d)
       PROVE  TypeInv'
    BY <1>13 DEF TypeInv, TypeOK, Created, RegisterGuestDevice, GuestRecord,
                 serverVars, sessionVars, graceVars, roomVars
<1>14. ASSUME NEW g \in ShortIDs, UnregisterGuestDevice(g) PROVE TypeInv'
    BY <1>14 DEF TypeInv, TypeOK, Created, UnregisterGuestDevice, serverVars,
                 sessionVars, graceVars, roomVars
<1>15. ASSUME NEW d \in Devices, NEW u \in Users, NEW r \in RoomIDs,
              CreateRoom(d, u, r)
       PROVE  TypeInv'
    BY <1>15 DEF TypeInv, TypeOK, Created, CreateRoom, ServerRecord, RoomRecord,
                 serverVars, sessionVars, graceVars, guestVars
<1>16. ASSUME NEW r \in RoomIDs, RemoveRoom(r) PROVE TypeInv'
    <2>1. \A x \in RoomIDs : /\ room'[x] \in RoomRecord \cup {NoRoom}
                             /\ x \in rooms' => room'[x] \in RoomRecord
        BY <1>16, CloseRoom DEF RemoveRoom, TypeInv, TypeOK, Created
    <2>2. room' \in [RoomIDs -> RoomRecord \cup {NoRoom}]
        BY <1>16, <2>1 DEF RemoveRoom, TypeInv, TypeOK
    <2>3. /\ rooms' \subseteq RoomIDs
          /\ serverRooms' \in [Devices -> RoomIDs \cup {NONE}]
        BY <1>16 DEF RemoveRoom, TypeInv, TypeOK
    <2> QED
        BY <1>16, <2>1, <2>2, <2>3
           DEF TypeInv, TypeOK, Created, RemoveRoom, serverVars, sessionVars,
               graceVars, guestVars
<1>17. CASE UNCHANGED vars
    BY <1>17 DEF TypeInv, TypeOK, Created, vars, serverVars, sessionVars,
                 graceVars, guestVars, roomVars
<1> QED
    BY <1>1, <1>2, <1>3, <1>4, <1>5, <1>6, <1>7, <1>8, <1>9, <1>10, <1>11,
       <1>12, <1>13, <1>14, <1>15, <1>16, <1>17
       DEF Next
--------------------------------------------------------------------------------
(* The session life cycle.  The invariants below need one another: the stale  *)
(* set is exact because an unused session has no stale side; a device without *)
(* a server has only sessions in server grace because it has at most one      *)
(* session and no guest registration.                                         *)

\* A session id not yet handed out has no stale side.
UnusedNotStale ==
    \A s \in SessionIDs : session[s] = NoSession => stale[s] = {}

\* Guests are registered only under devices that are online.
GuestsOnline ==
    \A g \in ShortIDs :
        guestDevices[g] # NoGuest => onlineServers[guestDevices[g].device] # NONE

\* A session waiting to be announced has been used and is out of the map.
TeardownUsed ==
    \A s \in teardown : s \notin sessions /\ session[s] # NoSession

\* The session invariants with the facts that make them inductive.
SessionInv ==
    /\ UnusedNotStale
    /\ GuestsOnline
    /\ TeardownUsed
    /\ StaleSetExact
    /\ OneSessionPerDevice
    /\ GraceMatchesPresence
    /\ GraceAlwaysPending

\* What MarkSideStale does to the session variables, whether or not the cap
\* evicts a session: `gone` holds the victim, if there is one.
Marked(s, side, gone) ==
    /\ sessions' = sessions \ gone
    /\ stale' = [x \in SessionIDs |->
                   IF x \in gone THEN {}
                   ELSE IF x = s THEN stale[x] \cup {side} ELSE stale[x]]
    /\ graceGen' = [graceGen EXCEPT ![s][side] = @ + 1]
    /\ armed' = (armed \cup {<<s, side>>}) \ (gone \X Sides)
    /\ staleSessions' = (staleSessions \cup {s}) \ gone
    /\ teardown' \subseteq teardown \cup (gone \cap sessions)

\* markStaleLocked takes one of the two courses Marked describes.
LEMMA MarkEffect ==
    ASSUME TypeInv, NEW s \in SessionIDs, NEW side \in Sides, NEW silent,
           MarkSideStale(s, side, silent)
    PROVE  \E gone \in SUBSET SessionIDs : Marked(s, side, gone)
<1> DEFINE markedOnly ==
               /\ stale' = [stale EXCEPT ![s] = @ \cup {side}]
               /\ armed' = armed \cup {<<s, side>>}
               /\ staleSessions' = staleSessions \cup {s}
               /\ UNCHANGED <<sessions, teardown>>
           evicts(v) ==
               /\ stale' = [x \in SessionIDs |->
                              IF x = v THEN {}
                              ELSE IF x = s THEN stale[x] \cup {side} ELSE stale[x]]
               /\ armed' = (armed \cup {<<s, side>>}) \ ({v} \X Sides)
               /\ staleSessions' = (staleSessions \cup {s}) \ {v}
               /\ sessions' = sessions \ {v}
               /\ teardown' = teardown \cup (({v} \cap sessions) \ silent)
<1>1. graceGen' = [graceGen EXCEPT ![s][side] = @ + 1]
    BY DEF MarkSideStale
<1>2. markedOnly \/ \E v \in staleSessions \cup {s} : evicts(v)
    BY DEF MarkSideStale
<1>3. CASE markedOnly
    <2>1. Marked(s, side, {})
        BY <1>1, <1>3 DEF Marked, TypeInv, TypeOK
    <2> QED
        BY <2>1
<1>4. ASSUME NEW v \in staleSessions \cup {s}, evicts(v)
      PROVE  \E gone \in SUBSET SessionIDs : Marked(s, side, gone)
    <2>1. Marked(s, side, {v})
        BY <1>1, <1>4 DEF Marked
    <2>2. v \in SessionIDs
        BY DEF TypeInv, TypeOK
    <2> QED
        BY <2>1, <2>2
<1> QED
    BY <1>2, <1>3, <1>4

\* The conjuncts that marking keeps whichever side it marks.
LEMMA MarkKeeps ==
    ASSUME TypeInv, SessionInv, session' = session,
           NEW s \in sessions, NEW side \in Sides, NEW gone \in SUBSET SessionIDs,
           Marked(s, side, gone)
    PROVE  UnusedNotStale' /\ TeardownUsed' /\ StaleSetExact' /\ OneSessionPerDevice'
<1>1. session[s] # NoSession /\ s \in SessionIDs
    BY Unmade DEF TypeInv, TypeOK, Created
<1>2. UnusedNotStale'
    BY <1>1 DEF Marked, SessionInv, UnusedNotStale
<1>3. TeardownUsed'
    BY Unmade DEF Marked, SessionInv, TeardownUsed, TypeInv, Created
<1>4. StaleSetExact'
    BY <1>1 DEF Marked, SessionInv, StaleSetExact, TypeInv, TypeOK
<1>5. OneSessionPerDevice'
    BY DEF Marked, SessionInv, OneSessionPerDevice
<1> QED
    BY <1>2, <1>3, <1>4, <1>5

\* Marking starts the side's new timer and leaves the others' running.
LEMMA MarkPending ==
    ASSUME TypeInv, SessionInv, fired' = fired,
           NEW s \in sessions, NEW side \in Sides, NEW gone \in SUBSET SessionIDs,
           Marked(s, side, gone)
    PROVE  GraceAlwaysPending'
<1> SUFFICES ASSUME NEW t \in sessions', NEW e \in stale'[t]
             PROVE  \/ <<t, e>> \in armed'
                    \/ <<t, e, graceGen'[t][e]>> \in fired
    BY DEF GraceAlwaysPending
<1>1. t \in sessions /\ t \notin gone /\ t \in SessionIDs
    BY DEF Marked, TypeInv, TypeOK
<1>2. CASE t = s /\ e = side
    BY <1>1, <1>2 DEF Marked
<1>3. CASE ~(t = s /\ e = side)
    <2>1. e \in stale[t] /\ e \in Sides
        BY <1>1, <1>3 DEF Marked, TypeInv, TypeOK
    <2>2. graceGen'[t][e] = graceGen[t][e]
        BY <1>1, <1>3, <2>1 DEF Marked, TypeInv, TypeOK
    <2>3. <<t, e>> \in armed \/ <<t, e, graceGen[t][e]>> \in fired
        BY <1>1, <2>1 DEF SessionInv, GraceAlwaysPending
    <2> QED
        BY <1>1, <2>2, <2>3 DEF Marked
<1> QED
    BY <1>2, <1>3

\* A hub without sessions satisfies the session invariants.
LEMMA SessionInvInit == Init => SessionInv
BY DEF Init, SessionInv, UnusedNotStale, GuestsOnline, TeardownUsed,
       StaleSetExact, OneSessionPerDevice, GraceMatchesPresence,
       GraceAlwaysPending

\* A step that leaves the sessions and their grace alone keeps the invariants.
LEMMA SessionInvFrame ==
    ASSUME SessionInv, GuestsOnline', teardown' \subseteq teardown,
           UNCHANGED <<onlineServers, sessionVars, graceVars>>
    PROVE  SessionInv'
BY DEF SessionInv, UnusedNotStale, TeardownUsed, StaleSetExact,
       OneSessionPerDevice, GraceMatchesPresence, GraceAlwaysPending,
       sessionVars, graceVars

\* Every operation of the hub keeps the session invariants.
LEMMA SessionInvStep ==
    TypeInv /\ TypeInv' /\ SessionInv /\ [Next]_vars => SessionInv'
<1> SUFFICES ASSUME TypeInv, TypeInv', SessionInv, [Next]_vars
             PROVE  SessionInv'
    OBVIOUS
<1> USE HubAssumption
<1>1. ASSUME NEW w \in Servers, NEW d \in Devices, NEW u \in Users,
             AddServer(w, d, u)
      PROVE  SessionInv'
    <2>1. /\ sessions' = sessions /\ session' = session
          /\ clientConn' = clientConn /\ graceGen' = graceGen
          /\ fired' = fired /\ guestDevices' = guestDevices
          /\ teardown' = teardown
          /\ onlineServers' = [onlineServers EXCEPT ![d] = w]
        BY <1>1 DEF AddServer, guestVars
    <2>2. ASSUME NEW s \in sessions, session[s].device = d
          PROVE  /\ stale'[s] = stale[s] \ {"server"}
                 /\ serverConn'[s] = w
                 /\ <<s, "client">> \in armed => <<s, "client">> \in armed'
                 /\ s \in staleSessions' <=>
                       s \in staleSessions /\ ("server" \in stale[s] =>
                                                  stale[s] \ {"server"} # {})
        BY <1>1, <2>2 DEF AddServer, SessionsOf, Untrack, FreshWithout, TypeInv,
                          TypeOK
    <2>3. ASSUME NEW s \in SessionIDs, ~(s \in sessions /\ session[s].device = d)
          PROVE  /\ stale'[s] = stale[s]
                 /\ serverConn'[s] = serverConn[s]
                 /\ \A side \in Sides : <<s, side>> \in armed =>
                                         <<s, side>> \in armed'
                 /\ s \in staleSessions' <=> s \in staleSessions
        BY <1>1, <2>3 DEF AddServer, SessionsOf, Untrack, FreshWithout, TypeInv,
                          TypeOK
    <2>4. UnusedNotStale' /\ GuestsOnline' /\ TeardownUsed' /\ OneSessionPerDevice'
        BY <2>1, <2>2, <2>3 DEF SessionInv, UnusedNotStale, GuestsOnline,
              TeardownUsed, OneSessionPerDevice, TypeInv, TypeOK, GuestRecord
    <2>5. StaleSetExact'
        <3>1. ASSUME NEW s \in SessionIDs
              PROVE  s \in staleSessions' <=> s \in sessions' /\ stale'[s] # {}
            BY <2>1, <2>2, <2>3 DEF SessionInv, StaleSetExact
        <3> QED
            BY <3>1 DEF StaleSetExact, TypeInv, TypeOK
    <2>6. GraceMatchesPresence'
        <3>1. ASSUME NEW s \in sessions, session[s].device = d
              PROVE  /\ "server" \notin stale'[s]
                     /\ onlineServers'[session[s].device] # NONE
                     /\ serverConn'[s] # NONE
                     /\ "client" \in stale'[s] => clientConn'[s] = NONE
            <4>1. "server" \notin stale'[s] /\ serverConn'[s] = w
                BY <2>2, <3>1
            <4>2. onlineServers'[session[s].device] = w
                BY <2>1, <3>1 DEF TypeInv, TypeOK
            <4>3. "client" \in stale'[s] => clientConn'[s] = NONE
                BY <2>1, <2>2, <3>1 DEF SessionInv, GraceMatchesPresence
            <4> QED
                BY <4>1, <4>2, <4>3
        <3>2. ASSUME NEW s \in sessions, session[s].device # d
              PROVE  /\ stale'[s] = stale[s] /\ serverConn'[s] = serverConn[s]
                     /\ onlineServers'[session[s].device]
                            = onlineServers[session[s].device]
            BY <2>1, <2>3, <3>2 DEF TypeInv, TypeOK, Created, SessionRecord
        <3> QED
            BY <2>1, <3>1, <3>2 DEF SessionInv, GraceMatchesPresence
    <2>7. GraceAlwaysPending'
        <3> SUFFICES ASSUME NEW s \in sessions, NEW side \in stale'[s]
                     PROVE  \/ <<s, side>> \in armed'
                            \/ <<s, side, graceGen[s][side]>> \in fired
            BY <2>1 DEF GraceAlwaysPending
        <3>1. side \in stale[s] /\ side \in Sides
            BY <2>2, <2>3 DEF TypeInv, TypeOK
        <3>2. <<s, side>> \in armed \/ <<s, side, graceGen[s][side]>> \in fired
            BY <3>1 DEF SessionInv, GraceAlwaysPending
        <3>3. CASE session[s].device = d
            <4>1. side = "client"
                BY <2>2, <3>1, <3>3 DEF Sides
            <4> QED
                BY <2>1, <2>2, <3>2, <3>3, <4>1
        <3>4. CASE session[s].device # d
            BY <2>1, <2>3, <3>1, <3>2, <3>4 DEF TypeInv, TypeOK
        <3> QED
            BY <3>3, <3>4
    <2> QED
        BY <2>4, <2>5, <2>6, <2>7 DEF SessionInv
<1>2. ASSUME NEW d \in Devices, RemoveServer(d) PROVE SessionInv'
    <2>1. /\ session' = session /\ graceGen' = graceGen /\ fired' = fired
          /\ serverConn' = serverConn /\ clientConn' = clientConn
          /\ onlineServers' = [onlineServers EXCEPT ![d] = NONE]
          /\ sessions' = sessions \ SessionsOf(d)
          /\ staleSessions' = staleSessions \ SessionsOf(d)
          /\ armed' = armed \ (SessionsOf(d) \X Sides)
          /\ teardown' = teardown \cup SessionsOf(d)
          /\ stale' = [s \in SessionIDs |-> IF s \in SessionsOf(d) THEN {}
                                            ELSE stale[s]]
          /\ guestDevices' = [g \in ShortIDs |->
                                IF guestDevices[g].device = d THEN NoGuest
                                ELSE guestDevices[g]]
        BY <1>2 DEF RemoveServer, RemoveCleared, Untrack,
                    CleanupDeviceGuestsAndRooms
    <2>2. \A s \in sessions' : session[s].device # d /\ s \in sessions
        BY <2>1 DEF SessionsOf
    <2>3. UnusedNotStale' /\ OneSessionPerDevice' /\ StaleSetExact'
        BY <2>1, <2>2 DEF SessionInv, UnusedNotStale, OneSessionPerDevice,
                          StaleSetExact, TypeInv, TypeOK
    <2>4. GuestsOnline'
        BY <2>1 DEF SessionInv, GuestsOnline, TypeInv, TypeOK, GuestRecord
    <2>5. TeardownUsed'
        BY <2>1, Unmade DEF SessionInv, TeardownUsed, SessionsOf, TypeInv,
                            Created
    <2>6. GraceMatchesPresence'
        BY <2>1, <2>2 DEF SessionInv, GraceMatchesPresence, TypeInv, TypeOK
    <2>7. GraceAlwaysPending'
        BY <2>1, <2>2 DEF SessionInv, GraceAlwaysPending, TypeInv, TypeOK
    <2> QED
        BY <2>3, <2>4, <2>5, <2>6, <2>7 DEF SessionInv
<1>3. ASSUME NEW w \in Servers, RemoveServerConn(w) PROVE SessionInv'
    <2> DEFINE d == server[w].device
    <2>1. /\ d \in Devices /\ onlineServers' = [onlineServers EXCEPT ![d] = NONE]
          /\ guestDevices' = [g \in ShortIDs |->
                                IF guestDevices[g].device = d THEN NoGuest
                                ELSE guestDevices[g]]
          /\ UNCHANGED <<session, clientConn, fired>>
        BY <1>3 DEF RemoveServerConn, CleanupDeviceGuestsAndRooms, TypeInv,
                    TypeOK,
                    ServerRecord
    <2>2. GuestsOnline'
        BY <2>1 DEF SessionInv, GuestsOnline, TypeInv, TypeOK, GuestRecord
    <2>3. CASE /\ SessionsOf(d) = {}
               /\ UNCHANGED <<sessions, serverConn, stale, graceGen, teardown,
                              staleSessions, staleBefore, armed>>
        BY <2>1, <2>2, <2>3 DEF SessionsOf, SessionInv, UnusedNotStale,
              TeardownUsed, StaleSetExact, OneSessionPerDevice,
              GraceMatchesPresence, GraceAlwaysPending, TypeInv, TypeOK
    <2>4. ASSUME NEW s \in SessionsOf(d),
                 serverConn' = [serverConn EXCEPT ![s] = NONE],
                 MarkSideStale(s, "server", {})
          PROVE  SessionInv'
        <3>1. s \in SessionIDs /\ s \in sessions /\ session[s].device = d
            BY DEF SessionsOf, TypeInv, TypeOK
        <3>2. PICK gone \in SUBSET SessionIDs : Marked(s, "server", gone)
            BY <2>4, <3>1, MarkEffect DEF Sides
        <3>3. /\ UnusedNotStale' /\ TeardownUsed' /\ StaleSetExact'
              /\ OneSessionPerDevice'
            BY <2>1, <3>1, <3>2, MarkKeeps DEF Sides
        <3>4. GraceMatchesPresence'
            <4>1. \A t \in sessions' : t # s => session[t].device # d
                BY <3>1, <3>2 DEF Marked, SessionInv, OneSessionPerDevice
            <4> QED
                BY <2>1, <2>4, <3>1, <3>2, <4>1
                   DEF Marked, SessionInv, GraceMatchesPresence, TypeInv, TypeOK
        <3>5. GraceAlwaysPending'
            BY <2>1, <3>1, <3>2, MarkPending DEF Sides
        <3> QED
            BY <2>2, <3>3, <3>4, <3>5 DEF SessionInv
    <2> QED
        BY <1>3, <2>3, <2>4 DEF RemoveServerConn
<1>4. ASSUME NEW u \in Users, NEW d \in Devices, NEW s \in SessionIDs,
             CreateSession(u, d, s)
      PROVE  SessionInv'
    BY <1>4 DEF TypeInv, TypeOK, Created, SessionInv, UnusedNotStale,
                GuestsOnline, TeardownUsed, StaleSetExact, OneSessionPerDevice,
                GraceMatchesPresence, GraceAlwaysPending, CreateSession,
                NewSession, DeviceBusy, SessionsOf, serverVars, graceVars,
                guestVars
<1>5. ASSUME NEW g \in ShortIDs, NEW s \in SessionIDs, CreateGuestSession(g, s)
      PROVE  SessionInv'
    <2>1. /\ s \in sessions' /\ sessions' = sessions \cup {s}
          /\ session[s] = NoSession
          /\ session' = [session EXCEPT ![s] = [user |-> GuestUser,
                            owner |-> guestDevices[g].user,
                            device |-> guestDevices[g].device]]
          /\ serverConn' = [serverConn EXCEPT ![s] = guestDevices[g].server]
          /\ guestDevices[g] \in GuestRecord
          /\ SessionsOf(guestDevices[g].device) = {}
          /\ UNCHANGED <<onlineServers, clientConn, stale, graceGen, staleSessions,
                         armed, fired, guestDevices, teardown>>
        BY <1>5 DEF CreateGuestSession, NewSession, DeviceBusy, serverVars,
                    graceVars,
                    guestVars, TypeInv, TypeOK
    <2>2. s \notin sessions /\ stale[s] = {}
        BY <2>1, Unmade DEF SessionInv, UnusedNotStale, TypeInv, Created
    <2>3. /\ session'[s].device = guestDevices[g].device
          /\ session'[s] # NoSession
          /\ \A t \in sessions : session'[t] = session[t]
        BY <2>1, <2>2 DEF TypeInv, TypeOK, NoSession, GuestRecord
    <2>4. /\ UnusedNotStale' /\ GuestsOnline' /\ TeardownUsed' /\ StaleSetExact'
          /\ OneSessionPerDevice' /\ GraceAlwaysPending'
        BY <2>1, <2>2, <2>3 DEF SessionInv, UnusedNotStale, GuestsOnline,
              TeardownUsed, StaleSetExact, OneSessionPerDevice,
              GraceAlwaysPending, SessionsOf, TypeInv, TypeOK
    <2>5. GraceMatchesPresence'
        <3>1. /\ onlineServers[guestDevices[g].device] # NONE
              /\ serverConn'[s] # NONE
            BY <1>5, <2>1 DEF CreateGuestSession, SessionInv, GuestsOnline,
                              TypeInv,
                              TypeOK, GuestRecord
        <3>2. \A t \in sessions : serverConn'[t] = serverConn[t]
            BY <2>1, <2>2 DEF TypeInv, TypeOK
        <3> QED
            BY <2>1, <2>2, <2>3, <3>1, <3>2 DEF SessionInv, GraceMatchesPresence
    <2> QED
        BY <2>4, <2>5 DEF SessionInv
<1>6. ASSUME NEW s \in SessionIDs, NEW c \in Clients, SetSessionClient(s, c)
      PROVE  SessionInv'
    BY <1>6 DEF TypeInv, TypeOK, Created, SessionInv, UnusedNotStale,
                GuestsOnline, TeardownUsed, StaleSetExact, OneSessionPerDevice,
                GraceMatchesPresence, GraceAlwaysPending, SetSessionClient,
                Untrack, FreshWithout, serverVars, guestVars
<1>7. ASSUME NEW s \in SessionIDs, NEW c \in Clients, MarkClientStale(s, c)
      PROVE  SessionInv'
    <2>1. PICK gone \in SUBSET SessionIDs : Marked(s, "client", gone)
        BY <1>7, MarkEffect DEF MarkClientStale, Sides
    <2>2. /\ s \in sessions /\ clientConn' = [clientConn EXCEPT ![s] = NONE]
          /\ UNCHANGED <<onlineServers, session, serverConn, fired, guestDevices>>
        BY <1>7 DEF MarkClientStale, serverVars, guestVars
    <2>3. /\ UnusedNotStale' /\ GuestsOnline' /\ TeardownUsed' /\ StaleSetExact'
          /\ OneSessionPerDevice'
        <3>1. session' = session /\ "client" \in Sides
            BY <2>2 DEF Sides
        <3>2. GuestsOnline'
            BY <2>2 DEF SessionInv, GuestsOnline
        <3> QED
            BY <2>1, <2>2, <3>1, <3>2, MarkKeeps
    <2>4. GraceMatchesPresence'
        BY <2>1, <2>2 DEF Marked, SessionInv, GraceMatchesPresence, TypeInv,
                          TypeOK
    <2>5. GraceAlwaysPending'
        BY <2>1, <2>2, MarkPending DEF Sides
    <2> QED
        BY <2>3, <2>4, <2>5 DEF SessionInv
<1>8. ASSUME NEW s \in SessionIDs, RemoveSession(s) PROVE SessionInv'
    <2>1. /\ sessions' = sessions \ {s} /\ staleSessions' = staleSessions \ {s}
          /\ armed' = armed \ ({s} \X Sides)
          /\ stale' = [x \in SessionIDs |-> IF x \in {s} THEN {} ELSE stale[x]]
          /\ UNCHANGED <<onlineServers, session, serverConn, clientConn, graceGen,
                         fired, guestDevices, teardown>>
        BY <1>8 DEF RemoveSession, RemoveCleared, Untrack, serverVars, guestVars
    <2>2. UnusedNotStale' /\ GuestsOnline' /\ TeardownUsed' /\ OneSessionPerDevice'
        BY <2>1 DEF SessionInv, UnusedNotStale, GuestsOnline, TeardownUsed,
                    OneSessionPerDevice
    <2>3. \A x \in sessions' : x \in sessions /\ stale'[x] = stale[x]
        BY <2>1 DEF TypeInv, TypeOK
    <2>4. StaleSetExact'
        BY <2>1, <2>3 DEF SessionInv, StaleSetExact
    <2>5. GraceMatchesPresence'
        BY <2>1, <2>3 DEF SessionInv, GraceMatchesPresence
    <2>6. GraceAlwaysPending'
        BY <2>1, <2>3 DEF SessionInv, GraceAlwaysPending
    <2> QED
        BY <2>2, <2>4, <2>5, <2>6 DEF SessionInv
<1>9. ASSUME NEW s \in SessionIDs, NEW side \in Sides, TimerFires(s, side)
      PROVE  SessionInv'
    BY <1>9 DEF TypeInv, TypeOK, Created, SessionInv, UnusedNotStale,
                GuestsOnline, TeardownUsed, StaleSetExact, OneSessionPerDevice,
                GraceMatchesPresence, GraceAlwaysPending, TimerFires,
                serverVars, sessionVars, guestVars
<1>10. ASSUME NEW cb \in fired, ExpireGrace(cb[1], cb[2], cb[3])
       PROVE  SessionInv'
    BY <1>10 DEF TypeInv, TypeOK, Created, SessionInv, UnusedNotStale,
                 GuestsOnline, TeardownUsed, StaleSetExact, OneSessionPerDevice,
                 GraceMatchesPresence, GraceAlwaysPending, ExpireGrace, Expired,
                 Untrack, serverVars, guestVars
<1>11. ASSUME NEW s \in SessionIDs, Teardown(s) PROVE SessionInv'
    <2>1. /\ UNCHANGED <<onlineServers, sessionVars, graceVars, guestDevices>>
          /\ teardown' \subseteq teardown
        BY <1>11 DEF Teardown, serverVars, guestVars
    <2>2. GuestsOnline'
        BY <2>1 DEF SessionInv, GuestsOnline
    <2> QED
        BY <2>1, <2>2, SessionInvFrame
<1>12. CASE CleanupStaleSessions
    BY <1>12 DEF TypeInv, TypeOK, Created, SessionInv, UnusedNotStale,
                 GuestsOnline, TeardownUsed, StaleSetExact, OneSessionPerDevice,
                 GraceMatchesPresence, GraceAlwaysPending, CleanupStaleSessions,
                 Abandoned, serverVars, graceVars, guestVars
<1>13. ASSUME NEW g \in ShortIDs, NEW u \in Users, NEW d \in Devices,
              RegisterGuestDevice(g, u, d)
       PROVE  SessionInv'
    <2>1. UNCHANGED <<onlineServers, sessionVars, graceVars, teardown>>
        BY <1>13 DEF RegisterGuestDevice, serverVars
    <2>2. GuestsOnline'
        BY <1>13, <2>1 DEF RegisterGuestDevice, SessionInv, GuestsOnline,
                           TypeInv, TypeOK, NoGuest
    <2> QED
        BY <2>1, <2>2, SessionInvFrame
<1>14. ASSUME NEW g \in ShortIDs, UnregisterGuestDevice(g) PROVE SessionInv'
    <2>1. UNCHANGED <<onlineServers, sessionVars, graceVars, teardown>>
        BY <1>14 DEF UnregisterGuestDevice, serverVars
    <2>2. GuestsOnline'
        BY <1>14, <2>1 DEF UnregisterGuestDevice, SessionInv, GuestsOnline,
                           TypeInv, TypeOK, NoGuest
    <2> QED
        BY <2>1, <2>2, SessionInvFrame
<1>15. ASSUME NEW d \in Devices, NEW u \in Users, NEW r \in RoomIDs,
              CreateRoom(d, u, r)
       PROVE  SessionInv'
    <2>1. UNCHANGED <<onlineServers, sessionVars, graceVars, guestDevices,
                      teardown>>
        BY <1>15 DEF CreateRoom, serverVars, guestVars
    <2>2. GuestsOnline'
        BY <2>1 DEF SessionInv, GuestsOnline
    <2> QED
        BY <2>1, <2>2, SessionInvFrame
<1>16. ASSUME NEW r \in RoomIDs, RemoveRoom(r) PROVE SessionInv'
    <2>1. UNCHANGED <<onlineServers, sessionVars, graceVars, guestDevices,
                      teardown>>
        BY <1>16 DEF RemoveRoom, serverVars, guestVars
    <2>2. GuestsOnline'
        BY <2>1 DEF SessionInv, GuestsOnline
    <2> QED
        BY <2>1, <2>2, SessionInvFrame
<1>17. CASE UNCHANGED vars
    <2>1. /\ UNCHANGED <<onlineServers, sessionVars, graceVars, guestDevices>>
          /\ teardown' \subseteq teardown
        BY <1>17 DEF vars, serverVars, guestVars
    <2>2. GuestsOnline'
        BY <2>1 DEF SessionInv, GuestsOnline
    <2> QED
        BY <2>1, <2>2, SessionInvFrame
<1> QED
    BY <1>1, <1>2, <1>3, <1>4, <1>5, <1>6, <1>7, <1>8, <1>9, <1>10, <1>11,
       <1>12, <1>13, <1>14, <1>15, <1>16, <1>17
       DEF Next

--------------------------------------------------------------------------------
(* The cap.                                                                   *)

\* The cap holds, and the stale set is finite, so that it can be counted.
CapInv ==
    /\ IsFiniteSet(staleSessions)
    /\ Cardinality(staleSessions) <= MaxStaleSessions

\* Removing sessions from a stale set within the cap keeps it within the cap.
LEMMA CapShrinks ==
    ASSUME CapInv, staleSessions' \subseteq staleSessions
    PROVE  CapInv'
<1>1. /\ IsFiniteSet(staleSessions')
      /\ Cardinality(staleSessions') <= Cardinality(staleSessions)
    BY FS_Subset DEF CapInv
<1>2. /\ Cardinality(staleSessions') \in Nat
      /\ Cardinality(staleSessions) \in Nat
    BY <1>1, FS_CardinalityType DEF CapInv
<1> QED
    BY <1>1, <1>2, HubAssumption DEF CapInv

\* Marking adds one session and, when that exceeds the cap, drops one.
LEMMA CapMark ==
    ASSUME CapInv, NEW s, NEW side, NEW silent, MarkSideStale(s, side, silent)
    PROVE  CapInv'
<1> DEFINE tracked == staleSessions \cup {s}
<1>1. /\ IsFiniteSet(tracked)
      /\ Cardinality(tracked) \in Nat
      /\ Cardinality(tracked) <= MaxStaleSessions + 1
    <2>1. /\ IsFiniteSet(tracked)
          /\ Cardinality(tracked) = IF s \in staleSessions
                                    THEN Cardinality(staleSessions)
                                    ELSE Cardinality(staleSessions) + 1
        BY FS_AddElement DEF CapInv
    <2>2. Cardinality(staleSessions) \in Nat
        BY FS_CardinalityType DEF CapInv
    <2> HIDE DEF tracked
    <2> QED
        BY <2>1, <2>2, HubAssumption DEF CapInv
<1>2. CASE staleSessions' = tracked /\ ~OverCap(tracked)
    <2> HIDE DEF tracked
    <2> QED
        BY <1>1, <1>2, HubAssumption DEF CapInv, OverCap
<1>3. ASSUME NEW oldest \in tracked, staleSessions' = tracked \ {oldest}
      PROVE  CapInv'
    <2>1. /\ IsFiniteSet(tracked \ {oldest})
          /\ Cardinality(tracked \ {oldest}) = Cardinality(tracked) - 1
        BY <1>1, FS_RemoveElement
    <2> HIDE DEF tracked
    <2> QED
        BY <1>1, <1>3, <2>1, HubAssumption DEF CapInv
<1> QED
    BY <1>2, <1>3 DEF MarkSideStale

\* Nothing is in grace in an empty hub.
LEMMA CapInvInit == Init => CapInv
BY FS_EmptySet, HubAssumption DEF Init, CapInv

\* Every operation of the hub keeps the cap.
LEMMA CapInvStep == CapInv /\ [Next]_vars => CapInv'
<1> SUFFICES ASSUME CapInv, [Next]_vars PROVE CapInv'
    OBVIOUS
<1>1. ASSUME NEW w \in Servers, RemoveServerConn(w) PROVE CapInv'
    <2>1. CASE staleSessions' = staleSessions
        BY <2>1, CapShrinks
    <2> QED
        BY <1>1, <2>1, CapMark DEF RemoveServerConn
<1>2. ASSUME NEW s \in SessionIDs, NEW c \in Clients, MarkClientStale(s, c)
      PROVE  CapInv'
    BY <1>2, CapMark DEF MarkClientStale
<1>3. CASE staleSessions' \subseteq staleSessions
    BY <1>3, CapShrinks
<1>4. \/ staleSessions' \subseteq staleSessions
      \/ \E w \in Servers : RemoveServerConn(w)
      \/ \E s \in SessionIDs, c \in Clients : MarkClientStale(s, c)
    BY DEF Next, vars, graceVars, AddServer, RemoveServer, RemoveCleared,
           Untrack,
           CreateSession, CreateGuestSession, NewSession, DeviceBusy, SetSessionClient,
           RemoveSession, TimerFires, ExpireGrace, Teardown,
           CleanupStaleSessions, RegisterGuestDevice, UnregisterGuestDevice,
           CreateRoom, RemoveRoom
<1> QED
    BY <1>1, <1>2, <1>3, <1>4

--------------------------------------------------------------------------------
(* The results.                                                               *)

\* The three parts hold in every reachable state.
LEMMA HubInvariant == Spec => [](TypeInv /\ SessionInv /\ CapInv)
<1>1. Init => TypeInv /\ SessionInv /\ CapInv
    BY TypeInvInit, SessionInvInit, CapInvInit
<1>2. TypeInv /\ SessionInv /\ CapInv /\ [Next]_vars
        => (TypeInv /\ SessionInv /\ CapInv)'
    BY TypeInvStep, SessionInvStep, CapInvStep
<1> QED
    BY <1>1, <1>2, PTL DEF Spec

\* Every reachable state of the hub is well typed.
THEOREM TypeCorrect == Spec => []TypeOK
BY HubInvariant, PTL DEF TypeInv

\* The cap on concurrently stale sessions (h.maxStaleSessions) is never
\* exceeded, whatever the number of devices and sessions.
THEOREM CapHolds == Spec => []StaleBounded
BY HubInvariant, PTL DEF CapInv, StaleBounded

\* h.staleSessions holds exactly the live sessions with a side in grace.
THEOREM StaleSetIsExact == Spec => []StaleSetExact
BY HubInvariant, PTL DEF SessionInv

\* A device never serves two sessions, in grace or not.
THEOREM DeviceServesOneSession == Spec => []OneSessionPerDevice
BY HubInvariant, PTL DEF SessionInv

\* A session is in server grace, with no server bound, exactly while its device
\* is offline.
THEOREM GraceFollowsPresence == Spec => []GraceMatchesPresence
BY HubInvariant, PTL DEF SessionInv

\* No stale side is ever without a timer or callback of its own generation, so
\* none is left in grace for ever.
THEOREM GraceIsPending == Spec => []GraceAlwaysPending
BY HubInvariant, PTL DEF SessionInv

\* A torn-down session is out of the map when its peers are told.
THEOREM TeardownAfterRemoval == Spec => []TeardownIsFinal
<1>1. SessionInv => TeardownIsFinal
    BY DEF SessionInv, TeardownUsed, TeardownIsFinal
<1> QED
    BY <1>1, HubInvariant, PTL

\* Only sessions in the map, or ids not yet used, have their connections
\* written.
LEMMA ConnectionWrites ==
    ASSUME TypeInv, [Next]_vars,
           NEW s \in SessionIDs, s \notin sessions, session[s] # NoSession
    PROVE  serverConn'[s] = serverConn[s] /\ clientConn'[s] = clientConn[s]
<1>1. s \in SessionIDs /\ s \notin sessions /\ session[s] # NoSession
    OBVIOUS
<1>2. ASSUME NEW w \in Servers, NEW d \in Devices, NEW u \in Users,
             AddServer(w, d, u)
      PROVE  serverConn'[s] = serverConn[s] /\ clientConn'[s] = clientConn[s]
    BY <1>1, <1>2 DEF AddServer, SessionsOf
<1>3. ASSUME NEW w \in Servers, RemoveServerConn(w)
      PROVE  serverConn'[s] = serverConn[s] /\ clientConn'[s] = clientConn[s]
    BY <1>1, <1>3 DEF RemoveServerConn, SessionsOf, TypeInv, TypeOK
<1>4. ASSUME NEW x \in SessionIDs, NEW u, NEW o, NEW d, NEW w,
             NewSession(x, u, o, d, w)
      PROVE  serverConn'[s] = serverConn[s] /\ clientConn'[s] = clientConn[s]
    BY <1>1, <1>4 DEF NewSession, TypeInv, TypeOK
<1>5. ASSUME NEW x \in SessionIDs, NEW c \in Clients,
             SetSessionClient(x, c) \/ MarkClientStale(x, c)
      PROVE  serverConn'[s] = serverConn[s] /\ clientConn'[s] = clientConn[s]
    BY <1>1, <1>5 DEF SetSessionClient, MarkClientStale, TypeInv, TypeOK
<1>6. CASE UNCHANGED <<serverConn, clientConn>>
    BY <1>6
<1> QED
    BY <1>2, <1>3, <1>4, <1>5, <1>6
       DEF Next, vars, sessionVars, RemoveServer, CreateSession,
           CreateGuestSession, RemoveSession, TimerFires, ExpireGrace, Teardown,
           CleanupStaleSessions, RegisterGuestDevice, UnregisterGuestDevice,
           CreateRoom, RemoveRoom

\* The unlocked reads of teardownSession see the connections the session had
\* when it was removed.
THEOREM TornDownIsFrozen == Spec => TornDownFrozen
<1>1. TypeInv /\ SessionInv /\ [Next]_vars
        => [\A s \in teardown : /\ serverConn'[s] = serverConn[s]
                                /\ clientConn'[s] = clientConn[s]]_vars
    BY ConnectionWrites DEF TypeInv, TypeOK, SessionInv, TeardownUsed
<1> QED
    BY <1>1, HubInvariant, PTL DEF Spec, TornDownFrozen

--------------------------------------------------------------------------------
(* Routes: sessions, rooms and guest registrations follow the registered      *)
(* server of their device.  RouteInv is inductive relative to the invariant   *)
(* above.                                                                     *)

\* No generation has been given out that h.serverGen has not reached, so that
\* RebindServer accepts every new server.
GenBound == \A x \in Servers : server[x].gen <= serverGen

\* The routes, with what makes them inductive.
RouteInv ==
    /\ GenBound
    /\ AuthSessionRoute
    /\ RoomRoute
    /\ GuestRegistrations

--------------------------------------------------------------------------------
(* What a step does to the servers.                                           *)

\* Only three operations change the servers.
LEMMA ServerSteps ==
    ASSUME [Next]_vars
    PROVE  \/ \E w \in Servers, d \in Devices, u \in Users : AddServer(w, d, u)
           \/ \E d \in Devices : RemoveServer(d)
           \/ \E w \in Servers : RemoveServerConn(w)
           \/ UNCHANGED <<onlineServers, server, serverGen>>
BY DEF Next, vars, serverVars, CreateSession, CreateGuestSession, NewSession,
       SetSessionClient, MarkClientStale, RemoveSession, TimerFires, ExpireGrace,
       Teardown, CleanupStaleSessions, RegisterGuestDevice,
       UnregisterGuestDevice, CreateRoom, RemoveRoom

\* All that happens to a server once made is that it is closed.
LEMMA ServerCloses ==
    ASSUME TypeInv, [Next]_vars, NEW x \in Servers, server[x] # NoServer
    PROVE  \/ server'[x] = server[x]
           \/ server'[x] = [server[x] EXCEPT !.closed = TRUE]
<1>1. ASSUME NEW w \in Servers, NEW d \in Devices, NEW u \in Users,
             AddServer(w, d, u)
      PROVE  \/ server'[x] = server[x]
             \/ server'[x] = [server[x] EXCEPT !.closed = TRUE]
    BY <1>1 DEF AddServer
<1>2. ASSUME NEW d \in Devices, RemoveServer(d)
      PROVE  \/ server'[x] = server[x]
             \/ server'[x] = [server[x] EXCEPT !.closed = TRUE]
    BY <1>2 DEF RemoveServer
<1>3. ASSUME NEW w \in Servers, RemoveServerConn(w)
      PROVE  \/ server'[x] = server[x]
             \/ server'[x] = [server[x] EXCEPT !.closed = TRUE]
    BY <1>3 DEF RemoveServerConn, TypeInv, TypeOK
<1> QED
    BY <1>1, <1>2, <1>3, ServerSteps

\* It keeps the device, user and generation AddServer gave it.
LEMMA ServerFixed ==
    ASSUME TypeInv, [Next]_vars, NEW x \in Servers, server[x] # NoServer
    PROVE  /\ server'[x].device = server[x].device
           /\ server'[x].user = server[x].user
           /\ server'[x].gen = server[x].gen
<1>1. server[x] \in ServerRecord
    BY DEF TypeInv, TypeOK
<1> QED
    BY <1>1, ServerCloses, CloseServer

\* A server that has not been made is made by AddServer or not at all.
LEMMA ServerMade ==
    ASSUME TypeInv, [Next]_vars, NEW x \in Servers, server[x] = NoServer
    PROVE  \/ server'[x] = NoServer
           \/ server'[x].gen = serverGen'
<1>1. \A d \in Devices : onlineServers[d] # x
    BY Unmade, HubAssumption DEF TypeInv, TypeOK, Created
<1>2. ASSUME NEW w \in Servers, NEW d \in Devices, NEW u \in Users,
             AddServer(w, d, u)
      PROVE  \/ server'[x] = NoServer
             \/ server'[x].gen = serverGen'
    BY <1>1, <1>2 DEF AddServer
<1>3. ASSUME NEW d \in Devices, RemoveServer(d)
      PROVE  server'[x] = NoServer
    BY <1>1, <1>3 DEF RemoveServer
<1>4. ASSUME NEW w \in Servers, RemoveServerConn(w)
      PROVE  server'[x] = NoServer
    BY <1>4 DEF RemoveServerConn, TypeInv, TypeOK
<1> QED
    BY <1>2, <1>3, <1>4, ServerSteps

\* Generations are given out in order.
LEMMA GenBoundStep ==
    ASSUME TypeInv, TypeInv', GenBound, [Next]_vars
    PROVE  GenBound'
<1>1. serverGen \in Nat /\ serverGen' \in Nat /\ serverGen <= serverGen'
    <2>1. serverGen' = serverGen \/ serverGen' = serverGen + 1
        BY ServerSteps DEF AddServer, RemoveServer, RemoveServerConn
    <2> QED
        BY <2>1 DEF TypeInv, TypeOK
<1>2. ASSUME NEW x \in Servers
      PROVE  server'[x].gen <= serverGen'
    <2>1. CASE server[x] # NoServer
        <3>1. server'[x].gen = server[x].gen /\ server[x].gen \in Nat
            BY <2>1, ServerFixed DEF TypeInv, TypeOK, ServerRecord
        <3> QED
            BY <1>1, <3>1 DEF GenBound
    <2>2. CASE server[x] = NoServer
        <3>1. CASE server'[x] = NoServer
            BY <1>1, <3>1 DEF NoServer
        <3>2. CASE server'[x].gen = serverGen'
            BY <1>1, <3>2
        <3> QED
            BY <2>2, <3>1, <3>2, ServerMade
    <2> QED
        BY <2>1, <2>2
<1> QED
    BY <1>2 DEF GenBound

--------------------------------------------------------------------------------
(* Guest registrations.                                                       *)

\* Every operation keeps a registration with a server of its own device; that
\* the device is online is GuestsOnline, part of SessionInv.
LEMMA GuestRegistrationsStep ==
    ASSUME TypeInv, SessionInv', GuestRegistrations, [Next]_vars
    PROVE  GuestRegistrations'
<1> SUFFICES ASSUME NEW g \in ShortIDs, guestDevices'[g] # NoGuest
             PROVE  server'[guestDevices'[g].server].device
                      = guestDevices'[g].device
    BY DEF GuestRegistrations, SessionInv, GuestsOnline
<1>1. CASE guestDevices'[g] = guestDevices[g]
    <2>1. /\ guestDevices[g] \in GuestRecord
          /\ server[guestDevices[g].server].device = guestDevices[g].device
        BY <1>1 DEF GuestRegistrations, TypeInv, TypeOK
    <2>2. /\ guestDevices[g].server \in Servers
          /\ server[guestDevices[g].server] # NoServer
        BY <2>1, HubAssumption DEF GuestRecord, NoServer
    <2> QED
        BY <1>1, <2>1, <2>2, ServerFixed
<1>2. ASSUME NEW u \in Users, NEW d \in Devices, RegisterGuestDevice(g, u, d)
      PROVE  server'[guestDevices'[g].server].device = guestDevices'[g].device
    BY <1>2 DEF RegisterGuestDevice, serverVars, TypeInv, TypeOK, Created
<1>3. \/ guestDevices'[g] = guestDevices[g]
      \/ \E u \in Users, d \in Devices : RegisterGuestDevice(g, u, d)
    <2>1. ASSUME NEW h \in ShortIDs, NEW u \in Users, NEW d \in Devices,
                 RegisterGuestDevice(h, u, d), h # g
          PROVE  guestDevices'[g] = guestDevices[g]
        BY <2>1 DEF RegisterGuestDevice, TypeInv, TypeOK
    <2>2. ASSUME NEW h \in ShortIDs, UnregisterGuestDevice(h)
          PROVE  guestDevices'[g] = guestDevices[g]
        BY <2>2 DEF UnregisterGuestDevice, TypeInv, TypeOK
    <2>3. ASSUME NEW d \in Devices, CleanupDeviceGuestsAndRooms(d)
          PROVE  guestDevices'[g] = guestDevices[g]
        BY <2>3 DEF CleanupDeviceGuestsAndRooms
    <2>4. \/ UNCHANGED guestDevices
          \/ \E h \in ShortIDs, u \in Users, d \in Devices :
                RegisterGuestDevice(h, u, d)
          \/ \E h \in ShortIDs : UnregisterGuestDevice(h)
          \/ \E d \in Devices : CleanupDeviceGuestsAndRooms(d)
        <3>1. ASSUME NEW w \in Servers, RemoveServerConn(w)
              PROVE  \E d \in Devices : CleanupDeviceGuestsAndRooms(d)
            BY <3>1 DEF RemoveServerConn, TypeInv, TypeOK, ServerRecord
        <3> QED
            BY <3>1 DEF Next, vars, guestVars, AddServer, RemoveServer,
                   CreateSession, CreateGuestSession, NewSession,
                   SetSessionClient, MarkClientStale, RemoveSession, TimerFires,
                   ExpireGrace, Teardown, CleanupStaleSessions, CreateRoom,
                   RemoveRoom
    <2> QED
        BY <2>1, <2>2, <2>3, <2>4
<1> QED
    BY <1>1, <1>2, <1>3

--------------------------------------------------------------------------------
(* Authenticated sessions.                                                    *)

\* What a route of session s rests on: all but its owner's server.
Untouched(s) ==
    /\ s \in sessions
    /\ session'[s] = session[s]
    /\ serverConn'[s] = serverConn[s]
    /\ "server" \notin stale'[s] => "server" \notin stale[s]
    /\ onlineServers'[session[s].device] = onlineServers[session[s].device]

\* The route of one session.
RouteOf(s) ==
    session[s].user # GuestUser /\ "server" \notin stale[s] =>
        /\ serverConn[s] = onlineServers[session[s].device]
        /\ server[serverConn[s]].user = session[s].owner

\* A session the step does not touch keeps its route.
LEMMA RouteKept ==
    ASSUME TypeInv, SessionInv, [Next]_vars, NEW s, Untouched(s), RouteOf(s)
    PROVE  RouteOf(s)'
<1> SUFFICES ASSUME session'[s].user # GuestUser, "server" \notin stale'[s]
             PROVE  /\ serverConn'[s] = onlineServers'[session'[s].device]
                    /\ server'[serverConn'[s]].user = session'[s].owner
    BY DEF RouteOf
<1>1. /\ serverConn[s] = onlineServers[session[s].device]
      /\ server[serverConn[s]].user = session[s].owner
      /\ session[s].device \in Devices
      /\ onlineServers[session[s].device] # NONE
    BY DEF Untouched, RouteOf, SessionInv, GraceMatchesPresence, TypeInv,
           Created, SessionRecord
<1>2. serverConn[s] \in Servers /\ server[serverConn[s]] # NoServer
    BY <1>1, Unmade DEF TypeInv, TypeOK, Created
<1> QED
    BY <1>1, <1>2, ServerFixed DEF Untouched

\* AddServer rebinds the sessions of its device and touches no other.
LEMMA RouteAddServer ==
    ASSUME TypeInv, SessionInv, AuthSessionRoute, [Next]_vars,
           NEW w \in Servers, NEW d \in Devices, NEW u \in Users,
           AddServer(w, d, u), NEW s \in sessions'
    PROVE  RouteOf(s)'
<1>1. s \in sessions /\ s \in SessionIDs /\ session' = session
    BY DEF AddServer, TypeInv, TypeOK
<1>2. CASE session[s].device = d
    <2>1. serverConn'[s] = w /\ onlineServers'[d] = w
        BY <1>1, <1>2 DEF AddServer, SessionsOf, TypeInv, TypeOK
    <2>2. server'[w].user = u /\ session[s].owner = u
        BY <1>1, <1>2 DEF AddServer, MayRegister, SessionsOf
    <2> QED
        BY <1>1, <1>2, <2>1, <2>2 DEF RouteOf
<1>3. CASE session[s].device # d
    <2>1. Untouched(s)
        BY <1>1, <1>3 DEF Untouched, AddServer, SessionsOf, TypeInv, TypeOK
    <2> QED
        BY <1>1, <2>1, RouteKept DEF AuthSessionRoute, RouteOf
<1> QED
    BY <1>2, <1>3

\* A server that goes leaves its device's session, if it stays, in grace.
LEMMA RouteRemoveServerConn ==
    ASSUME TypeInv, SessionInv, SessionInv', AuthSessionRoute, [Next]_vars,
           NEW w \in Servers, RemoveServerConn(w), NEW s \in sessions'
    PROVE  RouteOf(s)'
<1> DEFINE d == server[w].device
<1>1. d \in Devices /\ session' = session /\ onlineServers'[d] = NONE
    BY DEF RemoveServerConn, TypeInv, TypeOK, ServerRecord
<1>2. CASE session[s].device = d
    BY <1>1, <1>2 DEF SessionInv, GraceMatchesPresence, RouteOf
<1>3. CASE session[s].device # d
    <2>1. /\ s \in sessions
          /\ serverConn'[s] = serverConn[s]
          /\ stale'[s] = stale[s]
        <3>1. CASE UNCHANGED <<sessions, serverConn, stale>>
            BY <3>1
        <3>2. ASSUME NEW x \in SessionsOf(d), MarkSideStale(x, "server", {}),
                     serverConn' = [serverConn EXCEPT ![x] = NONE]
              PROVE  <2>1
            <4>1. PICK gone \in SUBSET SessionIDs : Marked(x, "server", gone)
                BY <3>2, MarkEffect DEF Sides, SessionsOf, TypeInv, TypeOK
            <4>2. s # x
                BY <1>3, <3>2 DEF SessionsOf
            <4> QED
                BY <3>2, <4>1, <4>2 DEF Marked, TypeInv, TypeOK
        <3> QED
            BY <3>1, <3>2 DEF RemoveServerConn
    <2>2. Untouched(s)
        BY <1>1, <1>3, <2>1 DEF Untouched, RemoveServerConn, TypeInv, TypeOK
    <2> QED
        BY <2>1, <2>2, RouteKept DEF AuthSessionRoute, RouteOf
<1> HIDE DEF d
<1> QED
    BY <1>2, <1>3

\* Every operation keeps authenticated sessions routed.
LEMMA AuthSessionRouteStep ==
    ASSUME TypeInv, SessionInv, SessionInv', AuthSessionRoute, [Next]_vars
    PROVE  AuthSessionRoute'
<1> SUFFICES ASSUME NEW s \in sessions' PROVE RouteOf(s)'
    BY DEF AuthSessionRoute, RouteOf
<1>1. CASE Untouched(s)
    BY <1>1, RouteKept DEF AuthSessionRoute, RouteOf, Untouched
<1>2. ASSUME NEW d \in Devices, RemoveServer(d) PROVE Untouched(s)
    BY <1>2 DEF RemoveServer, RemoveCleared, Untrack, SessionsOf, Untouched,
                TypeInv, TypeOK
<1>3. ASSUME NEW u \in Users, NEW d \in Devices, NEW x \in SessionIDs,
             CreateSession(u, d, x)
      PROVE  RouteOf(s)'
    <2>1. CASE s = x
        BY <1>3, <2>1 DEF CreateSession, NewSession, serverVars, RouteOf,
                          TypeInv, TypeOK
    <2>2. CASE s # x
        <3>1. Untouched(s)
            BY <1>3, <2>2 DEF CreateSession, NewSession, serverVars, Untouched,
                              TypeInv, TypeOK
        <3> QED
            BY <1>1, <3>1
    <2> QED
        BY <2>1, <2>2
<1>4. ASSUME NEW g \in ShortIDs, NEW x \in SessionIDs,
             CreateGuestSession(g, x)
      PROVE  RouteOf(s)'
    <2>1. CASE s = x
        BY <1>4, <2>1 DEF CreateGuestSession, NewSession, RouteOf, TypeInv,
                          TypeOK
    <2>2. CASE s # x
        <3>1. Untouched(s)
            BY <1>4, <2>2 DEF CreateGuestSession, NewSession, serverVars,
                              Untouched, TypeInv, TypeOK
        <3> QED
            BY <1>1, <3>1
    <2> QED
        BY <2>1, <2>2
<1>5. ASSUME NEW x \in SessionIDs, NEW c \in Clients, SetSessionClient(x, c)
      PROVE  Untouched(s)
    BY <1>5 DEF SetSessionClient, serverVars, Untouched, TypeInv, TypeOK
<1>6. ASSUME NEW x \in SessionIDs, NEW c \in Clients, MarkClientStale(x, c)
      PROVE  Untouched(s)
    <2>1. PICK gone \in SUBSET SessionIDs : Marked(x, "client", gone)
        BY <1>6, MarkEffect DEF MarkClientStale, Sides
    <2> QED
        BY <1>6, <2>1 DEF MarkClientStale, Marked, serverVars, Untouched,
                          TypeInv, TypeOK
<1>7. ASSUME NEW x \in SessionIDs, RemoveSession(x) PROVE Untouched(s)
    BY <1>7 DEF RemoveSession, RemoveCleared, serverVars, Untouched, TypeInv,
                TypeOK
<1>8. ASSUME sessions' \subseteq sessions,
             UNCHANGED <<session, serverConn, stale, onlineServers>>
      PROVE  Untouched(s)
    BY <1>8 DEF Untouched
<1>9. ASSUME NEW cb \in fired, ExpireGrace(cb[1], cb[2], cb[3])
      PROVE  Untouched(s)
    BY <1>8, <1>9 DEF ExpireGrace, serverVars
<1>10. CASE \/ CleanupStaleSessions
            \/ UNCHANGED <<serverVars, sessionVars>>
    BY <1>1, <1>8, <1>10 DEF CleanupStaleSessions, serverVars, sessionVars
<1> QED
    BY <1>1, <1>2, <1>3, <1>4, <1>5, <1>6, <1>7, <1>9, <1>10, RouteAddServer,
       RouteRemoveServerConn
       DEF Next, vars, TimerFires, Teardown, RegisterGuestDevice,
           UnregisterGuestDevice, CreateRoom, RemoveRoom

--------------------------------------------------------------------------------
(* Rooms.                                                                     *)

\* The route of one room.
RoomRouteOf(r) ==
    LET w == onlineServers[room[r].device]
    IN  /\ serverRooms[room[r].device] = r
        /\ w # NONE
        /\ ~room[r].closed
        /\ room[r].server = w
        /\ room[r].gen = server[w].gen
        /\ room[r].owner = server[w].user

\* The index of rooms by device points into the map.
RoomIndex ==
    \A d \in Devices :
        serverRooms[d] # NONE =>
            serverRooms[d] \in rooms /\ room[serverRooms[d]].device = d

\* RoomRoute is the two together.
LEMMA RoomRouteParts ==
    RoomRoute <=> (\A r \in rooms : RoomRouteOf(r)) /\ RoomIndex
BY DEF RoomRoute, RoomRouteOf, RoomIndex

\* A room the step leaves alone, with its device's server, keeps its route.
LEMMA RoomKept ==
    ASSUME TypeInv, [Next]_vars, NEW r \in rooms, RoomRouteOf(r),
           room'[r] = room[r],
           serverRooms'[room[r].device] = serverRooms[room[r].device],
           onlineServers'[room[r].device] = onlineServers[room[r].device]
    PROVE  RoomRouteOf(r)'
<1> DEFINE w == onlineServers[room[r].device]
<1>1. room[r].device \in Devices
    BY DEF TypeInv, Created, RoomRecord
<1>2. w \in Servers /\ server[w] # NoServer
    BY <1>1, Unmade DEF RoomRouteOf, TypeInv, TypeOK, Created
<1>3. server'[w].gen = server[w].gen /\ server'[w].user = server[w].user
    BY <1>2, ServerFixed
<1> QED
    BY <1>3 DEF RoomRouteOf

\* AddServer moves the route of its device's room, and no other.
LEMMA RoomAddServer ==
    ASSUME TypeInv, GenBound, RoomRoute, [Next]_vars,
           NEW w \in Servers, NEW d \in Devices, NEW u \in Users,
           AddServer(w, d, u)
    PROVE  RoomRoute'
<1>1. /\ rooms' = rooms /\ serverRooms' = serverRooms
      /\ rooms \subseteq RoomIDs
      /\ RebindRoom(serverRooms[d], w, serverGen + 1)
    BY DEF AddServer, TypeInv, TypeOK
<1>2. ASSUME NEW r \in rooms
      PROVE  room'[r].device = room[r].device /\ RoomRouteOf(r)'
    <2>1. /\ RoomRouteOf(r) /\ RoomIndex
          /\ room[r] \in RoomRecord /\ r \in RoomIDs
        BY <1>1, RoomRouteParts DEF TypeInv, Created
    <2>2. CASE room[r].device = d
        <3>1. /\ onlineServers[d] \in Servers
              /\ room[r].gen = server[onlineServers[d]].gen
              /\ ~room[r].closed /\ serverRooms[d] = r
            BY <2>1, <2>2 DEF RoomRouteOf, TypeInv, TypeOK
        <3>2. serverGen + 1 > room[r].gen
            <4>1. room[r].gen \in Nat /\ serverGen \in Nat
                BY <2>1 DEF RoomRecord, TypeInv, TypeOK
            <4> QED
                BY <3>1, <4>1 DEF GenBound
        <3>3. room'[r] = [room[r] EXCEPT !.server = w, !.gen = serverGen + 1]
            BY <1>1, <2>1, <3>1, <3>2 DEF RebindRoom
        <3>4. /\ room'[r].device = d /\ room'[r].server = w
              /\ room'[r].gen = serverGen + 1
              /\ room'[r].owner = room[r].owner
              /\ ~room'[r].closed
            BY <2>1, <2>2, <3>1, <3>3 DEF RoomRecord
        <3>5. /\ onlineServers'[d] = w /\ w # NONE
              /\ server'[w].gen = serverGen + 1 /\ server'[w].user = u
              /\ room[r].owner = u
            BY <3>1, HubAssumption DEF AddServer, MayRegister, TypeInv, TypeOK
        <3> QED
            BY <1>1, <2>2, <3>1, <3>4, <3>5 DEF RoomRouteOf
    <2>3. CASE room[r].device # d
        <3>1. serverRooms[d] # r
            BY <1>1, <2>1, <2>3, HubAssumption DEF RoomIndex
        <3>2. room'[r] = room[r]
            BY <1>1, <2>1, <3>1 DEF RebindRoom
        <3>3. onlineServers'[room[r].device] = onlineServers[room[r].device]
            BY <2>1, <2>3 DEF AddServer, TypeInv, TypeOK, RoomRecord
        <3> QED
            BY <1>1, <2>1, <3>2, <3>3, RoomKept
    <2> QED
        BY <2>2, <2>3
<1>3. RoomIndex'
    BY <1>1, <1>2, RoomRouteParts DEF RoomIndex
<1> QED
    BY <1>1, <1>2, <1>3, RoomRouteParts DEF RoomRoute, RoomRouteOf, RoomIndex

\* The room of a device goes with its server, and no other.
LEMMA RoomCleanup ==
    ASSUME TypeInv, RoomRoute, [Next]_vars, NEW d \in Devices,
           CleanupDeviceGuestsAndRooms(d),
           onlineServers' = [onlineServers EXCEPT ![d] = NONE]
    PROVE  RoomRoute'
<1>1. /\ \A r \in rooms : RoomRouteOf(r)
      /\ RoomIndex
      /\ rooms \subseteq RoomIDs
      /\ NONE \notin RoomIDs
    BY RoomRouteParts, HubAssumption DEF TypeInv, TypeOK
<1>2. /\ rooms' = rooms \ {serverRooms[d]}
      /\ \A r \in rooms' : room'[r] = room[r]
      /\ serverRooms' = [serverRooms EXCEPT ![d] = NONE]
    BY <1>1 DEF CleanupDeviceGuestsAndRooms
<1>3. ASSUME NEW r \in rooms' PROVE RoomRouteOf(r)'
    <2>1. r \in rooms /\ room[r].device # d /\ room[r].device \in Devices
        BY <1>1, <1>2 DEF RoomRouteOf, TypeInv, Created, RoomRecord
    <2>2. /\ serverRooms'[room[r].device] = serverRooms[room[r].device]
          /\ onlineServers'[room[r].device] = onlineServers[room[r].device]
        BY <1>2, <2>1 DEF TypeInv, TypeOK
    <2> QED
        BY <1>1, <1>2, <2>1, <2>2, RoomKept
<1>4. ASSUME NEW e \in Devices, serverRooms'[e] # NONE
      PROVE  serverRooms'[e] \in rooms' /\ room'[serverRooms'[e]].device = e
    <2>1. e # d /\ serverRooms'[e] = serverRooms[e]
        BY <1>2, <1>4 DEF TypeInv, TypeOK
    <2>2. serverRooms[e] \in rooms /\ room[serverRooms[e]].device = e
        BY <1>1, <1>4, <2>1 DEF RoomIndex
    <2>3. serverRooms[e] # serverRooms[d]
        BY <1>1, <2>1, <2>2 DEF RoomIndex
    <2> QED
        BY <1>2, <2>1, <2>2, <2>3
<1> QED
    BY <1>3, <1>4 DEF RoomRoute, RoomRouteOf

\* A room is created for an online device that has none.
LEMMA RoomCreate ==
    ASSUME TypeInv, RoomRoute, [Next]_vars, NEW d \in Devices, NEW u \in Users,
           NEW n \in RoomIDs, CreateRoom(d, u, n)
    PROVE  RoomRoute'
<1>1. /\ \A r \in rooms : RoomRouteOf(r)
      /\ RoomIndex
      /\ n \notin rooms
    BY RoomRouteParts, Unmade DEF TypeInv, Created, CreateRoom
<1>2. /\ rooms' = rooms \cup {n}
      /\ serverRooms' = [serverRooms EXCEPT ![d] = n]
      /\ \A r \in rooms : room'[r] = room[r]
      /\ UNCHANGED <<onlineServers, server>>
      /\ room'[n] = [device |-> d, owner |-> u, server |-> onlineServers[d],
                     gen |-> server[onlineServers[d]].gen, closed |-> FALSE]
    BY <1>1 DEF CreateRoom, serverVars, TypeInv, TypeOK
<1>3. RoomRouteOf(n)'
    BY <1>2 DEF CreateRoom, RoomRouteOf, TypeInv, TypeOK
<1>4. ASSUME NEW r \in rooms PROVE RoomRouteOf(r)'
    <2>1. room[r].device # d
        BY <1>1, HubAssumption DEF RoomRouteOf, CreateRoom, TypeInv, TypeOK
    <2>2. serverRooms'[room[r].device] = serverRooms[room[r].device]
        BY <1>2, <2>1 DEF TypeInv, TypeOK, Created, RoomRecord
    <2> QED
        BY <1>1, <1>2, <2>2, RoomKept
<1>5. RoomIndex'
    BY <1>1, <1>2 DEF RoomIndex, TypeInv, TypeOK
<1> QED
    BY <1>2, <1>3, <1>4, <1>5 DEF RoomRoute, RoomRouteOf, RoomIndex

\* A room that is removed leaves its device's entry of the index.
LEMMA RoomRemove ==
    ASSUME TypeInv, RoomRoute, [Next]_vars, NEW n \in RoomIDs, RemoveRoom(n)
    PROVE  RoomRoute'
<1>1. /\ \A r \in rooms : RoomRouteOf(r)
      /\ RoomIndex
      /\ n \in rooms
    BY RoomRouteParts DEF RemoveRoom
<1>2. /\ rooms' = rooms \ {n}
      /\ serverRooms' = [serverRooms EXCEPT ![room[n].device] = NONE]
      /\ \A r \in rooms' : room'[r] = room[r]
      /\ UNCHANGED onlineServers
    BY DEF RemoveRoom, serverVars, TypeInv, TypeOK
<1>3. ASSUME NEW r \in rooms' PROVE RoomRouteOf(r)'
    <2>1. r \in rooms /\ r # n /\ room[r].device # room[n].device
        BY <1>1, <1>2 DEF RoomRouteOf
    <2>2. serverRooms'[room[r].device] = serverRooms[room[r].device]
        BY <1>2, <2>1 DEF TypeInv, TypeOK, Created, RoomRecord
    <2> QED
        BY <1>1, <1>2, <2>1, <2>2, RoomKept
<1>4. RoomIndex'
    BY <1>1, <1>2 DEF RoomIndex, RoomRouteOf, TypeInv, TypeOK
<1> QED
    BY <1>3, <1>4 DEF RoomRoute, RoomRouteOf, RoomIndex

\* Every operation keeps rooms routed.
LEMMA RoomRouteStep ==
    ASSUME TypeInv, GenBound, RoomRoute, [Next]_vars
    PROVE  RoomRoute'
<1>1. ASSUME NEW d \in Devices, RemoveServer(d) PROVE RoomRoute'
    BY <1>1, RoomCleanup DEF RemoveServer
<1>2. ASSUME NEW w \in Servers, RemoveServerConn(w) PROVE RoomRoute'
    <2>1. server[w].device \in Devices
        BY <1>2 DEF RemoveServerConn, TypeInv, TypeOK, ServerRecord
    <2> QED
        BY <1>2, <2>1, RoomCleanup DEF RemoveServerConn
<1>3. CASE UNCHANGED <<serverVars, roomVars>>
    BY <1>3 DEF serverVars, roomVars, RoomRoute
<1> QED
    BY <1>1, <1>2, <1>3, RoomAddServer, RoomCreate, RoomRemove
       DEF Next, vars, CreateSession, CreateGuestSession, NewSession,
           SetSessionClient, MarkClientStale, RemoveSession, TimerFires,
           ExpireGrace, Teardown, CleanupStaleSessions, RegisterGuestDevice,
           UnregisterGuestDevice

--------------------------------------------------------------------------------
(* The results.                                                               *)

\* Nothing is routed in an empty hub.
LEMMA RouteInvInit == Init => RouteInv
BY DEF Init, RouteInv, GenBound, NoServer, AuthSessionRoute, RoomRoute,
       GuestRegistrations

\* The routes hold in every reachable state.
LEMMA RouteInvariant == Spec => []RouteInv
<1>1. TypeInv /\ TypeInv' /\ SessionInv /\ SessionInv' /\ RouteInv /\ [Next]_vars
        => RouteInv'
    BY GenBoundStep, AuthSessionRouteStep, RoomRouteStep, GuestRegistrationsStep
       DEF RouteInv
<1> QED
    BY <1>1, RouteInvInit, HubInvariant, PTL DEF Spec

\* An authenticated session whose server side is not in grace is routed to its
\* device's registered server, and its owner operates that server.
THEOREM AuthSessionsRouted == Spec => []AuthSessionRoute
BY RouteInvariant, PTL DEF RouteInv

\* A room in the map is open and routes to the registered server of its device,
\* with that server's generation; no room outlives its server.
THEOREM RoomsRouted == Spec => []RoomRoute
BY RouteInvariant, PTL DEF RouteInv

\* A guest registration is of an online device, under a server of that device.
THEOREM RegistrationsValid == Spec => []GuestRegistrations
BY RouteInvariant, PTL DEF RouteInv
================================================================================
