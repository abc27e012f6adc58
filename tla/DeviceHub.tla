------------------------------- MODULE DeviceHub -------------------------------
(******************************************************************************)
(* The in-memory registry of the relay: internal/relay/device_hub.go and      *)
(* internal/relay/session_grace.go.                                           *)
(*                                                                            *)
(* Every exported operation of DeviceHub runs one critical section of h.mu,   *)
(* and each is one action here.  Whatever an operation does after releasing   *)
(* the lock is an action of its own: the peer_disconnected messages of        *)
(* teardownSession (Teardown), and the two steps of a grace timer, which the  *)
(* Go runtime runs in a goroutine of its own: the timer fires (TimerFires)    *)
(* and, any time later, its callback obtains h.mu (ExpireGrace).              *)
(*                                                                            *)
(* A call the code rejects (ErrNotOwner, ErrServerOffline, ErrServerBusy,     *)
(* ErrShortIDConflict, ErrRoomAlreadyExists, ok = false) changes nothing in   *)
(* the hub and is a stuttering step.                                          *)
(******************************************************************************)
EXTENDS Naturals, FiniteSets

CONSTANTS
    Devices,            \* device ids
    Users,              \* JWT users
    Servers,            \* *OnlineServer objects, one for each accepted socket
    Clients,            \* *Connection objects of session clients
    SessionIDs,         \* ids generateSessionID may return; never repeated
    ShortIDs,           \* ids under which guest devices register
    RoomIDs,            \* *Room objects, one for each CreateRoom
    MaxStaleSessions,   \* h.maxStaleSessions
    NONE                \* nil

GuestUser == "guest"
Sides == {"client", "server"}

ASSUME HubAssumption ==
    /\ MaxStaleSessions \in Nat \ {0}
    /\ NONE \notin Devices \cup Users \cup Servers \cup Clients \cup RoomIDs
    /\ GuestUser \notin Users

VARIABLES
    onlineServers,  \* deviceID -> the registered server, or NONE
    server,         \* the OnlineServer objects; closed is its done channel
    serverGen,      \* h.serverGen
    sessions,       \* the keys of h.sessions
    session,        \* the Session objects: fields fixed at creation
    serverConn,     \* sess.ServerConn
    clientConn,     \* sess.ClientConn
    stale,          \* the sides whose clientStale / serverStale flag is set
    graceGen,       \* clientGraceGen and serverGraceGen
    staleSessions,  \* the keys of h.staleSessions
    staleBefore,    \* <<s, t>>: the stale-at time of s is before that of t
    armed,          \* <<s, side>>: the grace timer is running
    fired,          \* <<s, side, gen>>: its callback is waiting for h.mu
    guestDevices,   \* shortID -> registration
    rooms,          \* the keys of h.rooms
    room,           \* the Room objects: what the hub sees of them
    serverRooms,    \* deviceID -> its room, or NONE
    attached,       \* connections whose handler called SetSessionClient
    teardown        \* removed sessions whose teardownSession has yet to run

serverVars  == <<onlineServers, server, serverGen>>
sessionVars == <<sessions, session, serverConn, clientConn, stale, graceGen>>
graceVars   == <<staleSessions, staleBefore, armed, fired>>
guestVars   == <<guestDevices>>
roomVars    == <<rooms, room, serverRooms>>
vars == <<serverVars, sessionVars, graceVars, guestVars, roomVars,
          attached, teardown>>

NoServer  == [device |-> NONE, user |-> NONE, gen |-> 0, closed |-> FALSE]
NoSession == [user |-> NONE, owner |-> NONE, device |-> NONE]
NoGuest   == [user |-> NONE, device |-> NONE, server |-> NONE]
NoRoom    == [device |-> NONE, owner |-> NONE, server |-> NONE, gen |-> 0,
              closed |-> FALSE]

ServerRecord  == [device: Devices, user: Users, gen: Nat, closed: BOOLEAN]
SessionRecord == [user: Users \cup {GuestUser}, owner: Users, device: Devices]
GuestRecord   == [user: Users, device: Devices, server: Servers]
RoomRecord    == [device: Devices, owner: Users, server: Servers, gen: Nat,
                  closed: BOOLEAN]

TypeOK ==
    /\ onlineServers \in [Devices -> Servers \cup {NONE}]
    /\ server \in [Servers -> ServerRecord \cup {NoServer}]
    /\ serverGen \in Nat
    /\ sessions \subseteq SessionIDs
    /\ session \in [SessionIDs -> SessionRecord \cup {NoSession}]
    /\ serverConn \in [SessionIDs -> Servers \cup {NONE}]
    /\ clientConn \in [SessionIDs -> Clients \cup {NONE}]
    /\ stale \in [SessionIDs -> SUBSET Sides]
    /\ graceGen \in [SessionIDs -> [Sides -> Nat]]
    /\ staleSessions \subseteq SessionIDs
    /\ staleBefore \subseteq SessionIDs \X SessionIDs
    /\ armed \subseteq SessionIDs \X Sides
    /\ fired \subseteq SessionIDs \X Sides \X Nat
    /\ guestDevices \in [ShortIDs -> GuestRecord \cup {NoGuest}]
    /\ rooms \subseteq RoomIDs
    /\ room \in [RoomIDs -> RoomRecord \cup {NoRoom}]
    /\ serverRooms \in [Devices -> RoomIDs \cup {NONE}]
    /\ attached \subseteq Clients
    /\ teardown \subseteq SessionIDs

Init ==
    /\ onlineServers = [d \in Devices |-> NONE]
    /\ server = [w \in Servers |-> NoServer]
    /\ serverGen = 0
    /\ sessions = {}
    /\ session = [s \in SessionIDs |-> NoSession]
    /\ serverConn = [s \in SessionIDs |-> NONE]
    /\ clientConn = [s \in SessionIDs |-> NONE]
    /\ stale = [s \in SessionIDs |-> {}]
    /\ graceGen = [s \in SessionIDs |-> [side \in Sides |-> 0]]
    /\ staleSessions = {}
    /\ staleBefore = {}
    /\ armed = {}
    /\ fired = {}
    /\ guestDevices = [g \in ShortIDs |-> NoGuest]
    /\ rooms = {}
    /\ room = [r \in RoomIDs |-> NoRoom]
    /\ serverRooms = [d \in Devices |-> NONE]
    /\ attached = {}
    /\ teardown = {}

SessionsOf(d) == {s \in sessions : session[s].device = d}

--------------------------------------------------------------------------------
(* The stale set and its cap.                                                 *)

\* Mutation: a session that leaves or resumes is not deleted from the set.
UntrackForgotten(S) == UNCHANGED <<staleSessions, staleBefore>>

\* Sessions S leave h.staleSessions, and the age relation with them.
Untrack(S) ==
    /\ staleSessions' = staleSessions \ S
    /\ staleBefore' = {p \in staleBefore : p[1] \notin S /\ p[2] \notin S}

\* The sessions of S none of whose sides is stale once `side` is not.
FreshWithout(S, side) == {s \in S : stale[s] \ {side} = {}}

\* Mutation: the second side to drop stamps the session anew.
SeniorityRestamped(s) ==
    {p \in staleBefore : p[1] # s /\ p[2] # s}
        \cup ((staleSessions \ {s}) \X {s})

\* Mutation: the session that has just dropped is taken for the oldest.
SeniorityNewest(s) ==
    IF s \in staleSessions THEN staleBefore
    ELSE staleBefore \cup ({s} \X staleSessions)

\* The stale-at times once s is in the set: a session already there keeps its
\* own, whichever side drops second.
SeniorityWith(s) ==
    IF s \in staleSessions THEN staleBefore
    ELSE staleBefore \cup (staleSessions \X {s})

\* Mutation: the cap is compared before the session is counted.
OverCapUncounted(tracked) == Cardinality(staleSessions) > MaxStaleSessions

\* The stale set no longer fits the cap.
OverCap(tracked) == Cardinality(tracked) > MaxStaleSessions

\* A side of s goes stale: flag, new timer generation, (re)started timer, and
\* markStaleLocked, which evicts the longest-stale session of the whole hub
\* when the cap is exceeded.  The caller announces the victim unless it is in
\* `silent`.  Two readings of the clock under h.mu are taken to be distinct.
MarkSideStale(s, side, silent) ==
    LET tracked == staleSessions \cup {s}
        before  == SeniorityWith(s)
    IN  /\ graceGen' = [graceGen EXCEPT ![s][side] = @ + 1]
        /\ \/ /\ ~OverCap(tracked)
              /\ stale' = [stale EXCEPT ![s] = @ \cup {side}]
              /\ armed' = armed \cup {<<s, side>>}
              /\ staleSessions' = tracked
              /\ staleBefore' = before
              /\ UNCHANGED <<sessions, teardown>>
           \/ /\ OverCap(tracked)
              /\ \E oldest \in tracked :
                    /\ \A t \in tracked \ {oldest} : <<oldest, t>> \in before
                    /\ stale' = [x \in SessionIDs |->
                                   IF x = oldest THEN {}
                                   ELSE IF x = s THEN stale[x] \cup {side}
                                   ELSE stale[x]]
                    /\ armed' = (armed \cup {<<s, side>>}) \ ({oldest} \X Sides)
                    /\ staleSessions' = tracked \ {oldest}
                    /\ staleBefore' = {p \in before : /\ p[1] # oldest
                                                      /\ p[2] # oldest}
                    /\ sessions' = sessions \ {oldest}
                    /\ teardown' = teardown
                                     \cup (({oldest} \cap sessions) \ silent)

\* Sessions S leave the hub with both timers stopped and both flags cleared
\* (clearGraceLocked).
RemoveCleared(S) ==
    /\ sessions' = sessions \ S
    /\ stale' = [s \in SessionIDs |-> IF s \in S THEN {} ELSE stale[s]]
    /\ armed' = armed \ (S \X Sides)
    /\ Untrack(S)

\* Mutation: only the room goes.
CleanupDeviceRoomOnly(d) ==
    LET r == serverRooms[d]
    IN  /\ room' = [x \in RoomIDs |->
                      IF x = r /\ r \in rooms
                      THEN [room[x] EXCEPT !.closed = TRUE] ELSE room[x]]
        /\ rooms' = rooms \ {r}
        /\ serverRooms' = [serverRooms EXCEPT ![d] = NONE]
        /\ UNCHANGED guestDevices

\* Guest registrations and the room of d go at once: they have no grace.
CleanupDeviceGuestsAndRooms(d) ==
    LET r == serverRooms[d]
    IN  /\ guestDevices' = [g \in ShortIDs |->
                              IF guestDevices[g].device = d THEN NoGuest
                              ELSE guestDevices[g]]
        /\ room' = [x \in RoomIDs |->
                      IF x = r /\ r \in rooms
                      THEN [room[x] EXCEPT !.closed = TRUE] ELSE room[x]]
        /\ rooms' = rooms \ {r}
        /\ serverRooms' = [serverRooms EXCEPT ![d] = NONE]

--------------------------------------------------------------------------------
(* Presence of servers.                                                       *)

\* Mutation: the owners of sessions in grace are not checked.
MayRegisterOverSessions(d, u) ==
    /\ onlineServers[d] # NONE => server[onlineServers[d]].user = u
    /\ serverRooms[d] \in rooms => room[serverRooms[d]].owner = u

\* AddServer rejects a device another user operates, or whose room or sessions,
\* those in grace included, belong to another user.
MayRegister(d, u) ==
    /\ onlineServers[d] # NONE => server[onlineServers[d]].user = u
    /\ serverRooms[d] \in rooms => room[serverRooms[d]].owner = u
    /\ \A s \in SessionsOf(d) : session[s].owner = u

\* Mutation: the route moves but its generation does not.
RebindRoomKeepsGen(r, w, gen) ==
    room' = [x \in RoomIDs |->
               IF x = r /\ r \in rooms /\ ~room[x].closed /\ gen > room[x].gen
               THEN [room[x] EXCEPT !.server = w] ELSE room[x]]

\* Room.RebindServer, run under h.mu by AddServer.
RebindRoom(r, w, gen) ==
    room' = [x \in RoomIDs |->
               IF x = r /\ r \in rooms /\ ~room[x].closed /\ gen > room[x].gen
               THEN [room[x] EXCEPT !.server = w, !.gen = gen] ELSE room[x]]

\* A server registers and displaces the one before it: the room and every
\* session of the device are rebound to it, their server grace ends.
AddServer(w, d, u) ==
    LET old     == onlineServers[d]
        gen     == serverGen + 1
        resumed == {s \in SessionsOf(d) : "server" \in stale[s]}
    IN  /\ server[w] = NoServer
        /\ MayRegister(d, u)
        /\ serverGen' = gen
        /\ onlineServers' = [onlineServers EXCEPT ![d] = w]
        /\ server' = [x \in Servers |->
                        IF x = w THEN [device |-> d, user |-> u, gen |-> gen,
                                       closed |-> FALSE]
                        ELSE IF x = old THEN [server[x] EXCEPT !.closed = TRUE]
                        ELSE server[x]]
        /\ RebindRoom(serverRooms[d], w, gen)
        /\ serverConn' = [s \in SessionIDs |->
                            IF s \in SessionsOf(d) THEN w ELSE serverConn[s]]
        /\ stale' = [s \in SessionIDs |->
                       IF s \in resumed THEN stale[s] \ {"server"} ELSE stale[s]]
        /\ armed' = armed \ (resumed \X {"server"})
        /\ Untrack(FreshWithout(resumed, "server"))
        /\ UNCHANGED <<sessions, session, clientConn, graceGen, fired,
                       guestVars, rooms, serverRooms, attached, teardown>>

\* The device is deleted: everything of it goes, without grace.  server.Close
\* follows the unlock; nothing of the hub reads `done` without also comparing
\* the registered server, so the two are one step.
RemoveServer(d) ==
    /\ onlineServers' = [onlineServers EXCEPT ![d] = NONE]
    /\ server' = [w \in Servers |->
                    IF w = onlineServers[d] THEN [server[w] EXCEPT !.closed = TRUE]
                    ELSE server[w]]
    /\ RemoveCleared(SessionsOf(d))
    /\ teardown' = teardown \cup SessionsOf(d)
    /\ CleanupDeviceGuestsAndRooms(d)
    /\ UNCHANGED <<serverGen, session, serverConn, clientConn, graceGen, fired,
                   attached>>

\* The read pump of w ends.  The loop over the device's sessions meets at most
\* one (OneSessionPerDevice).
RemoveServerConn(w) ==
    LET d == server[w].device
    IN  /\ server[w] # NoServer
        /\ onlineServers[d] = w
        /\ onlineServers' = [onlineServers EXCEPT ![d] = NONE]
        /\ server' = [server EXCEPT ![w].closed = TRUE]
        /\ \/ /\ SessionsOf(d) = {}
              /\ UNCHANGED <<sessions, serverConn, stale, graceGen, teardown,
                             staleSessions, staleBefore, armed>>
           \/ \E s \in SessionsOf(d) :
                 /\ serverConn' = [serverConn EXCEPT ![s] = NONE]
                 /\ MarkSideStale(s, "server", {})
        /\ CleanupDeviceGuestsAndRooms(d)
        /\ UNCHANGED <<serverGen, session, clientConn, fired, attached>>

--------------------------------------------------------------------------------
(* Sessions.                                                                  *)

\* Mutation: a session in grace does not keep its device busy.
DeviceBusyUnlessStale(d) == \E s \in SessionsOf(d) : stale[s] = {}

\* ErrServerBusy.
DeviceBusy(d) == SessionsOf(d) # {}

\* The common part of CreateSession and CreateGuestSession.
NewSession(s, u, owner, d, w) ==
    /\ session[s] = NoSession
    /\ ~DeviceBusy(d)
    /\ session' = [session EXCEPT ![s] = [user |-> u, owner |-> owner,
                                          device |-> d]]
    /\ serverConn' = [serverConn EXCEPT ![s] = w]
    /\ sessions' = sessions \cup {s}
    /\ UNCHANGED <<serverVars, clientConn, stale, graceGen, graceVars,
                   guestVars, roomVars, attached, teardown>>

\* A session for the device's owner, bound to the registered server.
CreateSession(u, d, s) ==
    /\ onlineServers[d] # NONE
    /\ server[onlineServers[d]].user = u
    /\ NewSession(s, u, u, d, onlineServers[d])

\* The registration's own server pointer is bound, not the device's current one.
CreateGuestSession(g, s) ==
    LET guest == guestDevices[g]
    IN  /\ guest # NoGuest
        /\ NewSession(s, GuestUser, guest.user, guest.device, guest.server)

\* A client socket joins or resumes; a handler calls this once for its socket.
SetSessionClient(s, c) ==
    /\ s \in sessions
    /\ c \notin attached
    /\ attached' = attached \cup {c}
    /\ clientConn' = [clientConn EXCEPT ![s] = c]
    /\ stale' = [stale EXCEPT ![s] = @ \ {"client"}]
    /\ armed' = armed \ {<<s, "client">>}
    /\ Untrack(FreshWithout({s}, "client"))
    /\ UNCHANGED <<serverVars, sessions, session, serverConn, graceGen, fired,
                   guestVars, roomVars, teardown>>

\* Mutation: the session object in hand is trusted to be in the map still.
MarkClientStaleUnchecked(s, c) ==
    /\ clientConn[s] = c
    /\ clientConn' = [clientConn EXCEPT ![s] = NONE]
    /\ MarkSideStale(s, "client", {s})
    /\ UNCHANGED <<serverVars, session, serverConn, fired, guestVars, roomVars,
                   attached>>

\* Mutation: the connection of the dropped client is not cleared.
MarkClientStaleKeepsConn(s, c) ==
    /\ s \in sessions
    /\ clientConn[s] = c
    /\ MarkSideStale(s, "client", {s})
    /\ UNCHANGED <<serverVars, session, serverConn, clientConn, fired, guestVars,
                   roomVars, attached>>

\* The read pump of c ends while c is still the session's client.
MarkClientStale(s, c) ==
    /\ s \in sessions
    /\ clientConn[s] = c
    /\ clientConn' = [clientConn EXCEPT ![s] = NONE]
    /\ MarkSideStale(s, "client", {s})
    /\ UNCHANGED <<serverVars, session, serverConn, fired, guestVars, roomVars,
                   attached>>

\* The guest's read pump ends: no grace, and the hub announces nothing.
RemoveSession(s) ==
    /\ s \in sessions
    /\ RemoveCleared({s})
    /\ UNCHANGED <<serverVars, session, serverConn, clientConn, graceGen, fired,
                   guestVars, roomVars, attached, teardown>>

\* Mutation: the callback was given the generation from before its own drop.
TimerFiresEarlierGen(s, side) ==
    /\ <<s, side>> \in armed
    /\ armed' = armed \ {<<s, side>>}
    /\ fired' = fired \cup {<<s, side, graceGen[s][side] - 1>>}
    /\ UNCHANGED <<serverVars, sessionVars, staleSessions, staleBefore,
                   guestVars, roomVars, attached, teardown>>

\* A timer that has run for h.sessionGrace starts its callback's goroutine.
TimerFires(s, side) ==
    /\ <<s, side>> \in armed
    /\ armed' = armed \ {<<s, side>>}
    /\ fired' = fired \cup {<<s, side, graceGen[s][side]>>}
    /\ UNCHANGED <<serverVars, sessionVars, staleSessions, staleBefore,
                   guestVars, roomVars, attached, teardown>>

\* Mutation: the generation is not compared.
ExpiredAnyGen(s, side, gen) == s \in sessions /\ side \in stale[s]

\* The callback's window is the side's current one and it has not resumed.
Expired(s, side, gen) ==
    s \in sessions /\ side \in stale[s] /\ graceGen[s][side] = gen

\* expireClientGrace and expireServerGrace.  A callback whose side has resumed,
\* or resumed and dropped again, does nothing.  The other side's timer is left
\* alone.
ExpireGrace(s, side, gen) ==
    /\ <<s, side, gen>> \in fired
    /\ fired' = fired \ {<<s, side, gen>>}
    /\ \/ /\ Expired(s, side, gen)
          /\ sessions' = sessions \ {s}
          /\ Untrack({s})
          /\ teardown' = teardown \cup {s}
       \/ /\ ~Expired(s, side, gen)
          /\ UNCHANGED <<sessions, staleSessions, staleBefore, teardown>>
    /\ UNCHANGED <<serverVars, session, serverConn, clientConn, stale, graceGen,
                   armed, guestVars, roomVars, attached>>

\* teardownSession: the sides still bound to the removed session are told, by
\* reads of the session that hold no lock.
Teardown(s) ==
    /\ s \in teardown
    /\ teardown' = teardown \ {s}
    /\ UNCHANGED <<serverVars, sessionVars, graceVars, guestVars, roomVars,
                   attached>>

\* Mutation: the sweep takes sessions in client grace for abandoned.
AbandonedOrStale(s) == clientConn[s] = NONE

\* No client has joined and no side is in grace.
Abandoned(s) == clientConn[s] = NONE /\ stale[s] = {}

\* The periodic sweep; any abandoned sessions may be old enough.
CleanupStaleSessions ==
    /\ \E aged \in SUBSET {s \in sessions : Abandoned(s)} :
          sessions' = sessions \ aged
    /\ UNCHANGED <<serverVars, session, serverConn, clientConn, stale, graceGen,
                   graceVars, guestVars, roomVars, attached, teardown>>

--------------------------------------------------------------------------------
(* Guest devices and rooms.                                                   *)

\* Mutation: an offline device may register, with a nil server.
RegisterGuestDeviceOffline(g, u, d) ==
    /\ guestDevices[g] = NoGuest
    /\ guestDevices' = [guestDevices EXCEPT
                          ![g] = [user |-> u, device |-> d,
                                  server |-> onlineServers[d]]]
    /\ UNCHANGED <<serverVars, sessionVars, graceVars, roomVars, attached,
                   teardown>>

\* The registration keeps the server object of this moment.
RegisterGuestDevice(g, u, d) ==
    /\ guestDevices[g] = NoGuest
    /\ onlineServers[d] # NONE
    /\ guestDevices' = [guestDevices EXCEPT
                          ![g] = [user |-> u, device |-> d,
                                  server |-> onlineServers[d]]]
    /\ UNCHANGED <<serverVars, sessionVars, graceVars, roomVars, attached,
                   teardown>>

UnregisterGuestDevice(g) ==
    /\ guestDevices' = [guestDevices EXCEPT ![g] = NoGuest]
    /\ UNCHANGED <<serverVars, sessionVars, graceVars, roomVars, attached,
                   teardown>>

CreateRoom(d, u, r) ==
    /\ room[r] = NoRoom
    /\ onlineServers[d] # NONE
    /\ server[onlineServers[d]].user = u
    /\ serverRooms[d] = NONE
    /\ room' = [room EXCEPT ![r] = [device |-> d, owner |-> u,
                                    server |-> onlineServers[d],
                                    gen |-> server[onlineServers[d]].gen,
                                    closed |-> FALSE]]
    /\ rooms' = rooms \cup {r}
    /\ serverRooms' = [serverRooms EXCEPT ![d] = r]
    /\ UNCHANGED <<serverVars, sessionVars, graceVars, guestVars, attached,
                   teardown>>

RemoveRoom(r) ==
    /\ r \in rooms
    /\ room' = [room EXCEPT ![r].closed = TRUE]
    /\ rooms' = rooms \ {r}
    /\ serverRooms' = [serverRooms EXCEPT ![room[r].device] = NONE]
    /\ UNCHANGED <<serverVars, sessionVars, graceVars, guestVars, attached,
                   teardown>>

--------------------------------------------------------------------------------
Next ==
    \/ \E w \in Servers, d \in Devices, u \in Users : AddServer(w, d, u)
    \/ \E d \in Devices : RemoveServer(d)
    \/ \E w \in Servers : RemoveServerConn(w)
    \/ \E u \in Users, d \in Devices, s \in SessionIDs : CreateSession(u, d, s)
    \/ \E g \in ShortIDs, s \in SessionIDs : CreateGuestSession(g, s)
    \/ \E s \in SessionIDs, c \in Clients : SetSessionClient(s, c)
    \/ \E s \in SessionIDs, c \in Clients : MarkClientStale(s, c)
    \/ \E s \in SessionIDs : RemoveSession(s)
    \/ \E s \in SessionIDs, side \in Sides : TimerFires(s, side)
    \/ \E cb \in fired : ExpireGrace(cb[1], cb[2], cb[3])
    \/ \E s \in SessionIDs : Teardown(s)
    \/ CleanupStaleSessions
    \/ \E g \in ShortIDs, u \in Users, d \in Devices :
          RegisterGuestDevice(g, u, d)
    \/ \E g \in ShortIDs : UnregisterGuestDevice(g)
    \/ \E d \in Devices, u \in Users, r \in RoomIDs : CreateRoom(d, u, r)
    \/ \E r \in RoomIDs : RemoveRoom(r)

Spec == Init /\ [][Next]_vars

\* The runtime runs a timer that is due and its callback; h.mu is always freed.
Fairness ==
    /\ \A s \in SessionIDs, side \in Sides : WF_vars(TimerFires(s, side))
    /\ WF_vars(\E cb \in fired : ExpireGrace(cb[1], cb[2], cb[3]))
    /\ \A s \in SessionIDs : WF_vars(Teardown(s))

FairSpec == Spec /\ Fairness

--------------------------------------------------------------------------------
(* Safety.                                                                    *)

\* The cap's bookkeeping counts exactly the sessions in grace: no session in
\* grace escapes the cap, none that has resumed or gone is counted or evicted
\* (unmarkStaleIfDoneLocked and every delete from h.staleSessions).
StaleSetExact == staleSessions = {s \in sessions : stale[s] # {}}

\* The concurrent stale-session cap holds after every operation.
StaleBounded == Cardinality(staleSessions) <= MaxStaleSessions

\* A device serves at most one session, counting those in grace.
OneSessionPerDevice ==
    \A s, t \in sessions : session[s].device = session[t].device => s = t

\* A session is in server grace exactly while its device has no server, and it
\* has no server connection exactly then; a side in client grace has no client.
GraceMatchesPresence ==
    \A s \in sessions :
        /\ "server" \in stale[s] <=> onlineServers[session[s].device] = NONE
        /\ "server" \in stale[s] <=> serverConn[s] = NONE
        /\ "client" \in stale[s] => clientConn[s] = NONE

\* A side in grace always has its running timer or that timer's callback still
\* to come, with the current generation: no session can be stale for ever.
GraceAlwaysPending ==
    \A s \in sessions : \A side \in stale[s] :
        \/ <<s, side>> \in armed
        \/ <<s, side, graceGen[s][side]>> \in fired

\* An authenticated session whose server side is not in grace is routed to its
\* device's registered server, which the session's owner operates.
AuthSessionRoute ==
    \A s \in sessions :
        session[s].user # GuestUser /\ "server" \notin stale[s] =>
            /\ serverConn[s] = onlineServers[session[s].device]
            /\ server[serverConn[s]].user = session[s].owner

\* Every session, guest sessions too, is routed to the device's registered
\* server unless its server side is in grace.  The code does not ensure this.
SessionRoute ==
    \A s \in sessions :
        "server" \notin stale[s] =>
            serverConn[s] = onlineServers[session[s].device]

\* A room in the map is open, is its online device's one room, has its owner's
\* server and routes to the registered server with that server's generation.
RoomRoute ==
    /\ \A r \in rooms :
          LET w == onlineServers[room[r].device]
          IN  /\ serverRooms[room[r].device] = r
              /\ w # NONE
              /\ ~room[r].closed
              /\ room[r].server = w
              /\ room[r].gen = server[w].gen
              /\ room[r].owner = server[w].user
    /\ \A d \in Devices :
          serverRooms[d] # NONE =>
              serverRooms[d] \in rooms /\ room[serverRooms[d]].device = d

\* A guest registration belongs to an online device and was made under a server
\* of that device, though not always the one that is registered now: SessionRoute.
GuestRegistrations ==
    \A g \in ShortIDs :
        LET guest == guestDevices[g]
        IN  guest # NoGuest => /\ onlineServers[guest.device] # NONE
                               /\ server[guest.server].device = guest.device

\* A session about to be announced as disconnected is out of the map for good.
TeardownIsFinal == teardown \cap sessions = {}

\* teardownSession reads a session's connections without the lock: nothing may
\* write them between the session's removal and those reads.
TornDownFrozen ==
    [][\A s \in teardown :
          /\ serverConn'[s] = serverConn[s]
          /\ clientConn'[s] = clientConn[s]]_vars

\* A session that a client has joined or that is in grace never leaves the map
\* without its peers being told, unless RemoveSession takes it, which announces
\* nothing and is left to guestReadPump; above all the session whose drop exceeds
\* the cap is never itself the victim.
NoSilentDrop ==
    [][\A s \in sessions \ sessions' :
          (clientConn[s] # NONE \/ stale[s] # {}) /\ ~RemoveSession(s)
              => s \in teardown']_vars

(* Liveness.                                                                  *)

\* Every grace window ends: the side comes back or the session goes.
GraceEnds ==
    \A s \in SessionIDs, side \in Sides :
        (s \in sessions /\ side \in stale[s])
            ~> (s \notin sessions \/ side \notin stale[s])
================================================================================
