------------------------------- MODULE Signaling -------------------------------
(******************************************************************************)
(* The handlers that drive the device hub: /ws/server and /ws/client          *)
(* (internal/relay/ws_handler.go), /sessions/create, /guest/register,         *)
(* /sessions/guest and /ws/guest, and DELETE /devices/:id.                    *)
(*                                                                            *)
(* A handler looks something up, leaves the lock or the database, and goes on *)
(* with what it saw.  Each stretch between two such points is an action; the  *)
(* critical sections in between are the actions of DeviceHub.                 *)
(*                                                                            *)
(* A message to a server goes out unless the server is closed; that it is in  *)
(* the socket's order and not lost there is the subject of ServerRoute.       *)
(******************************************************************************)
EXTENDS DeviceHub

VARIABLES
    deviceRow,  \* the devices table: deviceID -> owner, NONE once deleted
    deleting,   \* devices whose row is gone and whose RemoveServer is to come
    late,       \* history: servers that registered a device after its deletion
    hosts,      \* the HandleServerWS of each server socket
    requests,   \* the /sessions/create or /sessions/guest call of each session
    clients,    \* the HandleClientWS or HandleGuestWS of each client socket
    told,       \* <<w, s>>: w got session_request or room_ready of s
    byes        \* <<x, s>>: server or client x got peer_disconnected for s

handlerVars == <<deviceRow, deleting, late, hosts, requests, clients, told, byes>>
allVars == <<vars, handlerVars>>

NoHost    == [stage |-> "none", device |-> NONE, user |-> NONE, resumed |-> {}]
NoRequest == [stage |-> "none", guest |-> NONE, server |-> NONE]
NoClient  == [stage |-> "none", session |-> NONE, server |-> NONE]

HostStages    == {"none", "checked", "refused", "open", "ended"}
RequestStages == {"none", "looked", "created", "done", "panicked"}
ClientStages  == {"none", "found", "joined", "pump", "farewell", "leaving",
                  "panicked", "left", "ended"}

HandlerTypeOK ==
    /\ deviceRow \in [Devices -> Users \cup {NONE}]
    /\ deleting \subseteq Devices
    /\ late \subseteq Servers
    /\ hosts \in [Servers -> [stage: HostStages, device: Devices \cup {NONE},
                             user: Users \cup {NONE}, resumed: SUBSET SessionIDs]]
    /\ requests \in [SessionIDs -> [stage: RequestStages,
                                   guest: ShortIDs \cup {NONE},
                                   server: Servers \cup {NONE}]]
    /\ clients \in [Clients -> [stage: ClientStages,
                               session: SessionIDs \cup {NONE},
                               server: Servers \cup {NONE}]]
    /\ told \subseteq Servers \X SessionIDs
    /\ byes \subseteq (Servers \cup Clients) \X SessionIDs

SignalingInit ==
    /\ Init
    /\ deviceRow \in [Devices -> Users]
    /\ deleting = {}
    /\ late = {}
    /\ hosts = [w \in Servers |-> NoHost]
    /\ requests = [s \in SessionIDs |-> NoRequest]
    /\ clients = [c \in Clients |-> NoClient]
    /\ told = {}
    /\ byes = {}

\* SendJSON of a message about s to a server: the pairs it adds.
Delivered(w, s) == IF w = NONE \/ server[w].closed THEN {} ELSE {<<w, s>>}

IsGuest(s) == session[s].user = GuestUser

--------------------------------------------------------------------------------
(* HandleServerWS.                                                            *)

\* IsOwner says yes.  Nothing is locked from here to AddServer.
CheckOwner(w, d, u) ==
    /\ hosts[w].stage = "none"
    /\ deviceRow[d] = u
    /\ hosts' = [hosts EXCEPT ![w] = [stage |-> "checked", device |-> d,
                                      user |-> u, resumed |-> {}]]
    /\ UNCHANGED <<vars, deviceRow, deleting, late, requests, clients, told, byes>>

\* Mutation: only sessions that were in server grace are announced.
ResumedIfStale(d) == {s \in SessionsOf(d) : "server" \in stale[s]}

\* The sessions AddServer announces to the new server once it has unlocked.
Resumed(d) == SessionsOf(d)

HostJoins(w) ==
    LET d == hosts[w].device
    IN  /\ hosts[w].stage = "checked"
        /\ AddServer(w, d, hosts[w].user)
        /\ hosts' = [hosts EXCEPT ![w].stage = "open",
                                  ![w].resumed = Resumed(d)]
        /\ late' = late \cup {x \in {w} : deviceRow[d] = NONE /\ d \notin deleting}
        /\ UNCHANGED <<deviceRow, deleting, requests, clients, told, byes>>

\* The upgrade fails, or AddServer refuses.
HostRefused(w) ==
    /\ hosts[w].stage = "checked"
    /\ hosts' = [hosts EXCEPT ![w].stage = "refused"]
    /\ UNCHANGED <<vars, deviceRow, deleting, late, requests, clients, told, byes>>

\* notifySessionResumed.
AnnounceResumed(w, s) ==
    /\ s \in hosts[w].resumed
    /\ hosts' = [hosts EXCEPT ![w].resumed = @ \ {s}]
    /\ told' = told \cup Delivered(w, s)
    /\ UNCHANGED <<vars, deviceRow, deleting, late, requests, clients, byes>>

\* serverReadPump ends: a replaced server must not disturb its successor.
HostEnds(w) ==
    /\ hosts[w].stage = "open"
    /\ hosts[w].resumed = {}
    /\ hosts' = [hosts EXCEPT ![w].stage = "ended"]
    /\ IF onlineServers[hosts[w].device] = w THEN RemoveServerConn(w)
       ELSE UNCHANGED vars
    /\ UNCHANGED <<deviceRow, deleting, late, requests, clients, told, byes>>

--------------------------------------------------------------------------------
(* DELETE /devices/:id.                                                       *)

DeleteRow(d) ==
    /\ deviceRow[d] # NONE
    /\ deviceRow' = [deviceRow EXCEPT ![d] = NONE]
    /\ deleting' = deleting \cup {d}
    /\ UNCHANGED <<vars, late, hosts, requests, clients, told, byes>>

\* Mutation: the hub is only asked when the device is online.
DisconnectIfOnline(d) ==
    /\ d \in deleting
    /\ deleting' = deleting \ {d}
    /\ IF onlineServers[d] = NONE THEN UNCHANGED vars ELSE RemoveServer(d)
    /\ UNCHANGED <<deviceRow, late, hosts, requests, clients, told, byes>>

\* "Also disconnect if online": whether it is or not, its sessions go.
DisconnectDeleted(d) ==
    /\ d \in deleting
    /\ deleting' = deleting \ {d}
    /\ RemoveServer(d)
    /\ UNCHANGED <<deviceRow, late, hosts, requests, clients, told, byes>>

--------------------------------------------------------------------------------
(* POST /sessions/create and /sessions/guest.                                 *)

RequestSession(u, d, s) ==
    /\ requests[s].stage = "none"
    /\ CreateSession(u, d, s)
    /\ requests' = [requests EXCEPT ![s].stage = "created"]
    /\ UNCHANGED <<deviceRow, deleting, late, hosts, clients, told, byes>>

\* The registration is looked up, and its password compared without the lock.
LookUpGuest(g, s) ==
    /\ requests[s].stage = "none"
    /\ guestDevices[g] # NoGuest
    /\ requests' = [requests EXCEPT ![s] = [stage |-> "looked", guest |-> g,
                                            server |-> guestDevices[g].server]]
    /\ UNCHANGED <<vars, deviceRow, deleting, late, hosts, clients, told, byes>>

\* CreateGuestSession looks the short id up again.
RequestGuestSession(s) ==
    /\ requests[s].stage = "looked"
    /\ CreateGuestSession(requests[s].guest, s)
    /\ requests' = [requests EXCEPT ![s].stage = "created"]
    /\ UNCHANGED <<deviceRow, deleting, late, hosts, clients, told, byes>>

\* The password is wrong, the registration has gone or the device is busy.
GuestRefused(s) ==
    /\ requests[s].stage = "looked"
    /\ requests' = [requests EXCEPT ![s] = NoRequest]
    /\ UNCHANGED <<vars, deviceRow, deleting, late, hosts, clients, told, byes>>

\* session_request.  A guest's goes to the server of the registration that was
\* looked up; a user's to the session's connection as it is now, read without
\* the lock, and a nil one panics: the caller never learns the session's id.
NotifyHost(s) ==
    LET w == IF IsGuest(s) THEN requests[s].server ELSE serverConn[s]
    IN  /\ requests[s].stage = "created"
        /\ requests' = [requests EXCEPT ![s] =
                          [NoRequest EXCEPT !.stage = IF w = NONE THEN "panicked"
                                                      ELSE "done"]]
        /\ told' = told \cup Delivered(w, s)
        /\ UNCHANGED <<vars, deviceRow, deleting, late, hosts, clients, byes>>

RegisterGuest(g, u, d) ==
    /\ RegisterGuestDevice(g, u, d)
    /\ UNCHANGED handlerVars
--------------------------------------------------------------------------------
(* HandleClientWS and HandleGuestWS.  The two take the same steps until their  *)
(* read pumps end, so which endpoint a socket came to is left open till then:  *)
(* ClientEnds is /ws/client, GuestEnds is /ws/guest.                           *)

\* The session is found; the caller knows its id from the 201 response.
FindSession(c, s) ==
    /\ clients[c].stage = "none"
    /\ requests[s].stage = "done"
    /\ s \in sessions
    /\ clients' = [clients EXCEPT ![c] = [NoClient EXCEPT !.stage = "found",
                                                         !.session = s]]
    /\ UNCHANGED <<vars, deviceRow, deleting, late, hosts, requests, told, byes>>

\* SetSessionClient, whose ok is ignored: a client whose session has gone since
\* it was found goes on like any other, with no server to tell.
ClientJoins(c) ==
    LET s == clients[c].session
    IN  /\ clients[c].stage = "found"
        /\ \/ /\ SetSessionClient(s, c)
              /\ clients' = [clients EXCEPT ![c].stage = "joined",
                                           ![c].server = serverConn[s]]
           \/ /\ s \notin sessions
              /\ clients' = [clients EXCEPT ![c].stage = "joined"]
              /\ UNCHANGED vars
        /\ UNCHANGED <<deviceRow, deleting, late, hosts, requests, told, byes>>

\* The upgrade fails: no connection is made.
ClientRefused(c) ==
    /\ clients[c].stage = "found"
    /\ clients' = [clients EXCEPT ![c] = NoClient]
    /\ UNCHANGED <<vars, deviceRow, deleting, late, hosts, requests, told, byes>>

\* room_ready to the client itself and to the server of the snapshot.
AnnounceJoin(c) ==
    /\ clients[c].stage = "joined"
    /\ clients' = [clients EXCEPT ![c].stage = "pump", ![c].server = NONE]
    /\ told' = told \cup Delivered(clients[c].server, clients[c].session)
    /\ UNCHANGED <<vars, deviceRow, deleting, late, hosts, requests, byes>>

\* clientReadPump ends: the session enters client grace if c is still its client.
\* HandleClientWS has compared the session's user with its caller's account when
\* it found the session, and GuestUser is no account; a session's user is fixed.
ClientEnds(c) ==
    LET s == clients[c].session
    IN  /\ clients[c].stage = "pump"
        /\ ~IsGuest(s)
        /\ IF s \in sessions /\ clientConn[s] = c THEN MarkClientStale(s, c)
           ELSE UNCHANGED vars
        /\ clients' = [clients EXCEPT ![c].stage = "ended"]
        /\ UNCHANGED <<deviceRow, deleting, late, hosts, requests, told, byes>>

\* guestReadPump ends, for a guest's session or a user's, since HandleGuestWS
\* takes every session: it is looked up, and its server connection read a first
\* time, without the lock.
GuestEnds(c) ==
    LET s == clients[c].session
    IN  /\ clients[c].stage = "pump"
        /\ clients' = [clients EXCEPT ![c].stage =
                         IF s \in sessions /\ serverConn[s] # NONE THEN "farewell"
                         ELSE "leaving",
                         ![c].server = IF s \in sessions THEN serverConn[s]
                                       ELSE NONE]
        /\ UNCHANGED <<vars, deviceRow, deleting, late, hosts, requests, told, byes>>

\* The server connection is read again, or the value of the first read is still
\* in a register.  A nil one panics in the deferred function, and neither
\* RemoveSession nor Close follows.
GuestFarewell(c) ==
    LET s == clients[c].session
    IN  /\ clients[c].stage = "farewell"
        /\ \E w \in {clients[c].server, serverConn[s]} :
              /\ clients' = [clients EXCEPT ![c].server = NONE,
                               ![c].stage = IF w = NONE THEN "panicked"
                                            ELSE "leaving"]
              /\ byes' = byes \cup Delivered(w, s)
        /\ UNCHANGED <<vars, deviceRow, deleting, late, hosts, requests, told>>

\* Mutation: the removal is under the condition of the farewell.
GuestLeavesIfHosted(c) ==
    LET s == clients[c].session
    IN  /\ clients[c].stage = "leaving"
        /\ clients' = [clients EXCEPT ![c].stage = "left"]
        /\ IF s \in sessions /\ serverConn[s] # NONE THEN RemoveSession(s)
           ELSE UNCHANGED vars
        /\ UNCHANGED <<deviceRow, deleting, late, hosts, requests, told, byes>>

\* RemoveSession, whoever is the session's client by now, and Close.
GuestLeaves(c) ==
    LET s == clients[c].session
    IN  /\ clients[c].stage = "leaving"
        /\ clients' = [clients EXCEPT ![c].stage = "left"]
        /\ IF s \in sessions THEN RemoveSession(s) ELSE UNCHANGED vars
        /\ UNCHANGED <<deviceRow, deleting, late, hosts, requests, told, byes>>

--------------------------------------------------------------------------------
(* The hub's own goroutines.                                                  *)

\* Send to the client bound to s: it fails once the handler has closed it.
DeliveredToClient(s) ==
    LET c == clientConn[s]
    IN  IF c = NONE THEN {}
        ELSE IF clients[c].stage \in {"left", "ended"} THEN {} ELSE {<<c, s>>}

\* Mutation: one side is told, the server if there is one.
AnnounceEndToOne(s) ==
    /\ Teardown(s)
    /\ byes' = byes \cup (IF serverConn[s] # NONE THEN Delivered(serverConn[s], s)
                          ELSE DeliveredToClient(s))
    /\ UNCHANGED <<deviceRow, deleting, late, hosts, requests, clients, told>>

\* teardownSession.
AnnounceEnd(s) ==
    /\ Teardown(s)
    /\ byes' = byes \cup Delivered(serverConn[s], s) \cup DeliveredToClient(s)
    /\ UNCHANGED <<deviceRow, deleting, late, hosts, requests, clients, told>>

GraceTimers ==
    /\ \/ \E s \in SessionIDs, side \in Sides : TimerFires(s, side)
       \/ \E cb \in fired : ExpireGrace(cb[1], cb[2], cb[3])
    /\ UNCHANGED handlerVars

Sweep == CleanupStaleSessions /\ UNCHANGED handlerVars

--------------------------------------------------------------------------------
SignalingNext ==
    \/ \E w \in Servers :
          \/ \E d \in Devices, u \in Users : CheckOwner(w, d, u)
          \/ HostJoins(w)
          \/ HostRefused(w)
          \/ \E s \in SessionIDs : AnnounceResumed(w, s)
          \/ HostEnds(w)
    \/ \E d \in Devices : DeleteRow(d) \/ DisconnectDeleted(d)
    \/ \E s \in SessionIDs :
          \/ \E u \in Users, d \in Devices : RequestSession(u, d, s)
          \/ \E g \in ShortIDs : LookUpGuest(g, s)
          \/ RequestGuestSession(s)
          \/ GuestRefused(s)
          \/ NotifyHost(s)
          \/ AnnounceEnd(s)
    \/ \E g \in ShortIDs, u \in Users, d \in Devices : RegisterGuest(g, u, d)
    \/ \E c \in Clients :
          \/ \E s \in SessionIDs : FindSession(c, s)
          \/ ClientJoins(c)
          \/ ClientRefused(c)
          \/ AnnounceJoin(c)
          \/ ClientEnds(c)
          \/ GuestEnds(c)
          \/ GuestFarewell(c)
          \/ GuestLeaves(c)
    \/ GraceTimers
    \/ Sweep

SignalingSpec == SignalingInit /\ [][SignalingNext]_allVars

\* A handler that is under way goes on, timers run, and the ticker's sweep gets
\* to every session that stays abandoned.  No socket has to end.
SignalingFairness ==
    /\ \A c \in Clients :
          /\ WF_allVars(ClientJoins(c) \/ ClientRefused(c))
          /\ WF_allVars(AnnounceJoin(c))
          /\ WF_allVars(GuestFarewell(c))
          /\ WF_allVars(GuestLeaves(c))
    /\ WF_allVars(GraceTimers)
    /\ \A s \in SessionIDs : WF_allVars(Sweep /\ s \notin sessions')

FairSignalingSpec == SignalingSpec /\ SignalingFairness

--------------------------------------------------------------------------------
(* Safety.                                                                    *)

\* A user's session that is not in server grace has been announced to the host
\* it is routed to, by its request or by the host's registration, unless one of
\* the two is still under way: no replacement in between, no drop, no resume
\* leaves a host with a session it has never heard of.
HostKnowsSession ==
    \A s \in sessions :
        LET w == serverConn[s]
        IN  ~IsGuest(s) /\ "server" \notin stale[s] =>
               \/ <<w, s>> \in told
               \/ requests[s].stage = "created"
               \/ s \in hosts[w].resumed

Joined(s) == \E c \in attached : clients[c].session = s

\* A guestReadPump of s has reached its deferred function.
GuestPumpEnded(s) ==
    \E c \in Clients :
        /\ clients[c].session = s
        /\ clients[c].stage \in {"farewell", "leaving", "panicked", "left"}

\* The peers of a session are told of its end, and only then: nobody gets
\* peer_disconnected for a session that lives on, and once a session a client
\* had joined has gone and been torn down, its last client and server know,
\* unless their sockets have closed.  The exception is a session, of a guest or
\* a user, that a socket of /ws/guest has begun to end: guestReadPump says
\* farewell before it removes the session, to the server alone, and no teardown
\* follows, so that another client of the session is not told.
PeersTold ==
    \A s \in SessionIDs :
        ~GuestPumpEnded(s) =>
            /\ s \in sessions => \A x \in Servers \cup Clients : <<x, s>> \notin byes
            /\ s \notin sessions \cup teardown /\ Joined(s) =>
                  Delivered(serverConn[s], s) \cup DeliveredToClient(s) \subseteq byes

\* Once DELETE /devices/:id has answered, the device is not online and has no
\* session to resume and no guest to serve, until a server whose ownership check
\* had passed before the deletion registers it after the answer.
DeletedNotResumable ==
    \A d \in Devices :
        /\ deviceRow[d] = NONE
        /\ d \notin deleting
        /\ \A w \in late : hosts[w].device # d
        => /\ onlineServers[d] = NONE
           /\ SessionsOf(d) = {}
           /\ \A g \in ShortIDs : guestDevices[g].device # d

\* No handler follows a nil *OnlineServer.
NoNilServer ==
    /\ \A s \in SessionIDs : requests[s].stage # "panicked"
    /\ \A c \in Clients : clients[c].stage # "panicked"

(* Liveness.                                                                  *)

\* No client socket of s is open, nor one that a panic has left behind.
Unattended(s) ==
    \A c \in Clients : clients[c].session = s => clients[c].stage \in {"left", "ended"}

\* A session no client attends does not keep its device busy for ever: a client
\* comes, or the session goes, whatever became of its request, of its host and
\* of its former clients.
DeviceFreed ==
    \A s \in SessionIDs :
        s \in sessions /\ Unattended(s) ~> s \notin sessions \/ ~Unattended(s)
================================================================================
