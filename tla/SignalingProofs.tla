----------------------------- MODULE SignalingProofs -----------------------------
(******************************************************************************)
(* Theorems about the handlers of Signaling, for every value of its           *)
(* constants: whatever they do in between, they drive the hub only by its own *)
(* operations, so that all that is proved of DeviceHub holds under them; a    *)
(* deleted device stays away; hosts know the sessions that are routed to      *)
(* them; and peers hear of the end of theirs.                                 *)
(******************************************************************************)
EXTENDS Signaling, DeviceHubRefinementProofs

\* A handler that is past its lookup knows what it works for.
HandlersKnow ==
    /\ \A w \in Servers :
          hosts[w].stage # "none" => /\ hosts[w].device \in Devices
                                     /\ hosts[w].user \in Users
    /\ \A s \in SessionIDs :
          requests[s].stage = "looked" => requests[s].guest \in ShortIDs
    /\ \A c \in Clients :
          clients[c].stage # "none" => clients[c].session \in SessionIDs

\* The steps of the hub but AddServer, which HostJoins alone takes.
OtherHubStep ==
    \/ \E d \in Devices : RemoveServer(d)
    \/ \E w \in Servers : RemoveServerConn(w)
    \/ \E u \in Users, d \in Devices, s \in SessionIDs : CreateSession(u, d, s)
    \/ \E g \in ShortIDs, s \in SessionIDs : CreateGuestSession(g, s)
    \/ \E s \in SessionIDs, c \in Clients : SetSessionClient(s, c)
    \/ \E s \in SessionIDs, c \in Clients : MarkClientStale(s, c)
    \/ \E s \in SessionIDs : RemoveSession(s)
    \/ \E s \in SessionIDs, side \in Sides : TimerFires(s, side)
    \/ \E cb \in fired : ExpireGrace(cb[1], cb[2], cb[3])
    \/ \E s \in SessionIDs : Teardown(s)
    \/ CleanupStaleSessions
    \/ \E g \in ShortIDs, u \in Users, d \in Devices :
          RegisterGuestDevice(g, u, d)

\* The handlers' steps, by their kind.
HostStep ==
    \E w \in Servers :
        \/ \E d \in Devices, u \in Users : CheckOwner(w, d, u)
        \/ HostRefused(w)
        \/ \E s \in SessionIDs : AnnounceResumed(w, s)
        \/ HostEnds(w)

DeleteStep == \E d \in Devices : DeleteRow(d) \/ DisconnectDeleted(d)

RequestStep ==
    \/ \E s \in SessionIDs :
          \/ \E u \in Users, d \in Devices : RequestSession(u, d, s)
          \/ \E g \in ShortIDs : LookUpGuest(g, s)
          \/ RequestGuestSession(s)
          \/ GuestRefused(s)
          \/ NotifyHost(s)
    \/ \E g \in ShortIDs, u \in Users, d \in Devices : RegisterGuest(g, u, d)

ClientStep ==
    \E c \in Clients :
        \/ \E s \in SessionIDs : FindSession(c, s)
        \/ ClientJoins(c)
        \/ ClientRefused(c)
        \/ AnnounceJoin(c)
        \/ ClientEnds(c)
        \/ GuestEnds(c)
        \/ GuestFarewell(c)
        \/ GuestLeaves(c)

HubStep == (\E s \in SessionIDs : AnnounceEnd(s)) \/ GraceTimers \/ Sweep

\* A step is one of a host, a deletion, a request, a client or the hub.
LEMMA StepKinds ==
    ASSUME [SignalingNext]_allVars
    PROVE  \/ \E w \in Servers : HostJoins(w)
           \/ HostStep \/ DeleteStep \/ RequestStep \/ ClientStep \/ HubStep
           \/ UNCHANGED allVars
BY Zenon DEF SignalingNext, HostStep, DeleteStep, RequestStep, ClientStep, HubStep

--------------------------------------------------------------------------------
(* The handlers drive the hub by its operations.                              *)

\* A host's handler drives the hub by its operations.
LEMMA HostHub ==
    ASSUME HostStep
    PROVE  OtherHubStep \/ UNCHANGED vars
BY DEF HostStep, CheckOwner, HostRefused, AnnounceResumed, HostEnds, OtherHubStep

\* A deletion drives the hub by its operations.
LEMMA DeleteHub ==
    ASSUME DeleteStep
    PROVE  OtherHubStep \/ UNCHANGED vars
BY DEF DeleteStep, DeleteRow, DisconnectDeleted, OtherHubStep

\* A session or guest request drives the hub by its operations.
LEMMA RequestHub ==
    ASSUME HandlersKnow, RequestStep
    PROVE  OtherHubStep \/ UNCHANGED vars
BY DEF RequestStep, RequestSession, LookUpGuest, RequestGuestSession,
       GuestRefused, NotifyHost, RegisterGuest, OtherHubStep, HandlersKnow

\* A client's handler drives the hub by its operations.
LEMMA ClientHub ==
    ASSUME HandlersKnow, ClientStep
    PROVE  OtherHubStep \/ UNCHANGED vars
BY DEF ClientStep, FindSession, ClientJoins, ClientRefused, AnnounceJoin,
       ClientEnds, GuestEnds, GuestFarewell, GuestLeaves, OtherHubStep,
       HandlersKnow

\* Timers and the sweep are the hub's own.
LEMMA TimerHub ==
    ASSUME HubStep
    PROVE  OtherHubStep \/ UNCHANGED vars
BY DEF HubStep, AnnounceEnd, GraceTimers, Sweep, OtherHubStep

\* Every step of the handlers is at most one step of the hub.
LEMMA StepIsHubStep ==
    ASSUME HandlersKnow, [SignalingNext]_allVars
    PROVE  [Next]_vars
<1>1. ASSUME NEW w \in Servers, HostJoins(w)
      PROVE  Next
    BY <1>1 DEF HostJoins, HandlersKnow, Next
<1>2. OtherHubStep => Next
    BY DEF OtherHubStep, Next
<1>3. UNCHANGED allVars => UNCHANGED vars
    BY DEF allVars
<1> QED
    BY <1>1, <1>2, <1>3, StepKinds, HostHub, DeleteHub, RequestHub, ClientHub,
       TimerHub

--------------------------------------------------------------------------------
(* What the handlers know has the right types.                                *)

HandlerInv == HandlerTypeOK /\ HandlersKnow

\* Deliveries are to servers, about sessions.
LEMMA DeliveredType ==
    ASSUME NEW w \in Servers \cup {NONE}, NEW s \in SessionIDs
    PROVE  Delivered(w, s) \subseteq Servers \X SessionIDs
BY DEF Delivered

\* No handler has begun.
LEMMA HandlerInvInit == SignalingInit => HandlerInv
BY DEF SignalingInit, HandlerInv, HandlerTypeOK, HandlersKnow, NoHost, NoRequest,
       NoClient, HostStages, RequestStages, ClientStages

\* A host's handler knows its device and its account.
LEMMA HostTypes ==
    ASSUME HandlerInv, TypeInv,
           HostStep \/ \E w \in Servers : HostJoins(w)
    PROVE  HandlerInv'
<1> USE DEF HandlerInv, HandlerTypeOK, HandlersKnow, HostStages
<1>1. ASSUME NEW w \in Servers, NEW d \in Devices, NEW u \in Users,
             CheckOwner(w, d, u)
      PROVE  HandlerInv'
    BY <1>1 DEF CheckOwner
<1>2. ASSUME NEW w \in Servers, HostJoins(w)
      PROVE  HandlerInv'
    <2> DEFINE d == hosts[w].device
               h == [hosts[w] EXCEPT !.stage = "open", !.resumed = Resumed(d)]
    <2>1. Resumed(d) \subseteq SessionIDs
        BY DEF Resumed, SessionsOf, TypeInv, TypeOK
    <2>2. hosts[w].device \in Devices /\ hosts[w].user \in Users
        BY <1>2 DEF HostJoins
    <2>3. /\ h.stage = "open" /\ h.device \in Devices /\ h.user \in Users
          /\ h \in [stage: HostStages, device: Devices \cup {NONE},
                    user: Users \cup {NONE}, resumed: SUBSET SessionIDs]
        <3>1. hosts[w] \in [stage: HostStages, device: Devices \cup {NONE},
                            user: Users \cup {NONE}, resumed: SUBSET SessionIDs]
            OBVIOUS
        <3>2. "open" \in HostStages
            OBVIOUS
        <3> HIDE DEF HandlerInv, HandlerTypeOK, HandlersKnow, HostStages, d
        <3> QED
            BY <2>1, <2>2, <3>1, <3>2
    <2> HIDE DEF d
    <2>4. hosts' = [hosts EXCEPT ![w] = h]
        BY <1>2 DEF HostJoins, d
    <2> HIDE DEF h
    <2>5. /\ UNCHANGED <<deviceRow, deleting, requests, clients, told, byes>>
          /\ late' \subseteq late \cup {w}
        BY <1>2 DEF HostJoins
    <2> QED
        BY <2>3, <2>4, <2>5
<1>3. ASSUME NEW w \in Servers, HostRefused(w)
      PROVE  HandlerInv'
    BY <1>3 DEF HostRefused
<1>4. ASSUME NEW w \in Servers, NEW s \in SessionIDs, AnnounceResumed(w, s)
      PROVE  HandlerInv'
    BY <1>4, DeliveredType DEF AnnounceResumed
<1>5. ASSUME NEW w \in Servers, HostEnds(w)
      PROVE  HandlerInv'
    BY <1>5 DEF HostEnds
<1> QED
    BY <1>1, <1>2, <1>3, <1>4, <1>5 DEF HostStep

\* A request that has looked up a registration knows its short id.
LEMMA RequestTypes ==
    ASSUME HandlerInv, TypeInv, RequestStep
    PROVE  HandlerInv'
<1> USE DEF HandlerInv, HandlerTypeOK, HandlersKnow, RequestStages
<1>1. ASSUME NEW s \in SessionIDs, NEW u \in Users, NEW d \in Devices,
             RequestSession(u, d, s)
      PROVE  HandlerInv'
    BY <1>1 DEF RequestSession
<1>2. ASSUME NEW g \in ShortIDs, NEW s \in SessionIDs, LookUpGuest(g, s)
      PROVE  HandlerInv'
    <2>1. guestDevices[g].server \in Servers
        BY <1>2 DEF LookUpGuest, TypeInv, TypeOK, GuestRecord
    <2> QED
        BY <1>2, <2>1 DEF LookUpGuest
<1>3. ASSUME NEW s \in SessionIDs, RequestGuestSession(s)
      PROVE  HandlerInv'
    BY <1>3 DEF RequestGuestSession
<1>4. ASSUME NEW s \in SessionIDs, GuestRefused(s)
      PROVE  HandlerInv'
    BY <1>4 DEF GuestRefused, NoRequest
<1>5. ASSUME NEW s \in SessionIDs, NotifyHost(s)
      PROVE  HandlerInv'
    <2> DEFINE w == IF IsGuest(s) THEN requests[s].server ELSE serverConn[s]
    <2>1. w \in Servers \cup {NONE}
        BY DEF TypeInv, TypeOK
    <2>2. told' \subseteq Servers \X SessionIDs
        BY <1>5, <2>1, DeliveredType DEF NotifyHost
    <2>3. requests' = [requests EXCEPT ![s] =
                         [NoRequest EXCEPT !.stage = IF w = NONE THEN "panicked"
                                                     ELSE "done"]]
        BY <1>5 DEF NotifyHost
    <2> QED
        BY <1>5, <2>2, <2>3 DEF NotifyHost, NoRequest
<1>6. ASSUME NEW g \in ShortIDs, NEW u \in Users, NEW d \in Devices,
             RegisterGuest(g, u, d)
      PROVE  HandlerInv'
    BY <1>6 DEF RegisterGuest, handlerVars
<1> QED
    BY <1>1, <1>2, <1>3, <1>4, <1>5, <1>6 DEF RequestStep

\* A client's handler goes on, with another server or none to tell.
LEMMA ClientMoves ==
    ASSUME HandlerInv, NEW c \in Clients, clients[c].stage # "none",
           NEW st \in ClientStages, NEW w \in Servers \cup {NONE},
           clients' = [clients EXCEPT ![c] =
                         [clients[c] EXCEPT !.stage = st, !.server = w]],
           UNCHANGED <<deviceRow, deleting, late, hosts, requests, told, byes>>
    PROVE  HandlerInv'
<1> USE DEF HandlerInv, HandlerTypeOK, HandlersKnow
<1> DEFINE k == [clients[c] EXCEPT !.stage = st, !.server = w]
<1>1. clients[c].session \in SessionIDs
    OBVIOUS
<1>2. /\ k.session \in SessionIDs
      /\ k \in [stage: ClientStages, session: SessionIDs \cup {NONE},
                server: Servers \cup {NONE}]
    <2>1. clients[c] \in [stage: ClientStages, session: SessionIDs \cup {NONE},
                          server: Servers \cup {NONE}]
        OBVIOUS
    <2> HIDE DEF HandlerInv, HandlerTypeOK, HandlersKnow
    <2> QED
        BY <1>1, <2>1
<1>3. clients' = [clients EXCEPT ![c] = k]
    OBVIOUS
<1> HIDE DEF k
<1> QED
    BY <1>2, <1>3

\* A client's handler knows its session.
LEMMA ClientTypes ==
    ASSUME HandlerInv, TypeInv, ClientStep
    PROVE  HandlerInv'
<1> USE DEF HandlerInv, HandlerTypeOK, HandlersKnow, ClientStages
<1>1. ASSUME NEW c \in Clients, NEW s \in SessionIDs, FindSession(c, s)
      PROVE  HandlerInv'
    BY <1>1 DEF FindSession, NoClient
<1>2. ASSUME NEW c \in Clients, ClientJoins(c)
      PROVE  HandlerInv'
    <2>1. PICK w \in Servers \cup {NONE} :
             clients' = [clients EXCEPT ![c] =
                           [clients[c] EXCEPT !.stage = "joined", !.server = w]]
        <3>1. /\ clients[c].session \in SessionIDs
              /\ serverConn[clients[c].session] \in Servers \cup {NONE}
              /\ clients[c].server \in Servers \cup {NONE}
              /\ clients[c] \in [stage: ClientStages, server: Servers \cup {NONE},
                                 session: SessionIDs \cup {NONE}]
              /\ clients = [x \in Clients |-> clients[x]]
            BY <1>2 DEF ClientJoins, TypeInv, TypeOK
        <3> HIDE DEF HandlerInv, HandlerTypeOK, HandlersKnow, ClientStages
        <3>2. CASE clients' = [clients EXCEPT
                                 ![c].stage = "joined",
                                 ![c].server = serverConn[clients[c].session]]
            BY <3>1, <3>2
        <3>3. CASE clients' = [clients EXCEPT ![c].stage = "joined"]
            <4>1. [clients[c] EXCEPT !.stage = "joined"]
                    = [clients[c] EXCEPT !.stage = "joined",
                                         !.server = clients[c].server]
                BY <3>1
            <4> QED
                BY <3>1, <3>3, <4>1
        <3> QED
            BY <1>2, <3>2, <3>3 DEF ClientJoins
    <2>2. UNCHANGED <<deviceRow, deleting, late, hosts, requests, told, byes>>
        BY <1>2 DEF ClientJoins
    <2> QED
        BY <1>2, <2>1, <2>2, ClientMoves DEF ClientJoins
<1>3. ASSUME NEW c \in Clients, ClientRefused(c)
      PROVE  HandlerInv'
    BY <1>3 DEF ClientRefused, NoClient
<1>4. ASSUME NEW c \in Clients, AnnounceJoin(c)
      PROVE  HandlerInv'
    BY <1>4, DeliveredType DEF AnnounceJoin
<1>5. ASSUME NEW c \in Clients, ClientEnds(c)
      PROVE  HandlerInv'
    BY <1>5 DEF ClientEnds
<1>6. ASSUME NEW c \in Clients, GuestEnds(c)
      PROVE  HandlerInv'
    <2>1. PICK w \in Servers \cup {NONE}, st \in {"farewell", "leaving"} :
             clients' = [clients EXCEPT ![c] =
                           [clients[c] EXCEPT !.stage = st, !.server = w]]
        <3>1. clients[c].session \in SessionIDs
            BY <1>6 DEF GuestEnds
        <3>2. serverConn[clients[c].session] \in Servers \cup {NONE}
            BY <3>1 DEF TypeInv, TypeOK
        <3> QED
            BY <1>6, <3>1, <3>2 DEF GuestEnds
    <2>2. UNCHANGED <<deviceRow, deleting, late, hosts, requests, told, byes>>
        BY <1>6 DEF GuestEnds
    <2> QED
        BY <1>6, <2>1, <2>2, ClientMoves DEF GuestEnds
<1>7. ASSUME NEW c \in Clients, GuestFarewell(c)
      PROVE  HandlerInv'
    <2>1. /\ clients[c].session \in SessionIDs
          /\ serverConn[clients[c].session] \in Servers \cup {NONE}
        BY <1>7 DEF GuestFarewell, TypeInv, TypeOK
    <2>2. byes' \subseteq (Servers \cup Clients) \X SessionIDs
        BY <1>7, <2>1, DeliveredType DEF GuestFarewell
    <2> QED
        BY <1>7, <2>1, <2>2 DEF GuestFarewell
<1>8. ASSUME NEW c \in Clients, GuestLeaves(c)
      PROVE  HandlerInv'
    BY <1>8 DEF GuestLeaves
<1> QED
    BY <1>1, <1>2, <1>3, <1>4, <1>5, <1>6, <1>7, <1>8 DEF ClientStep

\* Deletions, timers and the sweep leave the handlers' knowledge alone.
LEMMA OtherTypes ==
    ASSUME HandlerInv, TypeInv, DeleteStep \/ HubStep \/ UNCHANGED allVars
    PROVE  HandlerInv'
<1> USE DEF HandlerInv, HandlerTypeOK, HandlersKnow
<1>1. ASSUME NEW d \in Devices, DeleteRow(d) \/ DisconnectDeleted(d)
      PROVE  HandlerInv'
    BY <1>1 DEF DeleteRow, DisconnectDeleted
<1>2. ASSUME NEW s \in SessionIDs, AnnounceEnd(s)
      PROVE  HandlerInv'
    <2>1. /\ serverConn[s] \in Servers \cup {NONE}
          /\ clientConn[s] \in Clients \cup {NONE}
        BY DEF TypeInv, TypeOK
    <2>2. DeliveredToClient(s) \subseteq Clients \X SessionIDs
        BY <2>1 DEF DeliveredToClient
    <2> QED
        BY <1>2, <2>1, <2>2, DeliveredType DEF AnnounceEnd
<1>3. CASE GraceTimers \/ Sweep \/ UNCHANGED allVars
    BY <1>3 DEF GraceTimers, Sweep, allVars, handlerVars
<1> QED
    BY <1>1, <1>2, <1>3 DEF DeleteStep, HubStep

\* Handlers know what they work for in every step.
LEMMA HandlerInvStep ==
    ASSUME HandlerInv, TypeInv, [SignalingNext]_allVars
    PROVE  HandlerInv'
BY StepKinds, HostTypes, RequestTypes, ClientTypes, OtherTypes

\* The handlers' specification implements the hub's, so every theorem about the
\* hub holds of its composition with the handlers of ws_handler.go, of
\* session/handler.go, guest/handler.go and device/handler.go.
THEOREM HandlersDriveHub == SignalingSpec => Spec
<1>1. SignalingInit => Init
    BY DEF SignalingInit
<1>2. SignalingInit => HandlerInv /\ TypeInv
    BY <1>1, HandlerInvInit, TypeInvInit
<1>3. HandlerInv /\ TypeInv /\ [SignalingNext]_allVars
        => (HandlerInv /\ TypeInv)' /\ [Next]_vars
    BY HandlerInvStep, TypeInvStep, StepIsHubStep DEF HandlerInv
<1> QED
    BY <1>1, <1>2, <1>3, PTL DEF SignalingSpec, Spec

--------------------------------------------------------------------------------
(* A deleted device stays away.                                               *)

\* Nothing of d is in the hub.
Away(d) ==
    /\ onlineServers[d] = NONE
    /\ SessionsOf(d) = {}
    /\ \A g \in ShortIDs : guestDevices[g].device # d

\* DELETE has answered, and no server whose check preceded it has come since.
Deleted(d) ==
    /\ deviceRow[d] = NONE
    /\ d \notin deleting
    /\ \A w \in late : hosts[w].device # d

\* The handler of a server in `late` is past its check: its device is fixed.
LateInv == \A w \in late : hosts[w].stage # "none"

DeletedInv == LateInv /\ \A d \in Devices : Deleted(d) => Away(d)

\* A device that is away stays so while nothing of it is added.
LEMMA AwayFrame ==
    ASSUME NEW d \in Devices, Away(d), sessions' \subseteq sessions,
           session' = session, guestDevices' = guestDevices,
           onlineServers'[d] = onlineServers[d]
    PROVE  Away(d)'
BY DEF Away, SessionsOf

\* The new session of an operation is not one of d.
LEMMA AwaySession ==
    ASSUME TypeInv, NEW d \in Devices, Away(d), NEW s \in SessionIDs,
           NEW u, NEW o, NEW e \in Devices, NEW w, e # d, NewSession(s, u, o, e, w)
    PROVE  Away(d)'
<1>1. /\ session'[s].device = e
      /\ \A t \in sessions : t # s => session'[t] = session[t]
      /\ sessions' = sessions \cup {s}
      /\ onlineServers' = onlineServers /\ guestDevices' = guestDevices
    BY DEF NewSession, TypeInv, TypeOK, serverVars, guestVars
<1> QED
    BY <1>1 DEF Away, SessionsOf

\* Removing any device, the registration of a guest of d cannot come back.
LEMMA AwayCleanup ==
    ASSUME TypeInv, NEW d \in Devices, Away(d), NEW e \in Devices,
           CleanupDeviceGuestsAndRooms(e), sessions' \subseteq sessions,
           session' = session,
           onlineServers' = [onlineServers EXCEPT ![e] = NONE]
    PROVE  Away(d)'
<1>1. \A g \in ShortIDs : guestDevices'[g].device # d
    BY HubAssumption DEF CleanupDeviceGuestsAndRooms, NoGuest, Away
<1>2. onlineServers'[d] = NONE
    BY DEF Away, TypeInv, TypeOK
<1> QED
    BY <1>1, <1>2 DEF Away, SessionsOf

\* Marking a side stale adds no session.
LEMMA MarkShrinks ==
    ASSUME NEW s \in SessionIDs, NEW side \in Sides, NEW silent,
           MarkSideStale(s, side, silent)
    PROVE  sessions' \subseteq sessions
BY DEF MarkSideStale

\* No operation but AddServer brings back a device that is away.
LEMMA AwayStays ==
    ASSUME TypeInv, NEW d \in Devices, Away(d), OtherHubStep \/ UNCHANGED vars
    PROVE  Away(d)'
<1>1. ASSUME NEW e \in Devices, RemoveServer(e)
      PROVE  Away(d)'
    BY <1>1, AwayCleanup DEF RemoveServer, RemoveCleared
<1>2. ASSUME NEW w \in Servers, RemoveServerConn(w)
      PROVE  Away(d)'
    <2>1. server[w].device \in Devices
        BY <1>2 DEF RemoveServerConn, TypeInv, TypeOK, ServerRecord
    <2>2. sessions' \subseteq sessions
        <3>1. CASE sessions' = sessions
            BY <3>1
        <3>2. ASSUME NEW s \in SessionsOf(server[w].device),
                     MarkSideStale(s, "server", {})
              PROVE  sessions' \subseteq sessions
            BY <3>2, MarkShrinks DEF SessionsOf, TypeInv, TypeOK, Sides
        <3> QED
            BY <1>2, <3>1, <3>2 DEF RemoveServerConn
    <2> QED
        BY <1>2, <2>1, <2>2, AwayCleanup DEF RemoveServerConn
<1>3. ASSUME NEW u \in Users, NEW e \in Devices, NEW s \in SessionIDs,
             CreateSession(u, e, s)
      PROVE  Away(d)'
    BY <1>3, AwaySession DEF CreateSession, Away
<1>4. ASSUME NEW g \in ShortIDs, NEW s \in SessionIDs, CreateGuestSession(g, s)
      PROVE  Away(d)'
    <2>1. guestDevices[g].device \in Devices /\ guestDevices[g].device # d
        BY <1>4 DEF CreateGuestSession, Away, TypeInv, TypeOK, GuestRecord
    <2> QED
        BY <1>4, <2>1, AwaySession DEF CreateGuestSession
<1>5. ASSUME NEW s \in SessionIDs, NEW c \in Clients, SetSessionClient(s, c)
      PROVE  Away(d)'
    BY <1>5, AwayFrame DEF SetSessionClient, serverVars, guestVars
<1>6. ASSUME NEW s \in SessionIDs, NEW c \in Clients, MarkClientStale(s, c)
      PROVE  Away(d)'
    <2>1. sessions' \subseteq sessions
        BY <1>6, MarkShrinks DEF MarkClientStale, Sides
    <2> QED
        BY <1>6, <2>1, AwayFrame DEF MarkClientStale, serverVars, guestVars
<1>7. ASSUME NEW s \in SessionIDs, RemoveSession(s)
      PROVE  Away(d)'
    BY <1>7, AwayFrame DEF RemoveSession, RemoveCleared, serverVars, guestVars
<1>8. ASSUME NEW s \in SessionIDs, NEW side \in Sides, TimerFires(s, side)
      PROVE  Away(d)'
    BY <1>8, AwayFrame DEF TimerFires, serverVars, sessionVars, guestVars
<1>9. ASSUME NEW s, NEW side, NEW gen, ExpireGrace(s, side, gen)
      PROVE  Away(d)'
    BY <1>9, AwayFrame DEF ExpireGrace, serverVars, guestVars
<1>10. ASSUME NEW s \in SessionIDs, Teardown(s)
      PROVE  Away(d)'
    BY <1>10, AwayFrame DEF Teardown, serverVars, sessionVars, guestVars
<1>11. CASE CleanupStaleSessions
    BY <1>11, AwayFrame DEF CleanupStaleSessions, serverVars, guestVars
<1>12. ASSUME NEW g \in ShortIDs, NEW u \in Users, NEW e \in Devices,
              RegisterGuestDevice(g, u, e)
      PROVE  Away(d)'
    <2>1. e # d
        BY <1>12 DEF RegisterGuestDevice, Away
    <2>2. \A x \in ShortIDs : guestDevices'[x].device # d
        BY <1>12, <2>1 DEF RegisterGuestDevice, Away, TypeInv, TypeOK
    <2> QED
        BY <1>12, <2>2 DEF RegisterGuestDevice, Away, SessionsOf, serverVars,
                           sessionVars
<1>13. CASE UNCHANGED vars
    BY <1>13, AwayFrame DEF vars, serverVars, sessionVars, guestVars
<1> QED
    BY <1>1, <1>2, <1>3, <1>4, <1>5, <1>6, <1>7, <1>8, <1>9, <1>10, <1>11,
       <1>12, <1>13 DEF OtherHubStep

\* Whether a device counts as deleted changes by the handlers of its hosts and
\* by DELETE alone.
LEMMA DeletedFrame ==
    ASSUME DeletedInv, TypeInv, OtherHubStep \/ UNCHANGED vars,
           UNCHANGED <<deviceRow, deleting, late, hosts>>
    PROVE  DeletedInv'
<1>1. LateInv'
    BY DEF DeletedInv, LateInv
<1>2. ASSUME NEW d \in Devices, Deleted(d)' PROVE Away(d)'
    BY <1>2, AwayStays DEF DeletedInv, Deleted
<1> QED
    BY <1>1, <1>2 DEF DeletedInv

\* A handler of a host goes on, but not into the hub.
LEMMA DeletedHost ==
    ASSUME DeletedInv, HandlerInv, TypeInv, HostStep
    PROVE  DeletedInv'
<1>1. ASSUME NEW d \in Devices, Away(d)
      PROVE  Away(d)'
    BY <1>1, HostHub, AwayStays
<1>2. SUFFICES LateInv' /\ \A d \in Devices : Deleted(d)' => Deleted(d)
    BY <1>1 DEF DeletedInv
<1> USE DEF DeletedInv, LateInv, Deleted, HandlerInv, HandlerTypeOK
<1>3. ASSUME NEW w \in Servers, NEW e \in Devices, NEW u \in Users,
             CheckOwner(w, e, u)
      PROVE  LateInv' /\ \A d \in Devices : Deleted(d)' => Deleted(d)
    <2>1. /\ deviceRow[e] # NONE /\ w \notin late
          /\ hosts'[w].device = e /\ hosts'[w].stage = "checked"
          /\ \A x \in Servers : x # w => hosts'[x] = hosts[x]
          /\ UNCHANGED <<deviceRow, deleting, late>>
        BY <1>3, HubAssumption DEF CheckOwner
    <2> QED
        BY <2>1
<1>4. ASSUME NEW w \in Servers, HostRefused(w)
      PROVE  LateInv' /\ \A d \in Devices : Deleted(d)' => Deleted(d)
    <2>1. /\ hosts[w].stage = "checked" /\ hosts'[w].stage = "refused"
          /\ hosts'[w].device = hosts[w].device
          /\ \A x \in Servers : x # w => hosts'[x] = hosts[x]
          /\ UNCHANGED <<deviceRow, deleting, late>>
        BY <1>4 DEF HostRefused
    <2> QED
        BY <2>1
<1>5. ASSUME NEW w \in Servers, NEW s \in SessionIDs, AnnounceResumed(w, s)
      PROVE  LateInv' /\ \A d \in Devices : Deleted(d)' => Deleted(d)
    <2>1. /\ hosts'[w].stage = hosts[w].stage
          /\ hosts'[w].device = hosts[w].device
          /\ \A x \in Servers : x # w => hosts'[x] = hosts[x]
          /\ UNCHANGED <<deviceRow, deleting, late>>
        BY <1>5 DEF AnnounceResumed
    <2> QED
        BY <2>1
<1>6. ASSUME NEW w \in Servers, HostEnds(w)
      PROVE  LateInv' /\ \A d \in Devices : Deleted(d)' => Deleted(d)
    <2>1. /\ hosts[w].stage = "open" /\ hosts'[w].stage = "ended"
          /\ hosts'[w].device = hosts[w].device
          /\ \A x \in Servers : x # w => hosts'[x] = hosts[x]
          /\ UNCHANGED <<deviceRow, deleting, late>>
        BY <1>6 DEF HostEnds
    <2> QED
        BY <2>1
<1> QED
    BY <1>3, <1>4, <1>5, <1>6 DEF HostStep

\* A server that comes for a deleted device is one of `late` from then on.
LEMMA DeletedJoin ==
    ASSUME DeletedInv, HandlerInv, TypeInv, NEW w \in Servers, HostJoins(w)
    PROVE  DeletedInv'
<1> USE DEF DeletedInv, LateInv, Deleted, HandlerInv, HandlerTypeOK
<1>1. /\ hosts[w].stage = "checked" /\ hosts'[w].stage = "open"
      /\ hosts'[w].device = hosts[w].device
      /\ \A x \in Servers : x # w => hosts'[x] = hosts[x]
      /\ UNCHANGED <<deviceRow, deleting>>
      /\ late' = late \cup {x \in {w} : deviceRow[hosts[w].device] = NONE
                                        /\ hosts[w].device \notin deleting}
    BY DEF HostJoins
<1>2. LateInv'
    BY <1>1
<1>3. ASSUME NEW d \in Devices, Deleted(d)'
      PROVE  Away(d)'
    <2>1. hosts[w].device # d
        BY <1>1, <1>3
    <2>2. Deleted(d)
        BY <1>1, <1>3
    <2>3. /\ onlineServers'[d] = onlineServers[d]
          /\ UNCHANGED <<sessions, session, guestDevices>>
        BY <2>1 DEF HostJoins, AddServer, guestVars, TypeInv, TypeOK
    <2> QED
        BY <2>2, <2>3, AwayFrame
<1> QED
    BY <1>2, <1>3

\* The deletion itself makes the device away.
LEMMA DeletedDelete ==
    ASSUME DeletedInv, HandlerInv, TypeInv, DeleteStep
    PROVE  DeletedInv'
<1>1. ASSUME NEW d \in Devices, Away(d)
      PROVE  Away(d)'
    BY <1>1, DeleteHub, AwayStays
<1>2. ASSUME NEW e \in Devices, DeleteRow(e)
      PROVE  DeletedInv'
    <2>1. /\ e \in deleting'
          /\ \A d \in Devices : d # e => deviceRow'[d] = deviceRow[d]
          /\ deleting \subseteq deleting'
          /\ UNCHANGED <<late, hosts>>
        BY <1>2 DEF DeleteRow, HandlerInv, HandlerTypeOK
    <2>2. LateInv'
        BY <2>1 DEF DeletedInv, LateInv
    <2>3. ASSUME NEW d \in Devices, Deleted(d)'
          PROVE  Deleted(d)
        BY <2>1, <2>3 DEF Deleted
    <2> QED
        BY <1>1, <2>2, <2>3 DEF DeletedInv
<1>3. ASSUME NEW e \in Devices, DisconnectDeleted(e)
      PROVE  DeletedInv'
    <2>1. /\ deleting' = deleting \ {e}
          /\ UNCHANGED <<deviceRow, late, hosts>>
        BY <1>3 DEF DisconnectDeleted
    <2>2. LateInv'
        BY <2>1 DEF DeletedInv, LateInv
    <2>3. Away(e)'
        <3>1. onlineServers'[e] = NONE /\ SessionsOf(e)' = {}
            BY <1>3 DEF DisconnectDeleted, RemoveServer, RemoveCleared,
                        SessionsOf, TypeInv, TypeOK
        <3>2. \A g \in ShortIDs : guestDevices'[g].device # e
            BY <1>3, HubAssumption DEF DisconnectDeleted, RemoveServer,
                        CleanupDeviceGuestsAndRooms, NoGuest
        <3> QED
            BY <3>1, <3>2 DEF Away
    <2>4. ASSUME NEW d \in Devices, Deleted(d)', d # e
          PROVE  Deleted(d)
        BY <2>1, <2>4 DEF Deleted
    <2> QED
        BY <1>1, <2>2, <2>3, <2>4 DEF DeletedInv
<1> QED
    BY <1>2, <1>3 DEF DeleteStep

\* Every step keeps deleted devices away.
LEMMA DeletedStep ==
    ASSUME DeletedInv, HandlerInv, TypeInv, [SignalingNext]_allVars
    PROVE  DeletedInv'
<1>1. CASE RequestStep
    <2>1. UNCHANGED <<deviceRow, deleting, late, hosts>>
        BY <1>1 DEF RequestStep, RequestSession, LookUpGuest, RequestGuestSession,
                    GuestRefused, NotifyHost, RegisterGuest, handlerVars
    <2> QED
        BY <1>1, <2>1, RequestHub, DeletedFrame DEF HandlerInv
<1>2. CASE ClientStep
    <2>1. UNCHANGED <<deviceRow, deleting, late, hosts>>
        BY <1>2 DEF ClientStep, FindSession, ClientJoins, ClientRefused,
                    AnnounceJoin, ClientEnds, GuestEnds, GuestFarewell, GuestLeaves
    <2> QED
        BY <1>2, <2>1, ClientHub, DeletedFrame DEF HandlerInv
<1>3. CASE HubStep
    <2>1. UNCHANGED <<deviceRow, deleting, late, hosts>>
        BY <1>3 DEF HubStep, AnnounceEnd, GraceTimers, Sweep, handlerVars
    <2> QED
        BY <1>3, <2>1, TimerHub, DeletedFrame
<1>4. CASE UNCHANGED allVars
    BY <1>4, DeletedFrame DEF allVars, handlerVars
<1> QED
    BY <1>1, <1>2, <1>3, <1>4, StepKinds, DeletedHost, DeletedJoin, DeletedDelete

\* Once DELETE /devices/:id has answered, nothing of the device is in the hub
\* unless a server that had passed its ownership check before registers it after
\* the answer: RemoveServer clears what is in grace as well, and nothing else
\* can bring the device back.
THEOREM DeletedStaysAway == SignalingSpec => []DeletedNotResumable
<1>1. SignalingInit => HandlerInv /\ TypeInv /\ DeletedInv
    <2>1. SignalingInit => \A d \in Devices : deviceRow[d] # NONE
        BY HubAssumption DEF SignalingInit
    <2>2. SignalingInit => DeletedInv
        BY <2>1 DEF SignalingInit, DeletedInv, LateInv, Deleted, NoHost
    <2> QED
        BY <2>2, HandlerInvInit, TypeInvInit DEF SignalingInit
<1>2. HandlerInv /\ TypeInv /\ DeletedInv /\ [SignalingNext]_allVars
        => (HandlerInv /\ TypeInv /\ DeletedInv)'
    BY HandlerInvStep, TypeInvStep, StepIsHubStep, DeletedStep DEF HandlerInv
<1>3. DeletedInv => DeletedNotResumable
    BY DEF DeletedInv, Deleted, Away, DeletedNotResumable
<1> QED
    BY <1>1, <1>2, <1>3, PTL DEF SignalingSpec

--------------------------------------------------------------------------------
(* What a step of the handlers does to the hub, for the properties that relate *)
(* the two.                                                                   *)

\* The hub's operations that several handlers or its own goroutines take.
CommonStep ==
    \/ DropStep
    \/ \E s \in SessionIDs, c \in Clients : SetSessionClient(s, c)
    \/ \E s \in SessionIDs, side \in Sides : TimerFires(s, side)
    \/ \E g \in ShortIDs, u \in Users, d \in Devices :
          RegisterGuestDevice(g, u, d)

\* Steps by what they do to the sessions and the servers.
LEMMA StepEffects ==
    ASSUME HandlerInv, TypeInv, [SignalingNext]_allVars
    PROVE  \/ \E w \in Servers : HostJoins(w)
           \/ \E s \in SessionIDs, u \in Users, d \in Devices : RequestSession(u, d, s)
           \/ \E s \in SessionIDs : RequestGuestSession(s)
           \/ \E c \in Clients : GuestLeaves(c)
           \/ \E s \in SessionIDs : AnnounceEnd(s)
           \/ CommonStep
           \/ UNCHANGED vars
<1> USE DEF CommonStep, DropStep
<1>1. CASE HostStep
    BY <1>1 DEF HostStep, CheckOwner, HostRefused, AnnounceResumed, HostEnds
<1>2. CASE DeleteStep
    BY <1>2 DEF DeleteStep, DeleteRow, DisconnectDeleted
<1>3. CASE RequestStep
    BY <1>3 DEF RequestStep, LookUpGuest, GuestRefused, NotifyHost, RegisterGuest
<1>4. CASE ClientStep
    BY <1>4 DEF ClientStep, FindSession, ClientJoins, ClientRefused, AnnounceJoin,
                ClientEnds, GuestEnds, GuestFarewell, HandlerInv, HandlersKnow
<1>5. CASE HubStep
    BY <1>5 DEF HubStep, GraceTimers, Sweep
<1> QED
    BY <1>1, <1>2, <1>3, <1>4, <1>5, StepKinds DEF allVars

\* A session's user, owner and device are set once, when it enters the map.
LEMMA SessionsFixed ==
    ASSUME TypeInv, [Next]_vars, NEW s \in SessionIDs
    PROVE  IF session[s] = NoSession
           THEN session'[s] # NoSession => s \in sessions'
           ELSE session'[s] = session[s] /\ (s \in sessions' => s \in sessions)
<1>1. ASSUME NEW x \in SessionIDs, NEW u, NEW o, NEW d, NEW w,
             NewSession(x, u, o, d, w)
      PROVE  IF session[s] = NoSession
             THEN session'[s] # NoSession => s \in sessions'
             ELSE session'[s] = session[s] /\ (s \in sessions' => s \in sessions)
    BY <1>1 DEF NewSession, TypeInv, TypeOK
<1>2. CASE session' = session /\ sessions' \subseteq sessions
    BY <1>2
<1>3. ASSUME NEW x \in SessionIDs, NEW side \in Sides, NEW silent,
             MarkSideStale(x, side, silent)
      PROVE  sessions' \subseteq sessions
    BY <1>3, MarkShrinks
<1>4. ASSUME NEW w \in Servers, RemoveServerConn(w)
      PROVE  sessions' \subseteq sessions
    BY <1>3, <1>4 DEF RemoveServerConn, SessionsOf, TypeInv, TypeOK, Sides
<1>5. ASSUME NEW x \in SessionIDs, NEW c \in Clients, MarkClientStale(x, c)
      PROVE  sessions' \subseteq sessions
    BY <1>3, <1>5 DEF MarkClientStale, Sides
<1>6. \/ session' = session /\ sessions' \subseteq sessions
      \/ \E x \in SessionIDs : \E u, o, d, w : NewSession(x, u, o, d, w)
    BY <1>4, <1>5 DEF Next, vars, sessionVars, AddServer, RemoveServer, RemoveCleared,
           RemoveServerConn, MarkClientStale, CreateSession, CreateGuestSession,
           SetSessionClient, RemoveSession, TimerFires, ExpireGrace, Teardown,
           CleanupStaleSessions, RegisterGuestDevice, UnregisterGuestDevice,
           CreateRoom, RemoveRoom
<1> QED
    BY <1>1, <1>2, <1>6

\* A closed server stays closed.
LEMMA ClosedStays ==
    ASSUME TypeInv, [Next]_vars, NEW x \in Servers, server[x].closed
    PROVE  server'[x].closed
<1>1. server[x] # NoServer /\ server[x] \in ServerRecord
    BY DEF NoServer, TypeInv, TypeOK
<1> QED
    BY <1>1, ServerCloses DEF ServerRecord

--------------------------------------------------------------------------------
(* A host knows its sessions.                                                 *)

\* A registered server is open.
OnlineOpen ==
    \A d \in Devices : onlineServers[d] # NONE => ~server[onlineServers[d]].closed

\* A registered server is open.
LEMMA OnlineOpenStep ==
    ASSUME TypeInv, OnlineOpen, [Next]_vars
    PROVE  OnlineOpen'
<1> USE DEF OnlineOpen, TypeInv, TypeOK
<1>1. \A d, e \in Devices :
         onlineServers[d] # NONE /\ onlineServers[d] = onlineServers[e] => d = e
    BY DEF Created
<1>2. ASSUME NEW w \in Servers, NEW d \in Devices, NEW u \in Users, AddServer(w, d, u)
      PROVE  OnlineOpen'
    BY <1>1, <1>2 DEF AddServer
<1>3. ASSUME NEW d \in Devices, RemoveServer(d) PROVE OnlineOpen'
    BY <1>1, <1>3 DEF RemoveServer
<1>4. ASSUME NEW w \in Servers, RemoveServerConn(w) PROVE OnlineOpen'
    <2>1. server[w].device \in Devices
        BY <1>4 DEF RemoveServerConn, ServerRecord
    <2> QED
        BY <1>1, <1>4, <2>1 DEF RemoveServerConn
<1>5. CASE UNCHANGED <<onlineServers, server, serverGen>>
    BY <1>5
<1> QED
    BY <1>2, <1>3, <1>4, <1>5, ServerSteps

\* A handler that has yet to look its device up has nothing to announce.
HostsFresh == \A w \in Servers : hosts[w].stage = "none" => hosts[w].resumed = {}

HostInv == OnlineOpen /\ HostsFresh /\ HostKnowsSession

\* A user's session whose server side is not in grace.
Served(s) == s \in sessions /\ ~IsGuest(s) /\ "server" \notin stale[s]

Known(s) ==
    \/ <<serverConn[s], s>> \in told
    \/ requests[s].stage = "created"
    \/ s \in hosts[serverConn[s]].resumed

\* A user's session outside server grace is routed to an open server.
LEMMA ServedByOpen ==
    ASSUME TypeInv, SessionInv, AuthSessionRoute, OnlineOpen,
           NEW s \in SessionIDs, Served(s)
    PROVE  LET w == serverConn[s]
           IN  w \in Servers /\ server[w] # NoServer /\ ~server[w].closed
<1>1. /\ session[s].device \in Devices
      /\ onlineServers[session[s].device] # NONE
      /\ serverConn[s] = onlineServers[session[s].device]
    BY DEF Served, IsGuest, AuthSessionRoute, SessionInv, GraceMatchesPresence, TypeInv,
           Created, SessionRecord
<1> QED
    BY <1>1, Unmade DEF OnlineOpen, TypeInv, TypeOK, Created

\* Only AddServer and the session's creation make it served by another server.
LEMMA ServedBefore ==
    ASSUME TypeInv, CommonStep \/ (\E x \in SessionIDs : RemoveSession(x) \/ Teardown(x))
                    \/ UNCHANGED vars,
           NEW s \in SessionIDs, Served(s)'
    PROVE  Served(s) /\ serverConn'[s] = serverConn[s]
<1> USE DEF Served, IsGuest, TypeInv, TypeOK
<1>1. ASSUME NEW d \in Devices, RemoveServer(d)
      PROVE  Served(s) /\ serverConn'[s] = serverConn[s]
    BY <1>1 DEF RemoveServer, RemoveCleared
<1>2. ASSUME NEW w \in Servers, RemoveServerConn(w)
      PROVE  Served(s) /\ serverConn'[s] = serverConn[s]
    <2>1. CASE UNCHANGED <<sessions, serverConn, stale>>
        BY <1>2, <2>1 DEF RemoveServerConn
    <2>2. ASSUME NEW x \in SessionsOf(server[w].device), MarkSideStale(x, "server", {}),
                 serverConn' = [serverConn EXCEPT ![x] = NONE]
          PROVE  Served(s) /\ serverConn'[s] = serverConn[s]
        <3>1. PICK gone \in SUBSET SessionIDs : Marked(x, "server", gone)
            BY <2>2, MarkEffect DEF SessionsOf, Sides
        <3> QED
            BY <1>2, <2>2, <3>1 DEF Marked, RemoveServerConn
    <2> QED
        BY <1>2, <2>1, <2>2 DEF RemoveServerConn
<1>3. ASSUME NEW x \in SessionIDs, NEW c \in Clients, MarkClientStale(x, c)
      PROVE  Served(s) /\ serverConn'[s] = serverConn[s]
    <2>1. PICK gone \in SUBSET SessionIDs : Marked(x, "client", gone)
        BY <1>3, MarkEffect DEF MarkClientStale, Sides
    <2> QED
        BY <1>3, <2>1 DEF Marked, MarkClientStale
<1>4. ASSUME NEW x \in SessionIDs, NEW c \in Clients, SetSessionClient(x, c)
      PROVE  Served(s) /\ serverConn'[s] = serverConn[s]
    BY <1>4 DEF SetSessionClient
<1>5. ASSUME NEW x \in SessionIDs, RemoveSession(x)
      PROVE  Served(s) /\ serverConn'[s] = serverConn[s]
    BY <1>5 DEF RemoveSession, RemoveCleared
<1>6. CASE /\ sessions' \subseteq sessions
           /\ UNCHANGED <<session, serverConn, stale>>
    BY <1>6
<1> QED
    BY <1>1, <1>2, <1>3, <1>4, <1>5, <1>6
       DEF CommonStep, DropStep, ExpireGrace, CleanupStaleSessions, TimerFires, Teardown,
           RegisterGuestDevice, vars, sessionVars

\* What tells the host of a session, or is to tell it, is only ever used up by
\* telling the host.
LEMMA KnownStays ==
    ASSUME HandlerInv, HostsFresh, [SignalingNext]_allVars,
           NEW s \in SessionIDs, ~IsGuest(s), Known(s), serverConn'[s] = serverConn[s],
           serverConn[s] \in Servers,
           server[serverConn[s]] # NoServer, ~server[serverConn[s]].closed
    PROVE  Known(s)'
<1> DEFINE w == serverConn[s]
<1> USE DEF Known, HandlerInv, HandlerTypeOK, Delivered
<1>1. w # NONE
    BY HubAssumption
<1>2. CASE UNCHANGED <<requests, hosts>> /\ told \subseteq told'
    BY <1>2
<1>3. CASE HostStep
    <2>1. ASSUME NEW x \in Servers, NEW d \in Devices, NEW u \in Users, CheckOwner(x, d, u)
          PROVE  Known(s)'
        BY <2>1 DEF CheckOwner, HostsFresh
    <2>2. ASSUME NEW x \in Servers, HostRefused(x) \/ HostEnds(x)
          PROVE  Known(s)'
        <3>1. PICK st : hosts' = [hosts EXCEPT ![x].stage = st]
            BY <2>2 DEF HostRefused, HostEnds
        <3>2. UNCHANGED <<requests, told>>
            BY <2>2 DEF HostRefused, HostEnds
        <3>3. hosts'[w].resumed = hosts[w].resumed
            BY <3>1
        <3> QED
            BY <3>2, <3>3
    <2>3. ASSUME NEW x \in Servers, NEW t \in SessionIDs, AnnounceResumed(x, t)
          PROVE  Known(s)'
        <3>1. /\ UNCHANGED requests
              /\ told' = told \cup Delivered(x, t)
              /\ hosts'[w].resumed = IF x = w THEN hosts[w].resumed \ {t}
                                     ELSE hosts[w].resumed
            BY <2>3 DEF AnnounceResumed
        <3> QED
            BY <1>1, <3>1
    <2> QED
        BY <1>3, <2>1, <2>2, <2>3 DEF HostStep
<1>4. ASSUME NEW x \in Servers, HostJoins(x)
      PROVE  Known(s)'
    <2>1. x # w
        BY <1>4 DEF HostJoins, AddServer
    <2>2. hosts'[w] = hosts[w] /\ UNCHANGED <<requests, told>>
        BY <1>4, <2>1 DEF HostJoins
    <2> QED
        BY <2>2
<1>5. CASE RequestStep
    <2>1. ASSUME NEW t \in SessionIDs, NEW u \in Users, NEW d \in Devices,
                 RequestSession(u, d, t)
          PROVE  Known(s)'
        BY <2>1 DEF RequestSession
    <2>2. ASSUME NEW t \in SessionIDs, NEW g \in ShortIDs, LookUpGuest(g, t)
          PROVE  Known(s)'
        BY <2>2 DEF LookUpGuest
    <2>3. ASSUME NEW t \in SessionIDs, RequestGuestSession(t) \/ GuestRefused(t)
          PROVE  Known(s)'
        BY <2>3 DEF RequestGuestSession, GuestRefused
    <2>4. ASSUME NEW t \in SessionIDs, NotifyHost(t)
          PROVE  Known(s)'
        <3>1. CASE t = s
            <4>1. told' = told \cup Delivered(w, s)
                BY <2>4, <3>1 DEF NotifyHost
            <4> QED
                BY <1>1, <4>1
        <3>2. CASE t # s
            BY <2>4, <3>2 DEF NotifyHost
        <3> QED
            BY <3>1, <3>2
    <2>5. CASE \E g \in ShortIDs, u \in Users, d \in Devices : RegisterGuest(g, u, d)
        BY <1>2, <2>5 DEF RegisterGuest, handlerVars
    <2> QED
        BY <1>5, <2>1, <2>2, <2>3, <2>4, <2>5 DEF RequestStep
<1>6. CASE ClientStep
    BY <1>2, <1>6 DEF ClientStep, FindSession, ClientJoins, ClientRefused, AnnounceJoin,
                      ClientEnds, GuestEnds, GuestFarewell, GuestLeaves
<1>7. CASE DeleteStep \/ HubStep \/ UNCHANGED allVars
    BY <1>2, <1>7 DEF DeleteStep, DeleteRow, DisconnectDeleted, HubStep, AnnounceEnd,
                      GraceTimers, Sweep, allVars, handlerVars
<1> QED
    BY <1>3, <1>4, <1>5, <1>6, <1>7, StepKinds

\* What a handler is yet to announce was its device's.
LEMMA HostsFreshStep ==
    ASSUME HandlerInv, HostsFresh, [SignalingNext]_allVars
    PROVE  HostsFresh'
<1> USE DEF HostsFresh, HandlerInv, HandlerTypeOK
<1>1. CASE HostStep
    <2>1. PICK x \in Servers : /\ hosts'[x].stage = "none" => hosts'[x].resumed = {}
                               /\ \A w \in Servers : w # x => hosts'[w] = hosts[w]
        BY <1>1 DEF HostStep, CheckOwner, HostRefused, AnnounceResumed, HostEnds
    <2> QED
        BY <2>1
<1>2. ASSUME NEW x \in Servers, HostJoins(x) PROVE HostsFresh'
    BY <1>2 DEF HostJoins
<1>3. CASE UNCHANGED hosts
    BY <1>3
<1>4. CASE RequestStep \/ ClientStep
    BY <1>3, <1>4 DEF RequestStep, RequestSession, LookUpGuest, RequestGuestSession,
           GuestRefused, NotifyHost, RegisterGuest, ClientStep, FindSession, ClientJoins,
           ClientRefused, AnnounceJoin, ClientEnds, GuestEnds, GuestFarewell,
           GuestLeaves, handlerVars
<1>5. CASE DeleteStep \/ HubStep \/ UNCHANGED allVars
    BY <1>3, <1>5 DEF DeleteStep, DeleteRow, DisconnectDeleted, HubStep, AnnounceEnd,
           GraceTimers, Sweep, allVars, handlerVars
<1> QED
    BY <1>1, <1>2, <1>4, <1>5, StepKinds

\* A session is announced to its host or about to be, after every step.
LEMMA HostInvStep ==
    ASSUME HandlerInv, TypeInv, SessionInv, AuthSessionRoute, HostInv,
           [SignalingNext]_allVars
    PROVE  HostInv'
<1>1. OnlineOpen' /\ HostsFresh'
    BY StepIsHubStep, OnlineOpenStep, HostsFreshStep DEF HostInv, HandlerInv
<1>2. SUFFICES ASSUME NEW s \in SessionIDs, Served(s)' PROVE Known(s)'
    <2>1. sessions' \subseteq SessionIDs
        BY StepIsHubStep, TypeInvStep DEF HandlerInv, TypeInv, TypeOK
    <2> QED
        BY <1>1, <2>1 DEF HostInv, HostKnowsSession, Served, Known
<1>3. ASSUME Served(s), serverConn'[s] = serverConn[s]
      PROVE  Known(s)'
    <2>1. Known(s)
        BY <1>3 DEF HostInv, HostKnowsSession, Served, Known
    <2> QED
        BY <1>3, <2>1, ServedByOpen, KnownStays DEF HostInv, Served
<1>4. ASSUME NEW w \in Servers, HostJoins(w) PROVE Known(s)'
    <2> DEFINE d == hosts[w].device
    <2>1. CASE s \in SessionsOf(d)
        <3>1. serverConn'[s] = w
            BY <1>4, <2>1 DEF HostJoins, AddServer
        <3>2. hosts'[w].resumed = Resumed(d)
            BY <1>4 DEF HostJoins, HandlerInv, HandlerTypeOK
        <3> QED
            BY <2>1, <3>1, <3>2 DEF Known, Resumed
    <2>2. CASE s \notin SessionsOf(d)
        <3>1. Served(s) /\ serverConn'[s] = serverConn[s]
            BY <1>2, <1>4, <2>2
               DEF HostJoins, AddServer, Served, IsGuest, SessionsOf, TypeInv, TypeOK
        <3> QED
            BY <1>3, <3>1
    <2> QED
        BY <2>1, <2>2
<1>5. ASSUME NEW x \in SessionIDs, NEW u, NEW o, NEW d, NEW v, NewSession(x, u, o, d, v),
             x # s
      PROVE  Known(s)'
    <2>1. Served(s) /\ serverConn'[s] = serverConn[s]
        BY <1>2, <1>5 DEF NewSession, Served, IsGuest, TypeInv, TypeOK
    <2> QED
        BY <1>3, <2>1
<1>6. ASSUME NEW x \in SessionIDs, NEW u \in Users, NEW d \in Devices,
             RequestSession(u, d, x)
      PROVE  Known(s)'
    <2>1. CASE x = s
        BY <1>6, <2>1 DEF RequestSession, Known, HandlerInv, HandlerTypeOK
    <2> QED
        BY <1>5, <1>6, <2>1 DEF RequestSession, CreateSession
<1>7. ASSUME NEW x \in SessionIDs, RequestGuestSession(x) PROVE Known(s)'
    <2>1. x # s
        BY <1>2, <1>7 DEF RequestGuestSession, CreateGuestSession, NewSession, Served,
                          IsGuest, TypeInv, TypeOK
    <2> QED
        BY <1>5, <1>7, <2>1 DEF RequestGuestSession, CreateGuestSession
<1>8. ASSUME \/ CommonStep
             \/ \E x \in SessionIDs : RemoveSession(x) \/ Teardown(x)
             \/ UNCHANGED vars
      PROVE  Known(s)'
    BY <1>2, <1>3, <1>8, ServedBefore
<1>9. ASSUME NEW c \in Clients, GuestLeaves(c) PROVE Known(s)'
    BY <1>8, <1>9 DEF GuestLeaves, HandlerInv, HandlersKnow
<1>10. ASSUME NEW x \in SessionIDs, AnnounceEnd(x) PROVE Known(s)'
    BY <1>8, <1>10 DEF AnnounceEnd
<1> QED
    BY <1>4, <1>6, <1>7, <1>8, <1>9, <1>10, StepEffects

\* The hub's invariants hold under its handlers.
LEMMA UnderHandlers ==
    SignalingSpec => [](HandlerInv /\ HubInv /\ RouteInv)
<1>1. SignalingInit => HandlerInv /\ TypeInv
    BY HandlerInvInit, TypeInvInit DEF SignalingInit
<1>2. HandlerInv /\ TypeInv /\ [SignalingNext]_allVars => (HandlerInv /\ TypeInv)'
    BY HandlerInvStep, TypeInvStep, StepIsHubStep DEF HandlerInv
<1> QED
    BY <1>1, <1>2, HandlersDriveHub, HubInvariants, RouteInvariant, PTL DEF SignalingSpec

\* Each user's session has been announced to the host it is routed to, by
\* session_request, room_ready or the announcements of AddServer, unless one of
\* them is still under way.
THEOREM HostsKnowTheirSessions == SignalingSpec => []HostKnowsSession
<1>1. SignalingInit => HostInv
    BY DEF SignalingInit, Init, HostInv, OnlineOpen, HostsFresh, HostKnowsSession, NoHost
<1>2. HandlerInv /\ HubInv /\ RouteInv /\ HostInv /\ [SignalingNext]_allVars => HostInv'
    BY HostInvStep DEF HubInv, RouteInv
<1>3. HostInv => HostKnowsSession
    BY DEF HostInv
<1> QED
    BY <1>1, <1>2, <1>3, UnderHandlers, PTL DEF SignalingSpec

--------------------------------------------------------------------------------
(* The peers of a session are told of its end.                                *)

\* A client's handler works for a session that has been in the map, and
\* SetSessionClient is called once.
ClientsBelong ==
    /\ \A c \in Clients :
          clients[c].stage # "none" => session[clients[c].session] # NoSession
    /\ \A c \in attached : clients[c].stage \notin {"none", "found"}

\* A client has joined s, and the hub still knows of it.
Met(s) == clientConn[s] # NONE \/ "client" \in stale[s]

JoinedMet == \A s \in sessions : Joined(s) => Met(s)

\* Nobody is told of the end of a session that could still be or become live,
\* but by a guestReadPump that goes on to remove it.
ByesFinal ==
    \A x \in Servers \cup Clients, s \in SessionIDs :
        <<x, s>> \in byes =>
            session[s] # NoSession /\ (GuestPumpEnded(s) \/ s \notin sessions)

\* What is to be delivered once s has gone, whatever has closed since.
Farewell(s) == Delivered(serverConn[s], s) \cup DeliveredToClient(s) \subseteq byes

Gone(s) == session[s] # NoSession /\ s \notin sessions \cup teardown

PeersInv ==
    /\ ClientsBelong
    /\ JoinedMet
    /\ ByesFinal
    /\ \A s \in SessionIDs : Gone(s) /\ ~GuestPumpEnded(s) /\ Joined(s) => Farewell(s)

GuestPumpStages == {"farewell", "leaving", "panicked", "left"}

\* How the handler of a client goes on.
ClientGoesOn(c) ==
    /\ clients[c].stage \notin {"none", "found"} =>
          /\ clients'[c].stage \notin {"none", "found"}
          /\ clients'[c].session = clients[c].session
    /\ clients'[c].stage # "none" =>
          \/ clients[c].stage # "none" /\ clients'[c].session = clients[c].session
          \/ clients'[c].stage = "found" /\ clients'[c].session \in sessions
    /\ clients[c].stage \in {"left", "ended"} => clients'[c].stage = clients[c].stage
    /\ clients[c].stage \in GuestPumpStages => clients'[c].stage \in GuestPumpStages

\* A client's handler keeps its session and goes only forward, once upgraded.
LEMMA ClientsGoOn ==
    ASSUME HandlerInv, TypeInv, [SignalingNext]_allVars, NEW c \in Clients
    PROVE  ClientGoesOn(c)
<1> USE DEF ClientGoesOn, GuestPumpStages, HandlerInv, HandlerTypeOK
<1>1. CASE clients'[c] = clients[c]
    BY <1>1
<1>2. CASE UNCHANGED clients
    BY <1>1, <1>2
<1>3. ASSUME NEW x \in Clients, NEW s \in SessionIDs, FindSession(x, s)
      PROVE  ClientGoesOn(c)
    <2>1. x = c => clients[c].stage = "none" /\ s \in sessions
                   /\ clients'[c].stage = "found" /\ clients'[c].session = s
        BY <1>3 DEF FindSession, NoClient
    <2>2. x # c => clients'[c] = clients[c]
        BY <1>3 DEF FindSession
    <2> QED
        BY <1>1, <2>1, <2>2
<1>4. ASSUME NEW x \in Clients, ClientJoins(x) PROVE ClientGoesOn(c)
    <2>1. x = c => clients[c].stage = "found" /\ clients'[c].stage = "joined"
                   /\ clients'[c].session = clients[c].session
        BY <1>4 DEF ClientJoins
    <2>2. x # c => clients'[c] = clients[c]
        BY <1>4 DEF ClientJoins
    <2> QED
        BY <1>1, <2>1, <2>2
<1>5. ASSUME NEW x \in Clients, AnnounceJoin(x) \/ ClientEnds(x)
      PROVE  ClientGoesOn(c)
    <2>1. x = c => /\ clients[c].stage \in {"joined", "pump"}
                   /\ clients'[c].stage \in {"pump", "ended"}
                   /\ clients'[c].session = clients[c].session
        BY <1>5 DEF AnnounceJoin, ClientEnds
    <2>2. x # c => clients'[c] = clients[c]
        BY <1>5 DEF AnnounceJoin, ClientEnds
    <2> QED
        BY <1>1, <2>1, <2>2
<1>6. ASSUME NEW x \in Clients, GuestEnds(x) \/ GuestFarewell(x) \/ GuestLeaves(x)
      PROVE  ClientGoesOn(c)
    <2>1. x = c => /\ clients[c].stage \in {"pump", "farewell", "leaving"}
                   /\ clients'[c].stage \in GuestPumpStages
                   /\ clients'[c].session = clients[c].session
        BY <1>6 DEF GuestEnds, GuestFarewell, GuestLeaves
    <2>2. x # c => clients'[c] = clients[c]
        BY <1>6 DEF GuestEnds, GuestFarewell, GuestLeaves
    <2> QED
        BY <1>1, <2>1, <2>2
<1>7. ASSUME NEW x \in Clients, ClientRefused(x) PROVE ClientGoesOn(c)
    <2>1. x = c => clients[c].stage = "found" /\ clients'[c].stage = "none"
        BY <1>7 DEF ClientRefused, NoClient
    <2>2. x # c => clients'[c] = clients[c]
        BY <1>7 DEF ClientRefused
    <2> QED
        BY <1>1, <2>1, <2>2
<1>8. CASE ClientStep
    BY <1>3, <1>4, <1>5, <1>6, <1>7, <1>8 DEF ClientStep
<1>9. CASE \/ HostStep \/ DeleteStep \/ RequestStep \/ HubStep \/ UNCHANGED allVars
           \/ \E w \in Servers : HostJoins(w)
    BY <1>2, <1>9 DEF HostStep, CheckOwner, HostRefused, AnnounceResumed, HostEnds,
           DeleteStep, DeleteRow, DisconnectDeleted, RequestStep, RequestSession,
           LookUpGuest, RequestGuestSession, GuestRefused, NotifyHost, RegisterGuest,
           HubStep, AnnounceEnd, GraceTimers, Sweep, HostJoins, allVars, handlerVars
<1> QED
    BY <1>8, <1>9, StepKinds

\* A guest's read pump that has reached its deferred function stays there.
LEMMA PumpEndedStays ==
    ASSUME HandlerInv, TypeInv, [SignalingNext]_allVars, NEW s, GuestPumpEnded(s)
    PROVE  GuestPumpEnded(s)'
<1>1. PICK c \in Clients : clients[c].session = s /\ clients[c].stage \in GuestPumpStages
    BY DEF GuestPumpEnded, GuestPumpStages
<1>2. clients'[c].session = s /\ clients'[c].stage \in GuestPumpStages
    BY <1>1, ClientsGoOn DEF ClientGoesOn, GuestPumpStages
<1> QED
    BY <1>2 DEF GuestPumpEnded, GuestPumpStages

\* Only SetSessionClient attaches a client, and it is then in its session.
LEMMA Attaches ==
    ASSUME HandlerInv, TypeInv, [SignalingNext]_allVars, NEW c \in attached' \ attached
    PROVE  LET s == clients[c].session
           IN  /\ SetSessionClient(s, c)
               /\ s \in SessionIDs
               /\ clients'[c].stage = "joined" /\ clients'[c].session = s
<1>1. CASE UNCHANGED attached
    BY <1>1
<1>2. ASSUME NEW x \in Clients, ClientJoins(x) PROVE x = c \/ UNCHANGED attached
    BY <1>2 DEF ClientJoins, SetSessionClient, vars
<1>3. CASE ClientJoins(c) /\ c \in Clients
    <2>1. /\ clients[c].session \in SessionIDs
          /\ clients'[c].stage = "joined"
          /\ clients'[c].session = clients[c].session
        BY <1>3 DEF ClientJoins, HandlerInv, HandlersKnow, HandlerTypeOK
    <2>2. SetSessionClient(clients[c].session, c)
        BY <1>3 DEF ClientJoins, vars
    <2> QED
        BY <2>1, <2>2
<1>4. ASSUME NEW w \in Servers, RemoveServerConn(w) PROVE UNCHANGED attached
    BY <1>4 DEF RemoveServerConn
<1>5. CASE \/ HostStep \/ DeleteStep \/ RequestStep \/ HubStep \/ UNCHANGED allVars
           \/ \E w \in Servers : HostJoins(w)
    <2>1. UNCHANGED attached
        BY <1>4, <1>5
           DEF HostStep, CheckOwner, HostRefused, AnnounceResumed, HostEnds, DeleteStep,
               DeleteRow, DisconnectDeleted, RemoveServer, RequestStep, RequestSession,
               LookUpGuest, RequestGuestSession, GuestRefused, NotifyHost, RegisterGuest,
               HubStep, AnnounceEnd, GraceTimers, Sweep, HostJoins, allVars, vars,
               AddServer, CreateSession, CreateGuestSession, NewSession,
               RegisterGuestDevice, Teardown, TimerFires, ExpireGrace,
               CleanupStaleSessions
    <2> QED
        BY <1>1, <2>1
<1>6. CASE ClientStep
    <2>1. \/ UNCHANGED attached
          \/ \E x \in Clients : ClientJoins(x)
        BY <1>6 DEF ClientStep, FindSession, ClientRefused, AnnounceJoin, ClientEnds,
               GuestEnds, GuestFarewell, GuestLeaves, MarkClientStale, RemoveSession, vars
    <2> QED
        BY <1>1, <1>2, <1>3, <2>1
<1> QED
    BY <1>5, <1>6, StepKinds

\* A connection of a session is the socket of a handler that joined it.
LEMMA ClientsBelongStep ==
    ASSUME HandlerInv, TypeInv, ClientsBelong, [SignalingNext]_allVars
    PROVE  ClientsBelong'
<1>1. [Next]_vars
    BY StepIsHubStep DEF HandlerInv
<1>2. ASSUME NEW c \in Clients, clients'[c].stage # "none"
      PROVE  session'[clients'[c].session] # NoSession
    <2> DEFINE s == clients'[c].session
    <2>1. s \in SessionIDs /\ session[s] # NoSession
        <3>1. CASE s \in sessions
            BY <3>1, Unmade DEF TypeInv, TypeOK, Created
        <3>2. CASE clients[c].stage # "none" /\ s = clients[c].session
            BY <3>2 DEF ClientsBelong, HandlerInv, HandlersKnow
        <3> QED
            BY <1>2, <3>1, <3>2, ClientsGoOn DEF ClientGoesOn
    <2> HIDE DEF s
    <2>2. session'[s] # NoSession
        BY <1>1, <2>1, SessionsFixed
    <2> QED
        BY <2>2 DEF s
<1>3. ASSUME NEW c \in attached' PROVE clients'[c].stage \notin {"none", "found"}
    <2>1. CASE c \in attached
        BY <2>1, ClientsGoOn DEF ClientGoesOn, ClientsBelong, TypeInv, TypeOK
    <2>2. CASE c \notin attached
        BY <2>2, Attaches
    <2> QED
        BY <2>1, <2>2
<1> QED
    BY <1>2, <1>3 DEF ClientsBelong

\* A client that has been met is met until the session goes.
LEMMA MetStays ==
    ASSUME TypeInv, [Next]_vars, NEW s \in sessions, s \in sessions', Met(s)
    PROVE  Met(s)'
<1> USE DEF Met, TypeInv, TypeOK
<1>1. ASSUME NEW w \in Servers, NEW d \in Devices, NEW u \in Users, AddServer(w, d, u)
      PROVE  Met(s)'
    BY <1>1 DEF AddServer
<1>2. ASSUME NEW d \in Devices, RemoveServer(d) PROVE Met(s)'
    BY <1>2 DEF RemoveServer, RemoveCleared
<1>3. ASSUME NEW w \in Servers, RemoveServerConn(w) PROVE Met(s)'
    <2>1. ASSUME NEW x \in SessionsOf(server[w].device), MarkSideStale(x, "server", {})
          PROVE  s \in sessions' => stale[s] \subseteq stale'[s]
        <3>1. PICK gone \in SUBSET SessionIDs : Marked(x, "server", gone)
            BY <2>1, MarkEffect DEF SessionsOf, Sides
        <3> QED
            BY <3>1 DEF Marked
    <2> QED
        BY <1>3, <2>1 DEF RemoveServerConn
<1>4. ASSUME NEW x \in SessionIDs, NEW c \in Clients, MarkClientStale(x, c) PROVE Met(s)'
    <2>1. PICK gone \in SUBSET SessionIDs : Marked(x, "client", gone)
        BY <1>4, MarkEffect DEF MarkClientStale, Sides
    <2> QED
        BY <1>4, <2>1 DEF Marked, MarkClientStale
<1>5. ASSUME NEW x \in SessionIDs, NEW c \in Clients, SetSessionClient(x, c) PROVE Met(s)'
    BY <1>5, HubAssumption DEF SetSessionClient
<1>6. ASSUME NEW x \in SessionIDs, RemoveSession(x) PROVE Met(s)'
    BY <1>6 DEF RemoveSession, RemoveCleared
<1>7. CASE UNCHANGED <<clientConn, stale>>
    BY <1>7
<1> QED
    BY <1>1, <1>2, <1>3, <1>4, <1>5, <1>6, <1>7
       DEF Next, vars, sessionVars, CreateSession, CreateGuestSession, NewSession,
           TimerFires, ExpireGrace, Teardown, CleanupStaleSessions, RegisterGuestDevice,
           UnregisterGuestDevice, CreateRoom, RemoveRoom

\* A session newly joined is live and met.
LEMMA JoinedBefore ==
    ASSUME HandlerInv, TypeInv, ClientsBelong, [SignalingNext]_allVars,
           NEW s \in SessionIDs, Joined(s)'
    PROVE  \/ Joined(s) /\ session[s] # NoSession
           \/ s \in sessions' /\ Met(s)'
<1>1. PICK c \in attached' : clients'[c].session = s
    BY DEF Joined
<1>2. CASE c \in attached
    BY <1>1, <1>2, ClientsGoOn DEF ClientGoesOn, ClientsBelong, Joined, TypeInv, TypeOK
<1>3. CASE c \notin attached
    <2>1. SetSessionClient(s, c) /\ c \in Clients
        <3>1. c \in Clients
            BY StepIsHubStep, TypeInvStep DEF HandlerInv, TypeInv, TypeOK
        <3> QED
            BY <1>1, <1>3, <3>1, Attaches
    <2> QED
        BY <2>1, HubAssumption DEF SetSessionClient, Met, TypeInv, TypeOK
<1> QED
    BY <1>2, <1>3

\* peer_disconnected is sent by guestReadPump and by teardownSession.
LEMMA ByesGrow ==
    ASSUME [SignalingNext]_allVars
    PROVE  /\ byes \subseteq byes'
           /\ \A x, s : <<x, s>> \in byes' \ byes =>
                 \/ \E c \in Clients :
                       clients[c].stage = "farewell" /\ clients[c].session = s
                 \/ s \in teardown /\ sessions' = sessions
<1>1. ASSUME NEW c \in Clients, GuestFarewell(c)
      PROVE  /\ clients[c].stage = "farewell"
             /\ byes \subseteq byes'
             /\ \A x, s : <<x, s>> \in byes' \ byes => s = clients[c].session
    BY <1>1 DEF GuestFarewell, Delivered
<1>2. ASSUME NEW t \in SessionIDs, AnnounceEnd(t)
      PROVE  /\ t \in teardown /\ sessions' = sessions
             /\ byes \subseteq byes'
             /\ \A x, s : <<x, s>> \in byes' \ byes => s = t
    BY <1>2 DEF AnnounceEnd, Teardown, sessionVars, Delivered, DeliveredToClient
<1>3. \/ UNCHANGED byes
      \/ \E c \in Clients : GuestFarewell(c)
      \/ \E t \in SessionIDs : AnnounceEnd(t)
    BY DEF SignalingNext, CheckOwner, HostJoins, HostRefused, AnnounceResumed, HostEnds,
           DeleteRow, DisconnectDeleted, RequestSession, LookUpGuest, RequestGuestSession,
           GuestRefused, NotifyHost, RegisterGuest, FindSession, ClientJoins,
           ClientRefused, AnnounceJoin, ClientEnds, GuestEnds, GuestLeaves, GraceTimers,
           Sweep, allVars, handlerVars
<1>4. CASE UNCHANGED byes
    BY <1>4
<1>5. CASE \E c \in Clients : GuestFarewell(c)
    BY <1>1, <1>5
<1>6. CASE \E t \in SessionIDs : AnnounceEnd(t)
    BY <1>2, <1>6
<1> QED
    BY <1>3, <1>4, <1>5, <1>6

\* Unless a guestReadPump ends the session, peer_disconnected is only sent when
\* it has left the map.
LEMMA ByesFinalStep ==
    ASSUME HandlerInv, TypeInv, SessionInv, ClientsBelong, ByesFinal,
           [SignalingNext]_allVars
    PROVE  ByesFinal'
<1> SUFFICES ASSUME NEW x \in Servers \cup Clients, NEW s \in SessionIDs,
                    <<x, s>> \in byes'
             PROVE  /\ session'[s] # NoSession
                    /\ GuestPumpEnded(s)' \/ s \notin sessions'
    BY DEF ByesFinal
<1>1. [Next]_vars
    BY StepIsHubStep DEF HandlerInv
<1>2. session[s] # NoSession /\ (GuestPumpEnded(s) \/ s \notin sessions)
    <2>1. CASE <<x, s>> \in byes
        BY <2>1 DEF ByesFinal
    <2>2. ASSUME NEW c \in Clients,
                 clients[c].stage = "farewell", clients[c].session = s
          PROVE  session[s] # NoSession /\ GuestPumpEnded(s)
        BY <2>2 DEF ClientsBelong, GuestPumpEnded
    <2>3. CASE s \in teardown
        BY <2>3 DEF SessionInv, TeardownUsed
    <2> QED
        BY <2>1, <2>2, <2>3, ByesGrow
<1> QED
    BY <1>1, <1>2, SessionsFixed, PumpEndedStays

\* A session waits to be announced until it is.
LEMMA TeardownStays ==
    ASSUME HandlerInv, TypeInv, [SignalingNext]_allVars, NEW s \in teardown
    PROVE  s \in teardown' \/ AnnounceEnd(s)
<1>1. ASSUME NEW x, NEW side, NEW silent, MarkSideStale(x, side, silent)
      PROVE  teardown \subseteq teardown'
    BY <1>1 DEF MarkSideStale
<1>2. CASE CommonStep
    <2>1. ASSUME NEW w \in Servers, RemoveServerConn(w)
          PROVE  teardown \subseteq teardown'
        BY <1>1, <2>1 DEF RemoveServerConn
    <2> QED
        BY <1>1, <1>2, <2>1
           DEF CommonStep, DropStep, RemoveServer, MarkClientStale, ExpireGrace,
               CleanupStaleSessions, SetSessionClient, TimerFires, RegisterGuestDevice
<1>3. ASSUME NEW t \in SessionIDs, AnnounceEnd(t) PROVE s \in teardown' \/ AnnounceEnd(s)
    BY <1>3 DEF AnnounceEnd, Teardown
<1>4. ASSUME NEW w \in Servers, HostJoins(w) PROVE s \in teardown'
    BY <1>4 DEF HostJoins, AddServer
<1>5. ASSUME NEW t \in SessionIDs, NEW u \in Users, NEW d \in Devices,
             RequestSession(u, d, t)
      PROVE  s \in teardown'
    BY <1>5 DEF RequestSession, CreateSession, NewSession
<1>6. ASSUME NEW t \in SessionIDs, RequestGuestSession(t) PROVE s \in teardown'
    BY <1>6 DEF RequestGuestSession, CreateGuestSession, NewSession
<1>7. ASSUME NEW c \in Clients, GuestLeaves(c) PROVE s \in teardown'
    BY <1>7 DEF GuestLeaves, RemoveSession, vars
<1> QED
    BY <1>2, <1>3, <1>4, <1>5, <1>6, <1>7, StepEffects DEF vars

\* A session that a client has joined never goes unannounced, unless a
\* guestReadPump ends it.
LEMMA EndIsAnnounced ==
    ASSUME HandlerInv, HubInv, [SignalingNext]_allVars,
           NEW s \in sessions \ sessions', Met(s), ~GuestPumpEnded(s)
    PROVE  s \in teardown'
<1>1. CASE DropStep
    BY <1>1, DropsAnnounced DEF Met
<1>2. ASSUME NEW c \in Clients, GuestLeaves(c) PROVE FALSE
    BY <1>2 DEF GuestLeaves, RemoveSession, RemoveCleared, GuestPumpEnded, vars, sessionVars
<1>3. CASE sessions \subseteq sessions'
    BY <1>3
<1>4. \/ DropStep
      \/ \E c \in Clients : GuestLeaves(c)
      \/ sessions \subseteq sessions'
    BY StepEffects
       DEF HubInv, CommonStep, SetSessionClient, TimerFires, RegisterGuestDevice,
           HostJoins, AddServer, RequestSession, CreateSession, RequestGuestSession,
           CreateGuestSession, NewSession, AnnounceEnd, Teardown, vars, sessionVars
<1> QED
    BY <1>1, <1>2, <1>3, <1>4

\* Nothing reopens the sockets a session had when it went, nor binds others.
LEMMA FarewellStays ==
    ASSUME HandlerInv, TypeInv, [SignalingNext]_allVars,
           NEW s \in SessionIDs, s \notin sessions, session[s] # NoSession,
           Delivered(serverConn[s], s) \cup DeliveredToClient(s) \subseteq byes'
    PROVE  Farewell(s)'
<1>1. serverConn'[s] = serverConn[s] /\ clientConn'[s] = clientConn[s]
    BY StepIsHubStep, ConnectionWrites DEF HandlerInv
<1>2. Delivered(serverConn[s], s)' \subseteq Delivered(serverConn[s], s)
    BY <1>1, StepIsHubStep, ClosedStays DEF HandlerInv, Delivered, TypeInv, TypeOK
<1>3. DeliveredToClient(s)' \subseteq DeliveredToClient(s)
    BY <1>1, ClientsGoOn DEF DeliveredToClient, ClientGoesOn, TypeInv, TypeOK
<1> QED
    BY <1>1, <1>2, <1>3 DEF Farewell

\* Every step keeps account of who has been told of the end.
LEMMA PeersInvStep ==
    ASSUME HandlerInv, HubInv, HubInv', PeersInv, [SignalingNext]_allVars
    PROVE  PeersInv'
<1>1. [Next]_vars /\ TypeInv /\ SessionInv /\ TypeInv'
    BY StepIsHubStep DEF HandlerInv, HubInv
<1>2. ClientsBelong' /\ ByesFinal'
    BY <1>1, ClientsBelongStep, ByesFinalStep DEF PeersInv
<1>3. ASSUME NEW s \in sessions', Joined(s)' PROVE Met(s)'
    <2>1. s \in SessionIDs
        BY <1>1 DEF TypeInv, TypeOK
    <2>2. ASSUME Joined(s), session[s] # NoSession PROVE Met(s)'
        <3>1. s \in sessions
            BY <1>1, <2>1, <2>2, SessionsFixed
        <3>2. Met(s)
            BY <2>2, <3>1 DEF PeersInv, JoinedMet
        <3> QED
            BY <1>1, <3>1, <3>2, MetStays
    <2> QED
        BY <1>1, <1>3, <2>1, <2>2, JoinedBefore DEF PeersInv
<1>4. ASSUME NEW s \in SessionIDs, Gone(s)', ~GuestPumpEnded(s)', Joined(s)'
      PROVE  Farewell(s)'
    <2>1. session'[s] # NoSession /\ s \notin sessions' /\ s \notin teardown'
        BY <1>4 DEF Gone
    <2>2. session[s] # NoSession /\ ~GuestPumpEnded(s) /\ Joined(s)
        BY <1>1, <1>4, <2>1, PumpEndedStays, JoinedBefore DEF PeersInv
    <2>3. s \notin sessions
        <3> SUFFICES ASSUME s \in sessions PROVE FALSE
            OBVIOUS
        <3>1. Met(s)
            BY <2>2 DEF PeersInv, JoinedMet
        <3> QED
            BY <2>1, <2>2, <3>1, EndIsAnnounced DEF PeersInv
    <2>4. Delivered(serverConn[s], s) \cup DeliveredToClient(s) \subseteq byes'
        <3>1. CASE s \in teardown
            BY <1>1, <2>1, <3>1, TeardownStays DEF AnnounceEnd
        <3>2. CASE s \notin teardown
            BY <2>2, <2>3, <3>2, ByesGrow DEF PeersInv, Gone, Farewell
        <3> QED
            BY <3>1, <3>2
    <2> QED
        BY <1>1, <2>2, <2>3, <2>4, FarewellStays DEF PeersInv
<1> QED
    BY <1>2, <1>3, <1>4 DEF PeersInv, JoinedMet

\* The last peers of a session that a client had joined get peer_disconnected
\* once teardownSession has run for it, unless their sockets have closed; and
\* nobody gets it for a session that lives on.  Sessions that a socket of
\* /ws/guest has begun to end are excepted, a user's as well as a guest's.
THEOREM PeersHearOfTheEnd == SignalingSpec => []PeersTold
<1>1. SignalingInit => PeersInv
    BY DEF SignalingInit, Init, PeersInv, ClientsBelong, JoinedMet, ByesFinal, Gone, NoClient
<1>2. HandlerInv /\ HubInv /\ HubInv' /\ PeersInv /\ [SignalingNext]_allVars => PeersInv'
    BY PeersInvStep
<1>3. HandlerInv /\ HubInv /\ PeersInv => PeersTold
    <2>1. ASSUME HubInv, ClientsBelong, NEW s \in SessionIDs, Joined(s)
          PROVE  session[s] # NoSession
        BY <2>1 DEF Joined, ClientsBelong, HubInv, TypeInv, TypeOK
    <2> QED
        BY <2>1 DEF PeersInv, ByesFinal, Gone, Farewell, PeersTold
<1> QED
    BY <1>1, <1>2, <1>3, UnderHandlers, PTL DEF SignalingSpec
================================================================================
