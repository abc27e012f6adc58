--------------------------------- MODULE Room ----------------------------------
(******************************************************************************)
(* One room, its admissions and the connections of its clients:               *)
(* internal/relay/room.go with the handlers of internal/room/handler.go that  *)
(* drive it.                                                                  *)
(*                                                                            *)
(* A client is admitted by POST /rooms/join, then attaches a websocket, may   *)
(* lose it and attach another while its admission lasts.  Each section under  *)
(* r.mu is one action and each notice to the host, sent after it, another; a  *)
(* handler is several, so requests for one client id, notices, expiry and the *)
(* room's closing interleave.  Time is abstracted to the set of admissions    *)
(* whose deadline has passed.  That a notice sent to an open room reaches the *)
(* host is the subject of ServerRoute.                                        *)
(******************************************************************************)
EXTENDS Naturals, FiniteSets

CONSTANTS
    ClientIDs,          \* ids drawn by uuid.New in Join; never repeated
    Conns,              \* *Connection objects, one for each upgraded request
    Owner,              \* r.OwnerUserID
    Guests,             \* the other callers' user ids, "" among them
    MaxClientsPerRoom,  \* 3 in the code
    NONE                \* nil

Callers == Guests \cup {Owner}
Roles   == {"host", "viewer"}
RoomClients == [user: Callers, role: Roles]
Notices == {"room_ready", "client_left"}

ASSUME RoomAssumption ==
    /\ MaxClientsPerRoom \in Nat \ {0}
    /\ NONE \notin Conns \cup ClientIDs \cup RoomClients \cup Notices
    /\ Owner \notin Guests

VARIABLES
    drawn,      \* client ids Join has drawn
    admission,  \* r.admissions: client.UserID and client.Role, NONE if no key
    conn,       \* admission.client.Conn
    expired,    \* admissions whose expiresAt is zero or has passed
    clients,    \* the keys of r.Clients
    closed,     \* r.closed
    mustClose,  \* RemoveRoom has marked the room and will close its clients
    handler,    \* progress of the HandleRoomWS that owns a connection
    target,     \* the client id of its request
    toClose,    \* connections another goroutine is about to close
    shut,       \* connections that have been closed
    heard,      \* the last notice on a client that its host was sent
    overlapped  \* history: clients that attached while a handler of an earlier
                \* connection of theirs was under way

memberVars == <<admission, conn, expired, clients>>
noticeVars == <<heard, overlapped>>
vars == <<drawn, memberVars, closed, mustClose, handler, target, toClose, shut,
          noticeVars>>

\* A bound connection's handler announces the client, reads, and, if it was still
\* bound at its end, announces the departure.
UnderWay == {"attached", "reading", "leaving"}
Bound    == {"attached", "reading"}
HandlerStates == {"unused", "upgraded", "ended"} \cup UnderWay

admissions == {id \in ClientIDs : admission[id] # NONE}

TypeOK ==
    /\ drawn \subseteq ClientIDs
    /\ admission \in [ClientIDs -> RoomClients \cup {NONE}]
    /\ admissions \subseteq drawn
    /\ conn \in [ClientIDs -> Conns \cup {NONE}]
    /\ expired \subseteq admissions
    /\ clients \subseteq admissions
    /\ closed \in BOOLEAN
    /\ mustClose \in BOOLEAN
    /\ handler \in [Conns -> HandlerStates]
    /\ target \in [Conns -> ClientIDs \cup {NONE}]
    /\ toClose \subseteq Conns
    /\ shut \subseteq Conns
    /\ heard \in [ClientIDs -> Notices \cup {NONE}]
    /\ overlapped \subseteq ClientIDs

Init ==
    /\ drawn = {}
    /\ admission = [id \in ClientIDs |-> NONE]
    /\ conn = [id \in ClientIDs |-> NONE]
    /\ expired = {}
    /\ clients = {}
    /\ closed = FALSE
    /\ mustClose = FALSE
    /\ handler = [k \in Conns |-> "unused"]
    /\ target = [k \in Conns |-> NONE]
    /\ toClose = {}
    /\ shut = {}
    /\ heard = [id \in ClientIDs |-> NONE]
    /\ overlapped = {}

--------------------------------------------------------------------------------
(* Admission.                                                                 *)

\* Mutation: the deadline alone decides, and a connected client's is zero.
PrunableIfExpired == admissions \cap expired

\* pruneExpiredAdmissionsLocked drops the admissions without a connection whose
\* deadline has passed; these remain.
Prunable == {id \in admissions \cap expired : conn[id] = NONE}
Remaining == admissions \ Prunable
Pruned == [id \in ClientIDs |-> IF id \in Prunable THEN NONE ELSE admission[id]]

\* determineRoleLocked.
RoleOf(u) == IF u = Owner \/ Remaining = {} THEN "host" ELSE "viewer"

\* Mutation: only the connected clients count.
MayReserveByConnected == ~closed /\ Cardinality(clients) < MaxClientsPerRoom

\* ReserveClient's checks; a fresh id is never admitted already.
MayReserve == ~closed /\ Cardinality(Remaining) < MaxClientsPerRoom

\* POST /rooms/join: ReserveClient for a fresh id.
Join(id, u) ==
    /\ id \notin drawn
    /\ MayReserve
    /\ drawn' = drawn \cup {id}
    /\ admission' = [Pruned EXCEPT ![id] = [user |-> u, role |-> RoleOf(u)]]
    /\ expired' = expired \ Prunable
    /\ clients' = clients \ Prunable
    /\ UNCHANGED <<conn, closed, mustClose, handler, target, toClose, shut, noticeVars>>

\* The deadline of an admission without a connection passes.
Expire(id) ==
    /\ id \in admissions \ expired
    /\ conn[id] = NONE
    /\ expired' = expired \cup {id}
    /\ UNCHANGED <<drawn, admission, conn, clients, closed,
                   mustClose, handler, target, toClose, shut, noticeVars>>

\* Mutation: rooms with a connected client are not swept.
PruneExpiredIfNobody ==
    /\ Prunable # {}
    /\ clients = {}
    /\ admission' = Pruned
    /\ expired' = expired \ Prunable
    /\ UNCHANGED <<drawn, conn, clients, closed, mustClose, handler,
                   target, toClose, shut, noticeVars>>

\* The periodic PruneExpiredAdmissions, and every call that changes nothing else:
\* ClientCount, IsFull, a HasValidAdmission or ReserveClient that refuses.
PruneExpired ==
    /\ Prunable # {}
    /\ admission' = Pruned
    /\ expired' = expired \ Prunable
    /\ clients' = clients \ Prunable
    /\ UNCHANGED <<drawn, conn, closed, mustClose, handler, target,
                   toClose, shut, noticeVars>>

--------------------------------------------------------------------------------
(* The websocket of a client: HandleRoomWS.                                   *)

\* HasValidAdmission holds, the request is upgraded to connection k.
Upgrade(k, id) ==
    /\ handler[k] = "unused"
    /\ id \in Remaining
    /\ ~closed
    /\ admission' = Pruned
    /\ expired' = expired \ Prunable
    /\ clients' = clients \ Prunable
    /\ handler' = [handler EXCEPT ![k] = "upgraded"]
    /\ target' = [target EXCEPT ![k] = id]
    /\ UNCHANGED <<drawn, conn, closed, mustClose, toClose, shut,
                   noticeVars>>

Overlaps(k) ==
    {target[j] : j \in {j \in Conns : handler[j] \in UnderWay /\ target[j] = target[k]}}

\* Mutation: the admission found before the upgrade is trusted.
AttachClientUnchecked(k) ==
    LET id == target[k]
    IN  /\ handler[k] = "upgraded"
        /\ ~closed
        /\ admission' = Pruned
        /\ conn' = [conn EXCEPT ![id] = k]
        /\ expired' = (expired \ Prunable) \cup {id}
        /\ clients' = (clients \ Prunable) \cup {id}
        /\ toClose' = toClose \cup ({conn[id]} \ {NONE})
        /\ handler' = [handler EXCEPT ![k] = "attached"]
        /\ overlapped' = overlapped \cup Overlaps(k)
        /\ UNCHANGED <<drawn, closed, mustClose, target, shut, heard>>

\* The admission is checked again; a connection it replaces is closed once the
\* lock is released.  The deadline of a connected client is the zero time.
AttachClient(k) ==
    LET id == target[k]
    IN  /\ handler[k] = "upgraded"
        /\ ~closed
        /\ id \in Remaining
        /\ admission' = Pruned
        /\ conn' = [conn EXCEPT ![id] = k]
        /\ expired' = (expired \ Prunable) \cup {id}
        /\ clients' = (clients \ Prunable) \cup {id}
        /\ toClose' = toClose \cup ({conn[id]} \ {NONE})
        /\ handler' = [handler EXCEPT ![k] = "attached"]
        /\ overlapped' = overlapped \cup Overlaps(k)
        /\ UNCHANGED <<drawn, closed, mustClose, target, shut, heard>>

\* The room has closed or the admission has expired since Upgrade.
AttachRefused(k) ==
    /\ handler[k] = "upgraded"
    /\ \/ /\ closed
          /\ UNCHANGED memberVars
       \/ /\ ~closed
          /\ target[k] \notin Remaining
          /\ admission' = Pruned
          /\ expired' = expired \ Prunable
          /\ clients' = clients \ Prunable
          /\ UNCHANGED conn
    /\ handler' = [handler EXCEPT ![k] = "ended"]
    /\ shut' = shut \cup {k}
    /\ UNCHANGED <<drawn, closed, mustClose, target, toClose, noticeVars>>

\* SendJSONToServer of a notice on id; a closed room sends none.
Notify(id, notice) == heard' = IF closed THEN heard ELSE [heard EXCEPT ![id] = notice]

\* The handler of k tells the host about its client before it starts to read.
AnnounceReady(k) ==
    /\ handler[k] = "attached"
    /\ handler' = [handler EXCEPT ![k] = "reading"]
    /\ Notify(target[k], "room_ready")
    /\ UNCHANGED <<drawn, memberVars, closed, mustClose, target, toClose, shut,
                   overlapped>>

\* Mutation: RemoveClient does not compare the connection.
DetachesAny(k) == target[k] \in clients

\* Mutation: the handler does not call RemoveClient.
DetachesNever(k) == FALSE

\* k is the connection its client is bound to.
Detaches(k) == target[k] \in clients /\ conn[target[k]] = k

\* The read pump of k ends: RemoveClient detaches k if it is still the bound
\* connection and restarts the admission's deadline; k is closed either way.
PumpEnds(k) ==
    LET id == target[k]
    IN  /\ handler[k] = "reading"
        /\ \/ /\ Detaches(k)
              /\ clients' = clients \ {id}
              /\ conn' = [conn EXCEPT ![id] = NONE]
              /\ expired' = expired \ {id}
              /\ handler' = [handler EXCEPT ![k] = "leaving"]
           \/ /\ ~Detaches(k)
              /\ handler' = [handler EXCEPT ![k] = "ended"]
              /\ UNCHANGED <<clients, conn, expired>>
        /\ shut' = shut \cup {k}
        /\ UNCHANGED <<drawn, admission, closed, mustClose, target,
                       toClose, noticeVars>>

\* Mutation: only the departure of a client that is still admitted is announced.
AnnounceLeftIfAdmitted(k) ==
    /\ handler[k] = "leaving"
    /\ handler' = [handler EXCEPT ![k] = "ended"]
    /\ IF target[k] \in admissions THEN Notify(target[k], "client_left")
       ELSE UNCHANGED heard
    /\ UNCHANGED <<drawn, memberVars, closed, mustClose, target, toClose, shut,
                   overlapped>>

\* The deferred function goes on: the host is told that the client has left.
AnnounceLeft(k) ==
    /\ handler[k] = "leaving"
    /\ handler' = [handler EXCEPT ![k] = "ended"]
    /\ Notify(target[k], "client_left")
    /\ UNCHANGED <<drawn, memberVars, closed, mustClose, target, toClose, shut,
                   overlapped>>

\* The goroutine that replaced k, or that closes the room, closes k.
CloseConn(k) ==
    /\ k \in toClose
    /\ toClose' = toClose \ {k}
    /\ shut' = shut \cup {k}
    /\ UNCHANGED <<drawn, memberVars, closed, mustClose, handler, target, noticeVars>>

--------------------------------------------------------------------------------
(* The end of the room.                                                       *)

\* markClosed, by RemoveRoom, which calls CloseAllClients after releasing h.mu.
MarkClosed ==
    /\ ~closed
    /\ closed' = TRUE
    /\ mustClose' = TRUE
    /\ UNCHANGED <<drawn, memberVars, handler, target, toClose, shut, noticeVars>>

\* CloseAllClients, by RemoveRoom or directly when the device goes offline.
CloseAllClients ==
    /\ ~closed \/ mustClose
    /\ closed' = TRUE
    /\ mustClose' = FALSE
    /\ toClose' = toClose \cup ({conn[id] : id \in clients} \ {NONE})
    /\ admission' = [id \in ClientIDs |-> NONE]
    /\ conn' = [id \in ClientIDs |-> NONE]
    /\ clients' = {}
    /\ expired' = {}
    /\ UNCHANGED <<drawn, handler, target, shut, noticeVars>>

Next ==
    \/ \E id \in ClientIDs, u \in Callers : Join(id, u)
    \/ \E id \in ClientIDs : Expire(id)
    \/ PruneExpired
    \/ \E k \in Conns, id \in ClientIDs : Upgrade(k, id)
    \/ \E k \in Conns :
          \/ AttachClient(k) \/ AttachRefused(k) \/ AnnounceReady(k)
          \/ PumpEnds(k) \/ AnnounceLeft(k) \/ CloseConn(k)
    \/ MarkClosed
    \/ CloseAllClients

Spec == Init /\ [][Next]_vars

\* Time passes, the 60s sweep covers every open room, and RemoveRoom goes on to
\* CloseAllClients.  No socket has to end and no handler has to hurry.
Fairness ==
    /\ \A id \in ClientIDs : WF_vars(Expire(id))
    /\ WF_vars(~closed /\ PruneExpired)
    /\ WF_vars(mustClose /\ CloseAllClients)

FairSpec == Spec /\ Fairness

--------------------------------------------------------------------------------
(* Properties.                                                                *)

\* A room never holds more than MaxClientsPerRoom admissions, whichever of them
\* are joining, connected or between two connections.
AtMostMaxClients == Cardinality(admissions) <= MaxClientsPerRoom

\* r.Clients, over which messages are broadcast, holds exactly the admitted
\* clients with a connection; that connection was made by a request for that
\* client and its handler still runs, so the loss of the socket frees the slot.
ClientsExact ==
    /\ clients = {id \in admissions : conn[id] # NONE}
    /\ \A id \in clients : handler[conn[id]] \in Bound /\ target[conn[id]] = id

\* A connection that no client is bound to does not linger: its handler has
\* ended, or it is or is about to be closed.  Neither a reconnect, nor an expiry
\* during the upgrade, nor the room's closing leaves one behind.
NoOrphanConns ==
    \A k \in Conns :
        handler[k] \in Bound =>
            \/ k \in toClose \cup shut
            \/ target[k] \in admissions /\ conn[target[k]] = k

\* Of the clients admitted at one time at most one is a host on another account
\* than the owner's: a stranger becomes host only in a room that holds nobody.
\* The comment of DetermineRole gives a user's room no such host at all ("host to
\* first joiner in guest room, or to account owner in user room", room.go:249);
\* the code gives it to the first client of any room, whatever its account, and
\* again to another stranger once the room has emptied.
OneForeignHost ==
    \A i, j \in {id \in admissions : /\ admission[id].role = "host"
                                    /\ admission[id].user # Owner} : i = j

\* In an open room the last notice the host was sent about a client says whether
\* the client is connected, once the handlers of that client have sent theirs.
\* The exception is a client whose connections overlapped: the client_left of
\* the old connection may follow the room_ready of the new one.
HostHearsClients ==
    \A id \in ClientIDs \ overlapped :
        ~closed /\ (\A k \in Conns : target[k] = id => handler[k] \notin {"attached", "leaving"})
            => (heard[id] = "room_ready" <=> id \in clients)

\* A slot without a connection is taken up again or freed.
SlotFreed ==
    \A id \in ClientIDs :
        (id \in admissions /\ conn[id] = NONE)
            ~> (id \notin admissions \/ conn[id] # NONE)
================================================================================
