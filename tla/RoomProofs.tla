------------------------------- MODULE RoomProofs -------------------------------
(******************************************************************************)
(* Theorems about Room, for every value of its constants: the client limit,   *)
(* the exact set of connected clients, no lingering connection, at most one   *)
(* host of another account, and what the host is told.                        *)
(******************************************************************************)
EXTENDS Room, FiniteSetTheorems, TLAPS

\* A client's connection is bound by an admission.
ConnAdmitted == \A id \in ClientIDs : conn[id] # NONE => id \in admissions

\* The members of the room, their connections and those that are not bound.
MemberInv ==
    /\ TypeOK
    /\ ConnAdmitted
    /\ ClientsExact
    /\ NoOrphanConns

\* The limit, with the finiteness its arithmetic needs.
LimitInv == IsFiniteSet(admissions) /\ AtMostMaxClients

\* What the host of an open room has heard of a client, by the one handler of
\* that client that is under way.
Told(id) ==
    /\ \A j, k \in Conns :
          /\ handler[j] \in UnderWay /\ target[j] = id
          /\ handler[k] \in UnderWay /\ target[k] = id
          => j = k
    /\ \A k \in Conns : handler[k] \in Bound /\ target[k] = id => conn[id] = k
    /\ \A k \in Conns :
          handler[k] = "reading" /\ target[k] = id => heard[id] = "room_ready"
    /\ (\A k \in Conns : target[k] = id => handler[k] \notin UnderWay)
          => heard[id] # "room_ready"

\* It holds of every client whose connections never overlapped.
ToldInv == \A id \in ClientIDs \ overlapped : ~closed => Told(id)

--------------------------------------------------------------------------------
(* What a prune leaves, and who is admitted after each step.                  *)

\* A prune keeps the admissions that have not lapsed and all that are connected.
LEMMA PruneEffect ==
    ASSUME RoomAssumption, TypeOK
    PROVE  /\ Pruned \in [ClientIDs -> RoomClients \cup {NONE}]
           /\ \A id \in ClientIDs : Pruned[id] # NONE <=> id \in Remaining
           /\ \A id \in Remaining : Pruned[id] = admission[id]
           /\ Remaining \subseteq admissions
           /\ \A id \in admissions : conn[id] # NONE => id \in Remaining
    BY DEF RoomAssumption, TypeOK, Pruned, Remaining, Prunable, admissions

\* Join prunes, then adds the one client.
LEMMA JoinAdmissions ==
    ASSUME RoomAssumption, TypeOK, NEW id \in ClientIDs, NEW u \in Callers, Join(id, u)
    PROVE  /\ admission' \in [ClientIDs -> RoomClients \cup {NONE}]
           /\ id \notin admissions
           /\ admissions' = Remaining \cup {id}
           /\ admission'[id] \in RoomClients
           /\ admission'[id].user = u
           /\ admission'[id].role = RoleOf(u)
           /\ \A i \in Remaining : admission'[i] = admission[i]
<1> DEFINE r == [user |-> u, role |-> RoleOf(u)]
<1>1. r \in RoomClients /\ r # NONE /\ r.user = u /\ r.role = RoleOf(u)
    BY DEF RoleOf, RoomClients, Roles, RoomAssumption
<1>2. admission' = [Pruned EXCEPT ![id] = r]
    BY DEF Join
<1>3. id \notin admissions
    BY DEF Join, TypeOK
<1> HIDE DEF r
<1> QED
    BY <1>1, <1>2, <1>3, PruneEffect DEF admissions, Remaining

\* The steps that drop the expired admissions and no others.
LEMMA PrunedAdmissions ==
    ASSUME RoomAssumption, TypeOK, admission' = Pruned
    PROVE  /\ admission' \in [ClientIDs -> RoomClients \cup {NONE}]
           /\ admissions' = Remaining
           /\ \A i \in Remaining : admission'[i] = admission[i]
    BY PruneEffect DEF admissions, Remaining

\* The admitted clients are a function of the admissions.
LEMMA SameAdmissions ==
    ASSUME admission' = admission
    PROVE  admissions' = admissions
    BY DEF admissions

\* A step joins a client, prunes, leaves the admissions alone or ends them.
LEMMA AdmissionSteps ==
    ASSUME RoomAssumption, TypeOK, [Next]_vars
    PROVE  \/ \E id \in ClientIDs, u \in Callers : Join(id, u)
           \/ admission' = Pruned
           \/ admission' = admission
           \/ admissions' = {}
    BY DEF Next, vars, memberVars, Expire, PruneExpired, Upgrade, AttachClient,
           AttachRefused, AnnounceReady, PumpEnds, AnnounceLeft, CloseConn, MarkClosed,
           CloseAllClients, admissions

--------------------------------------------------------------------------------
(* The members of the room.                                                   *)

\* A new admission has no connection yet.
LEMMA MemberJoin ==
    ASSUME RoomAssumption, MemberInv,
           NEW id \in ClientIDs, NEW u \in Callers, Join(id, u)
    PROVE  MemberInv'
<1> USE DEF MemberInv
<1>1. /\ Remaining \subseteq admissions
      /\ \A i \in admissions : conn[i] # NONE => i \in Remaining
    BY PruneEffect
<1>2. /\ admission' \in [ClientIDs -> RoomClients \cup {NONE}]
      /\ id \notin admissions
      /\ admissions' = Remaining \cup {id}
    BY JoinAdmissions
<1>3. conn' = conn /\ conn[id] = NONE
    BY <1>2 DEF Join, ConnAdmitted
<1>4. clients' = clients
    BY <1>1 DEF Join, ClientsExact, Prunable
<1>5. expired' \subseteq Remaining
    BY DEF Join, Remaining, Prunable, TypeOK
<1>6. TypeOK'
    BY <1>1, <1>2, <1>4, <1>5 DEF TypeOK, Join, noticeVars, ClientsExact
<1>7. ConnAdmitted'
    BY <1>1, <1>2, <1>3 DEF ConnAdmitted
<1>8. ClientsExact'
    BY <1>1, <1>2, <1>3, <1>4 DEF ClientsExact, Join
<1>9. NoOrphanConns'
    BY <1>1, <1>2, <1>3, RoomAssumption DEF NoOrphanConns, Join, TypeOK
<1> QED
    BY <1>6, <1>7, <1>8, <1>9

\* A deadline may pass at any moment, and passing changes no member.
LEMMA MemberExpire ==
    ASSUME MemberInv, NEW id \in ClientIDs, Expire(id)
    PROVE  MemberInv'
<1>1. admissions' = admissions
    BY SameAdmissions DEF Expire
<1> QED
    BY <1>1 DEF MemberInv, TypeOK, ConnAdmitted, ClientsExact, NoOrphanConns, Expire,
                noticeVars

\* A prune touches no client with a connection.
LEMMA MemberPrune ==
    ASSUME RoomAssumption, MemberInv,
           admission' = Pruned, expired' = expired \ Prunable,
           clients' = clients \ Prunable, conn' = conn, drawn' = drawn
    PROVE  /\ admissions' = Remaining
           /\ Remaining \subseteq admissions
           /\ \A i \in admissions : conn[i] # NONE => i \in Remaining
           /\ clients' = clients
           /\ admission' \in [ClientIDs -> RoomClients \cup {NONE}]
           /\ expired' \subseteq Remaining
           /\ ConnAdmitted'
<1> USE DEF MemberInv
<1>1. /\ Remaining \subseteq admissions
      /\ \A i \in admissions : conn[i] # NONE => i \in Remaining
    BY PruneEffect
<1>2. /\ admission' \in [ClientIDs -> RoomClients \cup {NONE}]
      /\ admissions' = Remaining
    BY PrunedAdmissions
<1>3. clients' = clients
    BY <1>1 DEF ClientsExact, Prunable
<1>4. expired' \subseteq Remaining
    BY DEF Remaining, Prunable, TypeOK
<1>5. ConnAdmitted'
    BY <1>1, <1>2 DEF ConnAdmitted
<1> QED
    BY <1>1, <1>2, <1>3, <1>4, <1>5

\* The sweep removes no client that is connected.
LEMMA MemberPruneExpired ==
    ASSUME RoomAssumption, MemberInv, PruneExpired
    PROVE  MemberInv'
<1>1. /\ admissions' = Remaining
      /\ Remaining \subseteq admissions
      /\ \A i \in admissions : conn[i] # NONE => i \in Remaining
      /\ clients' = clients
      /\ admission' \in [ClientIDs -> RoomClients \cup {NONE}]
      /\ expired' \subseteq Remaining
      /\ ConnAdmitted'
    BY MemberPrune DEF PruneExpired
<1>2. TypeOK'
    BY <1>1 DEF MemberInv, TypeOK, PruneExpired, noticeVars, ClientsExact
<1>3. ClientsExact'
    BY <1>1 DEF MemberInv, ClientsExact, PruneExpired
<1>4. NoOrphanConns'
    BY <1>1, RoomAssumption DEF MemberInv, NoOrphanConns, PruneExpired, TypeOK
<1> QED
    BY <1>1, <1>2, <1>3, <1>4 DEF MemberInv

\* A socket that is being upgraded is not bound yet.
LEMMA MemberUpgrade ==
    ASSUME RoomAssumption, MemberInv, NEW k \in Conns, NEW id \in ClientIDs, Upgrade(k, id)
    PROVE  MemberInv'
<1>1. /\ admissions' = Remaining
      /\ Remaining \subseteq admissions
      /\ \A i \in admissions : conn[i] # NONE => i \in Remaining
      /\ clients' = clients
      /\ admission' \in [ClientIDs -> RoomClients \cup {NONE}]
      /\ expired' \subseteq Remaining
      /\ ConnAdmitted'
    BY MemberPrune DEF Upgrade
<1>2. TypeOK'
    BY <1>1 DEF MemberInv, TypeOK, Upgrade, noticeVars, ClientsExact, HandlerStates
<1>3. ClientsExact'
    BY <1>1 DEF MemberInv, ClientsExact, Upgrade, TypeOK, Bound
<1>4. NoOrphanConns'
    BY <1>1, RoomAssumption DEF MemberInv, NoOrphanConns, Upgrade, TypeOK, Bound
<1> QED
    BY <1>1, <1>2, <1>3, <1>4 DEF MemberInv

\* Attaching binds the connection and closes the one it replaces.
LEMMA MemberAttach ==
    ASSUME RoomAssumption, MemberInv, NEW k \in Conns, AttachClient(k)
    PROVE  MemberInv'
<1> DEFINE id == target[k]
<1>1. /\ handler[k] = "upgraded" /\ id \in Remaining /\ id \in ClientIDs
      /\ admission' = Pruned /\ conn' = [conn EXCEPT ![id] = k]
      /\ expired' = (expired \ Prunable) \cup {id}
      /\ clients' = (clients \ Prunable) \cup {id}
      /\ toClose' = toClose \cup ({conn[id]} \ {NONE})
      /\ handler' = [handler EXCEPT ![k] = "attached"]
      /\ target' = target /\ shut' = shut /\ drawn' = drawn
    BY DEF AttachClient, Remaining, admissions
<1>2. /\ Remaining \subseteq admissions
      /\ \A i \in admissions : conn[i] # NONE => i \in Remaining
    BY PruneEffect DEF MemberInv
<1>3. /\ admission' \in [ClientIDs -> RoomClients \cup {NONE}]
      /\ admissions' = Remaining
    BY <1>1, PrunedAdmissions DEF MemberInv
<1>4. clients' = clients \cup {id}
    BY <1>1, <1>2 DEF MemberInv, ClientsExact, Prunable
<1>5. expired' \subseteq Remaining
    BY <1>1 DEF MemberInv, Remaining, Prunable, TypeOK
<1>6. TypeOK'
  <2>1. toClose' \subseteq Conns
      BY <1>1 DEF MemberInv, TypeOK
  <2>2. overlapped' \subseteq ClientIDs
      BY <1>1 DEF MemberInv, TypeOK, AttachClient, Overlaps
  <2>3. conn' \in [ClientIDs -> Conns \cup {NONE}] /\ handler' \in [Conns -> HandlerStates]
      BY <1>1 DEF MemberInv, TypeOK, HandlerStates, UnderWay
  <2>4. clients' \subseteq admissions'
      BY <1>1, <1>2, <1>3, <1>4 DEF MemberInv, ClientsExact
  <2> QED
      BY <1>1, <1>2, <1>3, <1>5, <2>1, <2>2, <2>3, <2>4
      DEF MemberInv, TypeOK, AttachClient, noticeVars
<1>7. ConnAdmitted'
    BY <1>1, <1>2, <1>3 DEF MemberInv, ConnAdmitted, TypeOK
<1>8. ClientsExact'
  <2>1. clients' = {i \in admissions' : conn'[i] # NONE}
      BY <1>1, <1>2, <1>3, <1>4, RoomAssumption
      DEF MemberInv, ClientsExact, TypeOK, RoomAssumption
  <2>2. ASSUME NEW i \in clients'
        PROVE  handler'[conn'[i]] \in Bound /\ target'[conn'[i]] = i
      BY <1>1, <1>4 DEF MemberInv, ClientsExact, TypeOK, Bound, admissions
  <2> QED
      BY <2>1, <2>2 DEF ClientsExact
<1>9. NoOrphanConns'
  <2> SUFFICES ASSUME NEW j \in Conns, handler'[j] \in Bound
               PROVE  \/ j \in toClose' \cup shut'
                      \/ target'[j] \in admissions' /\ conn'[target'[j]] = j
      BY DEF NoOrphanConns
  <2>1. CASE j = k
      BY <1>1, <1>3, <2>1 DEF MemberInv, TypeOK
  <2>2. CASE j # k
    <3>1. handler[j] \in Bound /\ target'[j] = target[j]
        BY <1>1, <2>2 DEF MemberInv, TypeOK
    <3>2. CASE j \in toClose \cup shut
        BY <1>1, <3>2
    <3>3. CASE target[j] \in admissions /\ conn[target[j]] = j
        BY <1>1, <1>2, <1>3, <3>1, <3>3, RoomAssumption
        DEF MemberInv, TypeOK, RoomAssumption, admissions
    <3> QED
        BY <3>1, <3>2, <3>3 DEF MemberInv, NoOrphanConns
  <2> QED
      BY <2>1, <2>2
<1> QED
    BY <1>6, <1>7, <1>8, <1>9 DEF MemberInv

\* A connection that is refused is closed.
LEMMA MemberRefused ==
    ASSUME RoomAssumption, MemberInv, NEW k \in Conns, AttachRefused(k)
    PROVE  MemberInv'
<1>1. CASE UNCHANGED memberVars
  <2>1. admissions' = admissions
      BY <1>1, SameAdmissions DEF memberVars
  <2>2. TypeOK'
      BY <1>1, <2>1 DEF MemberInv, TypeOK, AttachRefused, memberVars, noticeVars, HandlerStates
  <2>3. ConnAdmitted' /\ ClientsExact' /\ NoOrphanConns'
      BY <1>1, <2>1
      DEF MemberInv, TypeOK, ConnAdmitted, ClientsExact, NoOrphanConns, AttachRefused,
          memberVars, Bound
  <2> QED
      BY <2>2, <2>3 DEF MemberInv
<1>2. CASE /\ admission' = Pruned
           /\ expired' = expired \ Prunable
           /\ clients' = clients \ Prunable
           /\ UNCHANGED conn
  <2>1. /\ admissions' = Remaining
        /\ Remaining \subseteq admissions
        /\ \A i \in admissions : conn[i] # NONE => i \in Remaining
        /\ clients' = clients
        /\ admission' \in [ClientIDs -> RoomClients \cup {NONE}]
        /\ expired' \subseteq Remaining
        /\ ConnAdmitted'
      BY <1>2, MemberPrune DEF AttachRefused
  <2>2. TypeOK'
      BY <1>2, <2>1
      DEF MemberInv, TypeOK, AttachRefused, noticeVars, ClientsExact, HandlerStates
  <2>3. ClientsExact'
      BY <1>2, <2>1 DEF MemberInv, ClientsExact, AttachRefused, TypeOK, Bound
  <2>4. NoOrphanConns'
      BY <1>2, <2>1, RoomAssumption
      DEF MemberInv, NoOrphanConns, AttachRefused, TypeOK, Bound
  <2> QED
      BY <2>1, <2>2, <2>3, <2>4 DEF MemberInv
<1> QED
    BY <1>1, <1>2 DEF AttachRefused

\* A pump removes its client only if the client is still its own.
LEMMA MemberPumpEnds ==
    ASSUME RoomAssumption, MemberInv, NEW k \in Conns, PumpEnds(k)
    PROVE  MemberInv'
<1>1. admissions' = admissions
    BY SameAdmissions DEF PumpEnds
<1>2. TypeOK'
    BY <1>1 DEF MemberInv, TypeOK, PumpEnds, noticeVars, HandlerStates, UnderWay
<1>3. CASE Detaches(k) /\ /\ clients' = clients \ {target[k]}
                          /\ conn' = [conn EXCEPT ![target[k]] = NONE]
                          /\ handler' = [handler EXCEPT ![k] = "leaving"]
  <2>1. ConnAdmitted' /\ NoOrphanConns'
      BY <1>1, <1>3, RoomAssumption
      DEF MemberInv, TypeOK, ConnAdmitted, NoOrphanConns, PumpEnds, Bound, Detaches, admissions
  <2>2. clients' = {i \in admissions' : conn'[i] # NONE}
      BY <1>1, <1>3 DEF MemberInv, TypeOK, ClientsExact, Detaches, admissions
  <2>3. \A i \in clients' : handler'[conn'[i]] \in Bound /\ target'[conn'[i]] = i
      BY <1>1, <1>3 DEF MemberInv, TypeOK, ClientsExact, Detaches, admissions, PumpEnds
  <2> QED
      BY <1>2, <2>1, <2>2, <2>3 DEF MemberInv, ClientsExact
<1>4. CASE ~Detaches(k) /\ /\ handler' = [handler EXCEPT ![k] = "ended"]
                           /\ UNCHANGED <<clients, conn, expired>>
  <2>1. \A i \in clients : conn[i] # k
      BY <1>4 DEF MemberInv, ClientsExact, Detaches
  <2>2. ConnAdmitted' /\ NoOrphanConns' /\ ClientsExact'
      BY <1>1, <1>4, <2>1, RoomAssumption
      DEF MemberInv, TypeOK, ConnAdmitted, NoOrphanConns, ClientsExact, PumpEnds, Bound
  <2> QED
      BY <1>2, <2>2 DEF MemberInv
<1> QED
    BY <1>3, <1>4 DEF PumpEnds

\* Closing the room closes every connection it binds.
LEMMA MemberCloseAll ==
    ASSUME RoomAssumption, MemberInv, CloseAllClients
    PROVE  MemberInv'
<1>1. admissions' = {}
    BY DEF CloseAllClients, admissions
<1>2. toClose' \subseteq Conns
    BY DEF CloseAllClients, MemberInv, TypeOK, admissions
<1>3. TypeOK'
    BY <1>1, <1>2 DEF MemberInv, TypeOK, CloseAllClients, noticeVars
<1>4. ConnAdmitted' /\ ClientsExact'
    BY <1>1 DEF ConnAdmitted, ClientsExact, CloseAllClients
<1>5. NoOrphanConns'
  <2> SUFFICES ASSUME NEW k \in Conns, handler[k] \in Bound, k \notin toClose \cup shut
               PROVE  k \in toClose'
      BY DEF NoOrphanConns, CloseAllClients
  <2>1. target[k] \in admissions /\ conn[target[k]] = k
      BY DEF MemberInv, NoOrphanConns
  <2>2. k # NONE /\ target[k] \in clients
      BY <2>1, RoomAssumption DEF RoomAssumption, MemberInv, ClientsExact
  <2> QED
      BY <2>1, <2>2 DEF CloseAllClients
<1> QED
    BY <1>3, <1>4, <1>5 DEF MemberInv

\* The steps that leave the members alone.
LEMMA MemberOther ==
    ASSUME MemberInv,
           \/ \E k \in Conns : AnnounceReady(k) \/ AnnounceLeft(k) \/ CloseConn(k)
           \/ MarkClosed
           \/ UNCHANGED vars
    PROVE  MemberInv'
<1>1. admissions' = admissions
    BY SameAdmissions DEF AnnounceReady, AnnounceLeft, CloseConn, MarkClosed, vars, memberVars
<1>2. ASSUME NEW k \in Conns, AnnounceReady(k) \/ AnnounceLeft(k)
      PROVE  MemberInv'
  <2>1. heard' \in [ClientIDs -> Notices \cup {NONE}]
      BY <1>2 DEF MemberInv, TypeOK, AnnounceReady, AnnounceLeft, Notify, Notices
  <2>2. TypeOK'
      BY <1>1, <1>2, <2>1
      DEF MemberInv, TypeOK, AnnounceReady, AnnounceLeft, memberVars, HandlerStates, UnderWay
  <2>3. ConnAdmitted' /\ ClientsExact' /\ NoOrphanConns'
      BY <1>1, <1>2
      DEF MemberInv, TypeOK, ConnAdmitted, ClientsExact, NoOrphanConns, AnnounceReady,
          AnnounceLeft, memberVars, Bound, admissions
  <2> QED
      BY <2>2, <2>3 DEF MemberInv
<1>3. ASSUME NEW k \in Conns, CloseConn(k)
      PROVE  MemberInv'
    BY <1>1, <1>3 DEF MemberInv, TypeOK, ConnAdmitted, ClientsExact, NoOrphanConns,
                      CloseConn, memberVars, noticeVars
<1>4. CASE MarkClosed \/ UNCHANGED vars
    BY <1>1, <1>4 DEF MemberInv, TypeOK, ConnAdmitted, ClientsExact, NoOrphanConns,
                      MarkClosed, vars, memberVars, noticeVars
<1> QED
    BY <1>2, <1>3, <1>4

\* Every step keeps the members correct.
LEMMA MemberStep ==
    ASSUME RoomAssumption, MemberInv, [Next]_vars
    PROVE  MemberInv'
    BY MemberJoin, MemberExpire, MemberPruneExpired, MemberUpgrade, MemberAttach,
       MemberRefused, MemberPumpEnds, MemberCloseAll, MemberOther
    DEF Next

\* A new room has no members.
LEMMA MemberInit ==
    ASSUME Init
    PROVE  MemberInv
    BY DEF Init, MemberInv, TypeOK, ConnAdmitted, ClientsExact, NoOrphanConns, admissions,
           Bound, HandlerStates

\* room.go and its handler keep admissions, connections and handlers in agreement: every connected
\* client is admitted, r.Clients is exact and no connection lingers.
THEOREM MembersCorrect == Spec => []MemberInv
    BY MemberInit, MemberStep, RoomAssumption, PTL DEF Spec

--------------------------------------------------------------------------------
(* The limit and the host's role.                                             *)

\* A prune leaves no more admissions than there were.
LEMMA RemainingWithinLimit ==
    ASSUME RoomAssumption, LimitInv
    PROVE  /\ IsFiniteSet(Remaining)
           /\ Cardinality(Remaining) \in Nat
           /\ Cardinality(Remaining) <= MaxClientsPerRoom
<1>1. Remaining \subseteq admissions
    BY DEF Remaining
<1>2. /\ IsFiniteSet(Remaining)
      /\ Cardinality(Remaining) <= Cardinality(admissions)
    BY <1>1, FS_Subset DEF LimitInv
<1>3. Cardinality(Remaining) \in Nat /\ Cardinality(admissions) \in Nat
    BY <1>2, FS_CardinalityType DEF LimitInv
<1> QED
    BY <1>2, <1>3 DEF LimitInv, AtMostMaxClients, RoomAssumption

\* ReserveClient counts after it prunes, so the limit holds after every step.
LEMMA LimitStep ==
    ASSUME RoomAssumption, TypeOK, LimitInv, [Next]_vars
    PROVE  LimitInv'
<1>1. ASSUME NEW id \in ClientIDs, NEW u \in Callers, Join(id, u)
      PROVE  LimitInv'
  <2>1. admissions' = Remaining \cup {id} /\ id \notin Remaining
      BY <1>1, JoinAdmissions, PruneEffect
  <2>2. Cardinality(Remaining) < MaxClientsPerRoom
      BY <1>1 DEF Join, MayReserve
  <2>3. IsFiniteSet(admissions') /\ Cardinality(admissions') = Cardinality(Remaining) + 1
      BY <2>1, RemainingWithinLimit, FS_AddElement
  <2> QED
      BY <2>2, <2>3, RemainingWithinLimit DEF LimitInv, AtMostMaxClients, RoomAssumption
<1>2. CASE admission' = Pruned
    BY <1>2, PrunedAdmissions, RemainingWithinLimit DEF LimitInv, AtMostMaxClients
<1>3. CASE admission' = admission
    BY <1>3, SameAdmissions DEF LimitInv, AtMostMaxClients
<1>4. CASE admissions' = {}
    BY <1>4, FS_EmptySet DEF LimitInv, AtMostMaxClients, RoomAssumption
<1> QED
    BY <1>1, <1>2, <1>3, <1>4, AdmissionSteps

\* A role is given once, and host to a stranger only if no one is admitted.
LEMMA HostStep ==
    ASSUME RoomAssumption, TypeOK, OneForeignHost, [Next]_vars
    PROVE  OneForeignHost'
<1>1. ASSUME NEW id \in ClientIDs, NEW u \in Callers, Join(id, u)
      PROVE  OneForeignHost'
  <2>1. /\ admissions' = Remaining \cup {id}
        /\ admission'[id].user = u /\ admission'[id].role = RoleOf(u)
        /\ \A i \in Remaining : admission'[i] = admission[i]
        /\ Remaining \subseteq admissions
      BY <1>1, JoinAdmissions, PruneEffect
  <2>2. u # Owner /\ RoleOf(u) = "host" => Remaining = {}
      BY DEF RoleOf
  <2> QED
      BY <2>1, <2>2 DEF OneForeignHost
<1>2. CASE admission' = Pruned
    BY <1>2, PrunedAdmissions, PruneEffect DEF OneForeignHost
<1>3. CASE admission' = admission
    BY <1>3, SameAdmissions DEF OneForeignHost
<1>4. CASE admissions' = {}
    BY <1>4 DEF OneForeignHost
<1> QED
    BY <1>1, <1>2, <1>3, <1>4, AdmissionSteps

\* ReserveClient (room.go) bounds the admissions, not the connections: however
\* joins, attachments, expiries and reconnects follow one another, a room never
\* holds more than MaxClientsPerRoom of them.
THEOREM ClientLimit == Spec => []AtMostMaxClients
<1>1. Init => LimitInv
    BY RoomAssumption, FS_EmptySet
    DEF Init, LimitInv, AtMostMaxClients, admissions, RoomAssumption
<1>2. MemberInv => TypeOK
    BY DEF MemberInv
<1>3. LimitInv => AtMostMaxClients
    BY DEF LimitInv
<1> QED
    BY <1>1, <1>2, <1>3, LimitStep, MembersCorrect, RoomAssumption, PTL DEF Spec

\* r.Clients is exact: it holds the admitted clients that have a connection, each
\* made by a request for that client and with a handler that still runs.
THEOREM ClientsAreExact == Spec => []ClientsExact
<1>1. MemberInv => ClientsExact
    BY DEF MemberInv
<1> QED
    BY <1>1, MembersCorrect, PTL

\* Neither a reconnect, nor an expiry during an upgrade, nor the room's closing
\* leaves a connection that no client is bound to and that nobody closes.
THEOREM NoConnLingers == Spec => []NoOrphanConns
<1>1. MemberInv => NoOrphanConns
    BY DEF MemberInv
<1> QED
    BY <1>1, MembersCorrect, PTL

\* determineRoleLocked makes a stranger a host only in a room that holds nobody,
\* so at any one time at most one stranger is; it does make one a host.
THEOREM AtMostOneForeignHost == Spec => []OneForeignHost
<1>1. Init => OneForeignHost
    BY DEF Init, OneForeignHost, admissions
<1>2. MemberInv => TypeOK
    BY DEF MemberInv
<1> QED
    BY <1>1, <1>2, HostStep, MembersCorrect, RoomAssumption, PTL DEF Spec

--------------------------------------------------------------------------------
(* What the host is told.                                                     *)

\* The host of a new room has heard of nobody.
LEMMA ToldInit ==
    ASSUME RoomAssumption, Init
    PROVE  ToldInv
    BY DEF Init, ToldInv, Told, UnderWay, Bound, Notices, RoomAssumption

\* Openness is lost for good, and so is a history without an overlap.
LEMMA ToldMonotone ==
    ASSUME [Next]_vars
    PROVE  overlapped \subseteq overlapped' /\ (~closed' => ~closed)
    BY DEF Next, vars, memberVars, noticeVars, Join, Expire, PruneExpired, Upgrade,
           AttachClient, AttachRefused, AnnounceReady, PumpEnds, AnnounceLeft, CloseConn,
           MarkClosed, CloseAllClients

\* A client that attaches without overlap has no handler under way but this one.
LEMMA ToldAttach ==
    ASSUME MemberInv, NEW k \in Conns, AttachClient(k),
           NEW id \in ClientIDs \ overlapped', Told(id)
    PROVE  Told(id)'
<1> DEFINE a == target[k]
<1>1. /\ handler[k] = "upgraded" /\ a \in ClientIDs
      /\ conn' = [conn EXCEPT ![a] = k]
      /\ handler' = [handler EXCEPT ![k] = "attached"]
      /\ overlapped' = overlapped \cup Overlaps(k)
      /\ target' = target /\ heard' = heard
    BY DEF AttachClient, Remaining, admissions
<1>2. handler \in [Conns -> HandlerStates] /\ conn \in [ClientIDs -> Conns \cup {NONE}]
    BY DEF MemberInv, TypeOK
<1>3. CASE id = a
  <2>1. \A j \in Conns : target[j] = id => handler[j] \notin UnderWay
      BY <1>1, <1>3 DEF Overlaps
  <2>2. \A j \in Conns : handler'[j] \in UnderWay /\ target'[j] = id => j = k
      BY <1>1, <1>2, <2>1
  <2>3. handler'[k] = "attached" /\ target'[k] = id /\ conn'[id] = k
      BY <1>1, <1>2, <1>3
  <2> QED
      BY <2>2, <2>3 DEF Told, UnderWay, Bound
<1>4. CASE id # a
  <2>1. \A j \in Conns : target'[j] = id => handler'[j] = handler[j]
      BY <1>1, <1>2, <1>4
  <2>2. conn'[id] = conn[id]
      BY <1>1, <1>2, <1>4
  <2> QED
      BY <1>1, <2>1, <2>2 DEF Told
<1> QED
    BY <1>3, <1>4

\* The notice of a handler is about its own client and agrees with its stage.
LEMMA ToldAnnounce ==
    ASSUME MemberInv, NEW k \in Conns, AnnounceReady(k) \/ AnnounceLeft(k), ~closed,
           NEW id \in ClientIDs, Told(id)
    PROVE  Told(id)'
<1>1. /\ handler \in [Conns -> HandlerStates]
      /\ heard \in [ClientIDs -> Notices \cup {NONE}]
    BY DEF MemberInv, TypeOK
<1>2. target' = target /\ conn' = conn /\ handler[k] \in UnderWay
    BY DEF AnnounceReady, AnnounceLeft, memberVars, UnderWay
<1>3. CASE id # target[k]
  <2>1. \A j \in Conns : target'[j] = id => handler'[j] = handler[j]
      BY <1>1, <1>2, <1>3 DEF AnnounceReady, AnnounceLeft
  <2>2. heard'[id] = heard[id]
      BY <1>1, <1>3 DEF AnnounceReady, AnnounceLeft, Notify
  <2> QED
      BY <1>2, <2>1, <2>2 DEF Told
<1>4. CASE id = target[k]
  <2>1. \A j \in Conns \ {k} : target'[j] = id => handler'[j] \notin UnderWay
      BY <1>1, <1>2, <1>4 DEF Told, AnnounceReady, AnnounceLeft
  <2>2. CASE AnnounceReady(k)
    <3>1. /\ handler[k] = "attached" /\ handler'[k] = "reading"
          /\ heard'[id] = "room_ready"
        BY <1>1, <1>4, <2>2 DEF AnnounceReady, Notify
    <3>2. conn'[id] = k
        BY <1>2, <1>4, <3>1 DEF Told, Bound
    <3> QED
        BY <1>2, <1>4, <2>1, <3>1, <3>2 DEF Told, UnderWay, Bound
  <2>3. CASE AnnounceLeft(k)
    <3>1. handler'[k] = "ended" /\ heard'[id] = "client_left"
        BY <1>1, <1>4, <2>3 DEF AnnounceLeft, Notify
    <3> QED
        BY <1>2, <2>1, <3>1 DEF Told, UnderWay, Bound
  <2> QED
      BY <2>2, <2>3
<1> QED
    BY <1>3, <1>4

\* An unoverlapped reader is still bound when its pump ends, so it detaches.
LEMMA ToldPumpEnds ==
    ASSUME RoomAssumption, MemberInv, NEW k \in Conns, PumpEnds(k),
           NEW id \in ClientIDs, Told(id)
    PROVE  Told(id)'
<1>1. /\ handler \in [Conns -> HandlerStates]
      /\ conn \in [ClientIDs -> Conns \cup {NONE}]
    BY DEF MemberInv, TypeOK
<1>2. handler[k] = "reading" /\ target' = target /\ heard' = heard
    BY DEF PumpEnds, noticeVars
<1>3. CASE id # target[k]
  <2>1. \A j \in Conns : target'[j] = id => handler'[j] = handler[j]
      BY <1>1, <1>2, <1>3 DEF PumpEnds
  <2>2. conn'[id] = conn[id]
      BY <1>1, <1>3 DEF PumpEnds
  <2> QED
      BY <1>2, <2>1, <2>2 DEF Told
<1>4. CASE id = target[k]
  <2>1. conn[id] = k
      BY <1>2, <1>4 DEF Told, Bound
  <2>2. id \in clients
      BY <2>1, RoomAssumption DEF RoomAssumption, MemberInv, ConnAdmitted, ClientsExact
  <2>3. handler' = [handler EXCEPT ![k] = "leaving"]
      BY <1>4, <2>1, <2>2 DEF PumpEnds, Detaches
  <2>4. \A j \in Conns \ {k} : target'[j] = id => handler'[j] \notin UnderWay
      BY <1>1, <1>2, <1>4, <2>3 DEF Told, UnderWay
  <2>5. handler'[k] = "leaving"
      BY <1>1, <2>3
  <2> QED
      BY <1>2, <1>4, <2>4, <2>5 DEF Told, UnderWay, Bound
<1> QED
    BY <1>3, <1>4

\* Steps that put no handler of an attached client anywhere else.
LEMMA ToldOther ==
    ASSUME MemberInv, NEW id \in ClientIDs, Told(id),
           \/ \E i \in ClientIDs, u \in Callers : Join(i, u)
           \/ \E i \in ClientIDs : Expire(i)
           \/ PruneExpired
           \/ \E k \in Conns, i \in ClientIDs : Upgrade(k, i)
           \/ \E k \in Conns : AttachRefused(k) \/ CloseConn(k)
           \/ UNCHANGED vars
    PROVE  Told(id)'
<1>1. /\ handler \in [Conns -> HandlerStates]
      /\ target \in [Conns -> ClientIDs \cup {NONE}]
    BY DEF MemberInv, TypeOK
<1>2. heard' = heard /\ conn' = conn
    BY DEF Join, Expire, PruneExpired, Upgrade, AttachRefused, CloseConn, vars, memberVars,
           noticeVars
<1>3. \A j \in Conns :
          \/ handler'[j] = handler[j] /\ target'[j] = target[j]
          \/ handler[j] \notin UnderWay /\ handler'[j] \notin UnderWay
    BY <1>1 DEF Join, Expire, PruneExpired, Upgrade, AttachRefused, CloseConn, vars,
                memberVars, noticeVars, UnderWay
<1> QED
    BY <1>2, <1>3 DEF Told, UnderWay, Bound

\* Every step of an open room keeps what the host has heard right.
LEMMA ToldStep ==
    ASSUME RoomAssumption, MemberInv, ToldInv, [Next]_vars
    PROVE  ToldInv'
<1> SUFFICES ASSUME NEW id \in ClientIDs \ overlapped', ~closed'
             PROVE  Told(id)'
    BY DEF ToldInv
<1>1. ~closed /\ Told(id)
    BY ToldMonotone DEF ToldInv
<1>2. ~MarkClosed /\ ~CloseAllClients
    BY DEF MarkClosed, CloseAllClients
<1> QED
    BY <1>1, <1>2, ToldAttach, ToldAnnounce, ToldPumpEnds, ToldOther DEF Next

\* What is kept of each client says what the host hears.
LEMMA ToldSuffices ==
    ASSUME RoomAssumption, MemberInv, ToldInv
    PROVE  HostHearsClients
<1> SUFFICES ASSUME NEW id \in ClientIDs \ overlapped, ~closed,
                    \A k \in Conns :
                        target[k] = id => handler[k] \notin {"attached", "leaving"}
             PROVE  heard[id] = "room_ready" <=> id \in clients
    BY DEF HostHearsClients
<1>1. Told(id)
    BY DEF ToldInv
<1>2. CASE id \in clients
  <2>1. /\ conn[id] \in Conns
        /\ handler[conn[id]] \in Bound /\ target[conn[id]] = id
      BY <1>2 DEF MemberInv, TypeOK, ClientsExact
  <2>2. handler[conn[id]] = "reading"
      BY <2>1 DEF Bound
  <2> QED
      BY <1>1, <1>2, <2>1, <2>2 DEF Told
<1>3. CASE id \notin clients
  <2>1. conn[id] = NONE
      BY <1>3 DEF MemberInv, ConnAdmitted, ClientsExact
  <2>2. \A k \in Conns : target[k] = id => handler[k] \notin Bound
      BY <1>1, <2>1, RoomAssumption DEF Told, RoomAssumption
  <2>3. \A k \in Conns : target[k] = id => handler[k] \notin UnderWay
      BY <2>2 DEF UnderWay, Bound
  <2> QED
      BY <1>1, <1>3, <2>3 DEF Told
<1> QED
    BY <1>2, <1>3

\* Notices are sent after r.mu is released (handler.go), yet in an open room the
\* host's last word on a client is right once that client's handlers have spoken,
\* unless two connections of the client overlapped.
THEOREM HostIsTold == Spec => []HostHearsClients
<1>1. Init => ToldInv
    BY ToldInit, RoomAssumption
<1>2. MemberInv /\ ToldInv => HostHearsClients
    BY ToldSuffices, RoomAssumption
<1> QED
    BY <1>1, <1>2, ToldStep, MembersCorrect, RoomAssumption, PTL DEF Spec
================================================================================
