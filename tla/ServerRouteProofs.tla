---------------------------- MODULE ServerRouteProofs ----------------------------
(******************************************************************************)
(* Theorems about ServerRoute, for every number of senders and registrations: *)
(* sends report the truth, no frame reaches a replaced server, what the retry *)
(* buys, and the order in which clients see servers.                          *)
(******************************************************************************)
EXTENDS ServerRoute, TLAPS

\* While the room is open it is routed to the registered server, or to the one
\* that AddServer is displacing.
Registration ==
    /\ adding # "idle" => registered = serverGen /\ displaced < serverGen
    /\ adding = "rebind" /\ displaced # NoServer => displaced \in closed
    /\ adding = "idle" => sessionServer = registered
    /\ roomServer <= serverGen
    /\ ~roomClosed => /\ registered = serverGen
                      /\ roomServer = IF adding = "idle" THEN registered ELSE displaced

\* The registered server has not been closed, whichever pumps have ended.
RegisteredOpen ==
    /\ registered \notin closed
    /\ \A w \in closed : w <= serverGen
    /\ \A w \in Servers : pump[w] # "none" => w <= serverGen
    /\ \A w \in Servers : pump[w] = "ended" => registered # w
    /\ routed <= serverGen

UnderWay == {"checked", "acquire", "writing", "failed"}
Routed   == {"acquire", "writing", "failed"}

\* The route a call holds, and the one its room would give it next, are not of
\* a server too old for it, or that server is closed.  A second attempt has a
\* newer route than the first.
RouteOfCall(p) ==
    /\ call[p] \in {"checked", "failed"} => p \in RoomSenders
    /\ call[p] \in Routed =>
          /\ route[p] \in Servers
          /\ route[p] <= serverGen
          /\ route[p] >= since[p] \/ route[p] \in closed
    /\ p \in RoomSenders /\ call[p] \in UnderWay =>
          /\ since[p] <= serverGen
          /\ roomServer >= since[p] \/ roomServer \in closed
    /\ p \in RoomSenders /\ call[p] \in Routed =>
          IF p \in retried THEN route[p] > first[p] ELSE route[p] = first[p]
    /\ call[p] = "failed" => p \notin retried /\ (route[p] \in closed \/ p \in faulted)
    /\ call[p] \in {"idle", "checked"} => p \notin retried

(* SendTruth, NoFrameToReplaced and LostOnlyMidReplacement of one call.       *)

FrameTruth(p) ==
    IF call[p] = "true" THEN \E w \in Servers : \A v \in Servers :
                                 <<p, v>> \in received <=> v = w
    ELSE \A w \in Servers : <<p, w>> \notin received

NewEnough(p) == \A w \in Servers : <<p, w>> \in received => w >= since[p]

LossExplained(p) ==
    /\ p \in RoomSenders
    /\ call[p] = "false"
    /\ p \notin faulted
    /\ ~roomClosed
    => p \in missed \/ serverGen >= first[p] + 2

\* What holds of every call.
CallFacts(p) == RouteOfCall(p) /\ FrameTruth(p) /\ NewEnough(p) /\ LossExplained(p)

RouteInv ==
    /\ TypeOK
    /\ Registration
    /\ RegisteredOpen
    /\ \A p \in Senders : CallFacts(p)

--------------------------------------------------------------------------------
(* What a step of the hub or of a pump may do to the senders' state.          *)

\* Servers are only closed, generations only grow, and a room is only rebound
\* to the newest server.
Forward ==
    /\ UNCHANGED callVars
    /\ closed \subseteq closed'
    /\ serverGen <= serverGen'
    /\ roomServer' \in {roomServer, serverGen}
    /\ roomClosed => roomClosed'

\* What is known of a call survives the steps of others that only go forward.
LEMMA ForwardKeepsCalls ==
    ASSUME TypeOK, TypeOK', Forward, NEW p \in Senders, CallFacts(p)
    PROVE  CallFacts(p)'
<1> USE DEF Forward, callVars, CallFacts
<1>1. serverGen \in Nat /\ serverGen' \in Nat /\ roomServer \in Nat /\ roomServer' \in Nat
      /\ since[p] \in Nat /\ route[p] \in Nat /\ first[p] \in Nat
  BY DEF TypeOK, Servers, NoServer
<1>2. RouteOfCall(p)'
  BY <1>1 DEF RouteOfCall, Routed, UnderWay
<1>3. FrameTruth(p)' /\ NewEnough(p)'
  BY DEF FrameTruth, NewEnough
<1>4. LossExplained(p)'
  BY <1>1 DEF LossExplained
<1> QED
  BY <1>2, <1>3, <1>4

--------------------------------------------------------------------------------
(* The hub's steps.                                                           *)

HubFacts == TypeOK /\ Registration /\ RegisteredOpen

\* A registration displaces the registered server.
LEMMA AddServerKeepsHub ==
    ASSUME RouteAssumption, HubFacts, AddServer
    PROVE  HubFacts' /\ Forward
<1> USE DEF HubFacts, AddServer, pumpVars, callVars
<1>1. serverGen + 1 \in Servers /\ serverGen \in Nat
  BY DEF TypeOK, Servers, RouteAssumption
<1>2. TypeOK'
  BY <1>1 DEF TypeOK
<1>3. Registration'
  BY <1>1 DEF TypeOK, Registration, Servers, NoServer
<1>4. RegisteredOpen'
  BY <1>1 DEF TypeOK, RegisteredOpen, Servers, NoServer
<1>5. Forward
  BY <1>1 DEF Forward
<1> QED
  BY <1>2, <1>3, <1>4, <1>5

\* The displaced server is closed before the room is rebound.
LEMMA CloseOldKeepsHub ==
    ASSUME RouteAssumption, HubFacts, CloseOld
    PROVE  HubFacts' /\ Forward
<1> USE DEF HubFacts, CloseOld, pumpVars, callVars
<1>1. TypeOK'
  BY DEF TypeOK
<1>2. Registration'
  BY DEF Registration
<1>3. RegisteredOpen'
  BY DEF TypeOK, Registration, RegisteredOpen, Servers, NoServer
<1>4. Forward
  BY DEF Forward, TypeOK, Servers
<1> QED
  BY <1>1, <1>2, <1>3, <1>4

\* The room and the session come to the newest server.
LEMMA RebindKeepsHub ==
    ASSUME RouteAssumption, HubFacts, Rebind
    PROVE  HubFacts' /\ Forward
<1> USE DEF HubFacts, Rebind, callVars
<1>1. registered = serverGen /\ serverGen \in Servers /\ serverGen \in Nat
  BY DEF Registration, TypeOK, Servers
<1>2. TypeOK'
  BY <1>1 DEF TypeOK, PumpStates
<1>3. Registration'
  BY <1>1 DEF TypeOK, Registration, Servers
<1>4. RegisteredOpen'
  BY <1>1 DEF TypeOK, RegisteredOpen, Servers
<1>5. Forward
  BY <1>1 DEF Forward
<1> QED
  BY <1>2, <1>3, <1>4, <1>5

\* A room closes for good.
LEMMA CloseRoomKeepsHub ==
    ASSUME RouteAssumption, HubFacts, CloseRoom
    PROVE  HubFacts' /\ Forward
BY DEF HubFacts, CloseRoom, pumpVars, callVars, TypeOK, Registration,
       RegisteredOpen, Forward, Servers

\* Reading and routing frames leaves registration alone.
LEMMA PumpKeepsHub ==
    ASSUME RouteAssumption, HubFacts, NEW w \in Servers,
           ReadFrame(w) \/ ReadFails(w) \/ RouteFrame(w)
    PROVE  HubFacts' /\ Forward
<1> USE DEF HubFacts, ReadFrame, ReadFails, RouteFrame, hubVars, callVars
<1>1. UNCHANGED <<serverGen, registered, adding, displaced, roomServer, roomClosed,
                  sessionServer, closed, callVars>>
  OBVIOUS
<1>2. PICK s \in PumpStates : pump[w] # "none" /\ pump[w] # "ended" /\ s # "ended"
                              /\ pump' = [pump EXCEPT ![w] = s]
  BY DEF PumpStates
<1>3. routed' = routed \/ routed' = w
  OBVIOUS
<1>4. w <= serverGen
  BY <1>2 DEF RegisteredOpen
<1> HIDE DEF ReadFrame, ReadFails, RouteFrame
<1>5. TypeOK'
  BY <1>1, <1>2, <1>3 DEF TypeOK
<1>6. Registration'
  BY <1>1 DEF Registration
<1>7. RegisteredOpen'
  BY <1>1, <1>2, <1>3, <1>4 DEF RegisteredOpen, TypeOK
<1>8. Forward
  BY <1>1 DEF Forward, TypeOK, Servers
<1> QED
  BY <1>5, <1>6, <1>7, <1>8

\* Only the registered server's own pump takes it out of the hub.
LEMMA RemoveServerConnKeepsHub ==
    ASSUME RouteAssumption, HubFacts, NEW w \in Servers, RemoveServerConn(w)
    PROVE  HubFacts' /\ Forward
<1> USE DEF HubFacts, RemoveServerConn, callVars
<1>1. TypeOK'
  BY DEF TypeOK, PumpStates, NoServer
<1>2. Registration'
  BY DEF TypeOK, Registration, Servers, NoServer
<1>3. RegisteredOpen'
  BY DEF TypeOK, RegisteredOpen, Servers, NoServer
<1>4. Forward
  BY DEF TypeOK, Forward, Servers
<1> QED
  BY <1>1, <1>2, <1>3, <1>4

\* A server whose pump has ended is closed.
LEMMA CloseRemovedKeepsHub ==
    ASSUME RouteAssumption, HubFacts, NEW w \in Servers, CloseRemoved(w)
    PROVE  HubFacts' /\ Forward
BY DEF HubFacts, CloseRemoved, hubVars, pumpVars, callVars, TypeOK, Registration,
       RegisteredOpen, Forward, Servers

--------------------------------------------------------------------------------
(* The senders' steps.  Each disturbs the call of one sender only.            *)

Untouched(q) ==
    /\ call'[q] = call[q] /\ route'[q] = route[q]
    /\ since'[q] = since[q] /\ first'[q] = first[q]
    /\ q \in retried' <=> q \in retried
    /\ q \in faulted' <=> q \in faulted
    /\ q \in missed' <=> q \in missed
    /\ \A w \in Servers : <<q, w>> \in received' <=> <<q, w>> \in received

\* So the facts of the call that steps are all that a step has to restore.
LEMMA SenderStep ==
    ASSUME RouteInv, TypeOK',
           UNCHANGED <<hubVars, closed, pumpVars>>,
           NEW p \in Senders,
           \A q \in Senders : q # p => Untouched(q),
           CallFacts(p)'
    PROVE  RouteInv'
<1>1. Registration' /\ RegisteredOpen'
  BY DEF RouteInv, Registration, RegisteredOpen, hubVars, pumpVars
<1>2. ASSUME NEW q \in Senders, q # p PROVE CallFacts(q)'
  <2>1. CallFacts(q) /\ Untouched(q)
    BY <1>2 DEF RouteInv
  <2> USE DEF CallFacts, Untouched, hubVars
  <2>2. RouteOfCall(q)'
    BY <2>1 DEF RouteOfCall
  <2>3. FrameTruth(q)' /\ NewEnough(q)' /\ LossExplained(q)'
    BY <2>1 DEF FrameTruth, NewEnough, LossExplained
  <2> QED
    BY <2>2, <2>3
<1> QED
  BY <1>1, <1>2 DEF RouteInv

\* A call that begins has reached nobody and missed nothing.
LEMMA SendToServerKeeps ==
    ASSUME RouteAssumption, RouteInv, NEW p \in Senders, SendToServer(p)
    PROVE  RouteInv'
<1> USE DEF SendToServer
<1> DEFINE c == IF roomClosed THEN "false" ELSE "checked"
<1>1. TypeOK /\ Registration /\ RegisteredOpen /\ CallFacts(p)
  BY DEF RouteInv
<1>2. OldestLive \in Nat
  BY <1>1 DEF OldestLive, TypeOK, Servers, NoServer
<1>3. TypeOK'
  BY <1>1, <1>2 DEF TypeOK, CallStates, hubVars, pumpVars
<1>4. call'[p] = c /\ since'[p] = OldestLive
  BY <1>1, <1>2 DEF TypeOK
<1>5. ~roomClosed => /\ OldestLive <= serverGen
                     /\ roomServer >= OldestLive \/ roomServer \in closed
  BY <1>1 DEF OldestLive, TypeOK, Registration, Servers, NoServer
<1>6. CallFacts(p)'
  <2>1. RouteOfCall(p)'
    BY <1>1, <1>4, <1>5 DEF CallFacts, RouteOfCall, Routed, UnderWay, hubVars
  <2>2. \A w \in Servers : <<p, w>> \notin received'
    BY <1>1 DEF CallFacts, FrameTruth
  <2>3. FrameTruth(p)' /\ NewEnough(p)'
    BY <1>4, <2>2 DEF FrameTruth, NewEnough
  <2>4. LossExplained(p)'
    BY <1>4 DEF LossExplained, hubVars
  <2> QED
    BY <2>1, <2>3, <2>4 DEF CallFacts
<1>7. \A q \in Senders : q # p => Untouched(q)
  BY <1>1 DEF TypeOK, Untouched
<1> QED
  BY <1>3, <1>6, <1>7, SenderStep

\* A room message takes the room's server and generation in one section.
LEMMA SnapshotKeeps ==
    ASSUME RouteAssumption, RouteInv, NEW p \in Senders, Snapshot(p)
    PROVE  RouteInv'
<1> USE DEF Snapshot
<1>1. TypeOK /\ Registration /\ CallFacts(p)
  BY DEF RouteInv
<1>2. TypeOK'
  BY <1>1 DEF TypeOK, CallStates, hubVars, pumpVars
<1>3. call'[p] = "acquire" /\ route'[p] = roomServer /\ first'[p] = roomServer
  BY <1>1 DEF TypeOK
<1>4. CallFacts(p)'
  <2>1. RouteOfCall(p)'
    BY <1>1, <1>3
       DEF CallFacts, RouteOfCall, Routed, UnderWay, hubVars, TypeOK, Registration
  <2>2. FrameTruth(p)' /\ NewEnough(p)' /\ LossExplained(p)'
    BY <1>1, <1>3 DEF CallFacts, FrameTruth, NewEnough, LossExplained
  <2> QED
    BY <2>1, <2>2 DEF CallFacts
<1>5. \A q \in Senders : q # p => Untouched(q)
  BY <1>1 DEF TypeOK, Untouched
<1> QED
  BY <1>2, <1>4, <1>5, SenderStep

\* A session message takes the session's server.
LEMMA ForwardToServerKeeps ==
    ASSUME RouteAssumption, RouteInv, NEW p \in Senders, ForwardToServer(p)
    PROVE  RouteInv'
<1> USE DEF ForwardToServer
<1> DEFINE c == IF sessionServer = NoServer THEN "false" ELSE "acquire"
<1>1. TypeOK /\ Registration /\ CallFacts(p)
  BY DEF RouteInv
<1>2. OldestLive \in Nat
  BY <1>1 DEF OldestLive, TypeOK, Servers, NoServer
<1>3. TypeOK'
  BY <1>1, <1>2 DEF TypeOK, CallStates, hubVars, pumpVars
<1>4. call'[p] = c /\ route'[p] = sessionServer /\ since'[p] = OldestLive
  BY <1>1, <1>2 DEF TypeOK
<1>5. p \notin RoomSenders
  BY DEF RouteAssumption
<1>6. sessionServer # NoServer =>
         /\ sessionServer \in Servers
         /\ sessionServer <= serverGen
         /\ sessionServer >= OldestLive
  BY <1>1 DEF OldestLive, TypeOK, Registration, Servers, NoServer
<1>7. CallFacts(p)'
  <2>1. RouteOfCall(p)'
    BY <1>1, <1>4, <1>5, <1>6
       DEF CallFacts, RouteOfCall, Routed, UnderWay, hubVars, TypeOK
  <2>2. \A w \in Servers : <<p, w>> \notin received'
    BY <1>1 DEF CallFacts, FrameTruth
  <2>3. FrameTruth(p)' /\ NewEnough(p)' /\ LossExplained(p)'
    BY <1>4, <1>5, <2>2 DEF FrameTruth, NewEnough, LossExplained
  <2> QED
    BY <2>1, <2>3 DEF CallFacts
<1>8. \A q \in Senders : q # p => Untouched(q)
  BY <1>1 DEF TypeOK, Untouched
<1> QED
  BY <1>3, <1>7, <1>8, SenderStep

\* A sender that gets writeMu has learnt nothing more.
LEMMA AcquireKeeps ==
    ASSUME RouteAssumption, RouteInv, NEW p \in Senders, Acquire(p)
    PROVE  RouteInv'
<1> USE DEF Acquire
<1>1. TypeOK /\ CallFacts(p)
  BY DEF RouteInv
<1>2. route[p] \in Servers
  BY <1>1 DEF CallFacts, RouteOfCall, Routed
<1>3. TypeOK'
  BY <1>1, <1>2 DEF TypeOK, CallStates, hubVars, pumpVars
<1>4. call'[p] = "writing"
  BY <1>1 DEF TypeOK
<1>5. CallFacts(p)'
  <2>1. RouteOfCall(p)'
    BY <1>1, <1>4 DEF CallFacts, RouteOfCall, Routed, UnderWay, hubVars
  <2>2. FrameTruth(p)' /\ NewEnough(p)' /\ LossExplained(p)'
    BY <1>1, <1>4 DEF CallFacts, FrameTruth, NewEnough, LossExplained
  <2> QED
    BY <2>1, <2>2 DEF CallFacts
<1>6. \A q \in Senders : q # p => Untouched(q)
  BY <1>1 DEF TypeOK, Untouched
<1> QED
  BY <1>3, <1>5, <1>6, SenderStep

\* The server is open, so it is not too old; and no other has the frame yet.
LEMMA WriteOkKeeps ==
    ASSUME RouteAssumption, RouteInv, NEW p \in Senders, WriteOk(p)
    PROVE  RouteInv'
<1> USE DEF WriteOk
<1>1. TypeOK /\ CallFacts(p)
  BY DEF RouteInv
<1>2. /\ route[p] \in Servers
      /\ route[p] >= since[p]
      /\ \A w \in Servers : <<p, w>> \notin received
  BY <1>1 DEF CallFacts, RouteOfCall, Routed, FrameTruth
<1>3. TypeOK'
  BY <1>1, <1>2 DEF TypeOK, CallStates, hubVars, pumpVars
<1>4. call'[p] = "true"
  BY <1>1 DEF TypeOK
<1>5. CallFacts(p)'
  <2>1. RouteOfCall(p)'
    BY <1>1, <1>4 DEF CallFacts, RouteOfCall, Routed, UnderWay, hubVars
  <2>2. \A w \in Servers : <<p, w>> \in received' <=> w = route[p]
    BY <1>2
  <2>3. FrameTruth(p)' /\ NewEnough(p)' /\ LossExplained(p)'
    BY <1>2, <1>4, <2>2 DEF FrameTruth, NewEnough, LossExplained
  <2> QED
    BY <2>1, <2>3 DEF CallFacts
<1>6. \A q \in Senders : q # p => Untouched(q)
  BY <1>1 DEF TypeOK, Untouched
<1> QED
  BY <1>3, <1>5, <1>6, SenderStep

\* A second attempt that meets a closed server has been overtaken twice.
LEMMA WriteFailsKeeps ==
    ASSUME RouteAssumption, RouteInv, NEW p \in Senders, WriteFails(p)
    PROVE  RouteInv'
<1> USE DEF WriteFails
<1> DEFINE c == IF p \in RoomSenders \ retried THEN "failed" ELSE "false"
<1>1. TypeOK /\ Registration /\ RegisteredOpen /\ CallFacts(p)
  BY DEF RouteInv
<1>2. route[p] \in Servers /\ route[p] <= serverGen
  BY <1>1 DEF CallFacts, RouteOfCall, Routed
<1>3. TypeOK'
  BY <1>1, <1>2 DEF TypeOK, CallStates, hubVars, pumpVars
<1>4. call'[p] = c /\ (p \notin faulted' => route[p] \in closed)
  BY <1>1 DEF TypeOK
<1>5. CallFacts(p)'
  <2>1. RouteOfCall(p)'
    BY <1>1, <1>4 DEF CallFacts, RouteOfCall, Routed, UnderWay, hubVars
  <2>2. FrameTruth(p)' /\ NewEnough(p)'
    BY <1>1, <1>4 DEF CallFacts, FrameTruth, NewEnough
  <2>3. LossExplained(p)'
    <3> SUFFICES ASSUME p \in RoomSenders, c = "false", p \notin faulted', ~roomClosed
                 PROVE  serverGen >= first[p] + 2
      BY <1>4 DEF LossExplained, hubVars
    <3>1. p \in retried /\ route[p] > first[p]
      BY <1>1 DEF CallFacts, RouteOfCall, Routed
    <3>2. serverGen # route[p]
      BY <1>1, <1>4 DEF Registration, RegisteredOpen
    <3> QED
      BY <1>1, <1>2, <3>1, <3>2 DEF TypeOK, Servers, NoServer
  <2> QED
    BY <2>1, <2>2, <2>3 DEF CallFacts
<1>6. \A q \in Senders : q # p => Untouched(q)
  BY <1>1 DEF TypeOK, Untouched
<1> QED
  BY <1>3, <1>5, <1>6, SenderStep

\* Between two registrations an open room is routed to an open server: only a
\* fault leaves a failed send without a newer one to go to.
LEMMA RetryKeeps ==
    ASSUME RouteAssumption, RouteInv, NEW p \in Senders, Retry(p)
    PROVE  RouteInv'
<1> USE DEF Retry
<1>1. TypeOK /\ Registration /\ RegisteredOpen /\ CallFacts(p)
  BY DEF RouteInv
<1>2. /\ p \in RoomSenders /\ p \notin retried
      /\ route[p] \in Servers /\ route[p] <= serverGen /\ route[p] = first[p]
      /\ route[p] \in closed \/ p \in faulted
  BY <1>1 DEF CallFacts, RouteOfCall, Routed, UnderWay
<1>3. TypeOK'
  BY <1>1, <1>2 DEF TypeOK, CallStates, hubVars, pumpVars
<1>4. CASE roomServer > route[p]
  <2>1. call'[p] = "acquire" /\ route'[p] = roomServer /\ p \in retried'
    BY <1>1, <1>4 DEF TypeOK
  <2>2. RouteOfCall(p)'
    BY <1>1, <1>2, <1>4, <2>1
       DEF CallFacts, RouteOfCall, Routed, UnderWay, hubVars, TypeOK, Registration
  <2>3. FrameTruth(p)' /\ NewEnough(p)' /\ LossExplained(p)'
    BY <1>1, <2>1 DEF CallFacts, FrameTruth, NewEnough, LossExplained
  <2>4. CallFacts(p)'
    BY <2>2, <2>3 DEF CallFacts
  <2>5. \A q \in Senders : q # p => Untouched(q)
    BY <1>1, <1>4 DEF TypeOK, Untouched
  <2> QED
    BY <1>3, <2>4, <2>5, SenderStep
<1>5. CASE ~(roomServer > route[p])
  <2>1. call'[p] = "false" /\ UNCHANGED <<route, retried>>
    BY <1>1, <1>5 DEF TypeOK
  <2>2. RouteOfCall(p)'
    BY <1>1, <2>1 DEF CallFacts, RouteOfCall, Routed, UnderWay, hubVars
  <2>3. FrameTruth(p)' /\ NewEnough(p)'
    BY <1>1, <2>1 DEF CallFacts, FrameTruth, NewEnough
  <2>4. LossExplained(p)'
    <3> SUFFICES ASSUME p \notin faulted, ~roomClosed, p \notin missed'
                 PROVE  FALSE
      BY DEF LossExplained, hubVars
    <3>1. adding = "idle"
      OBVIOUS
    <3>2. roomServer = serverGen /\ serverGen \notin closed
      BY <1>1, <3>1 DEF Registration, RegisteredOpen
    <3> QED
      BY <1>1, <1>2, <1>5, <3>2 DEF TypeOK, Servers
  <2>5. CallFacts(p)'
    BY <2>2, <2>3, <2>4 DEF CallFacts
  <2>6. \A q \in Senders : q # p => Untouched(q)
    BY <1>1, <2>1 DEF TypeOK, Untouched
  <2> QED
    BY <1>3, <2>5, <2>6, SenderStep
<1> QED
  BY <1>4, <1>5

--------------------------------------------------------------------------------
\* No call has been made.
LEMMA RouteInvInit == RouteAssumption /\ Init => RouteInv
<1> SUFFICES ASSUME RouteAssumption, Init PROVE RouteInv
  OBVIOUS
<1> USE DEF Init
<1>1. TypeOK
  <2>1. 1 \in Servers
    BY DEF RouteAssumption, Servers
  <2>2. pump \in [Servers -> PumpStates]
    BY DEF PumpStates
  <2>3. call \in [Senders -> CallStates]
    BY DEF CallStates
  <2> QED
    BY <2>1, <2>2, <2>3 DEF TypeOK
<1>2. Registration /\ RegisteredOpen
  BY DEF Registration, RegisteredOpen, RouteAssumption, Servers, NoServer
<1>3. ASSUME NEW p \in Senders PROVE CallFacts(p)
  BY DEF CallFacts, RouteOfCall, Routed, UnderWay, FrameTruth, NewEnough, LossExplained
<1> QED
  BY <1>1, <1>2, <1>3 DEF RouteInv

\* Every step keeps the registration and what each call has seen.
LEMMA RouteInvStep == RouteAssumption /\ RouteInv /\ [Next]_vars => RouteInv'
<1> SUFFICES ASSUME RouteAssumption, RouteInv, [Next]_vars PROVE RouteInv'
  OBVIOUS
<1>1. HubFacts
  BY DEF RouteInv, HubFacts
<1>2. ASSUME HubFacts', Forward PROVE RouteInv'
  BY <1>2, ForwardKeepsCalls DEF RouteInv, HubFacts
<1>3. CASE AddServer \/ CloseOld \/ Rebind \/ CloseRoom
  BY <1>1, <1>2, <1>3, AddServerKeepsHub, CloseOldKeepsHub, RebindKeepsHub,
     CloseRoomKeepsHub
<1>4. ASSUME NEW w \in Servers,
             ReadFrame(w) \/ ReadFails(w) \/ RouteFrame(w) \/ RemoveServerConn(w)
                \/ CloseRemoved(w)
      PROVE  RouteInv'
  BY <1>1, <1>2, <1>4, PumpKeepsHub, RemoveServerConnKeepsHub, CloseRemovedKeepsHub
<1>5. ASSUME NEW p \in Senders,
             SendToServer(p) \/ Snapshot(p) \/ ForwardToServer(p) \/ Acquire(p)
                \/ WriteOk(p) \/ WriteFails(p) \/ Retry(p)
      PROVE  RouteInv'
  BY <1>5, SendToServerKeeps, SnapshotKeeps, ForwardToServerKeeps, AcquireKeeps,
     WriteOkKeeps, WriteFailsKeeps, RetryKeeps
<1>6. CASE UNCHANGED vars
  BY <1>6 DEF RouteInv, TypeOK, Registration, RegisteredOpen, CallFacts, RouteOfCall,
              FrameTruth, NewEnough, LossExplained, vars, hubVars, pumpVars, callVars
<1> QED
  BY <1>3, <1>4, <1>5, <1>6 DEF Next

\* The invariant holds in every reachable state.
LEMMA RouteInvariant == Spec => []RouteInv
BY RouteInvInit, RouteInvStep, RouteAssumption, PTL DEF Spec

\* What each call has seen gives the three properties.
LEMMA PropertiesOfCalls ==
    RouteInv => SendTruth /\ NoFrameToReplaced /\ LostOnlyMidReplacement
<1> SUFFICES ASSUME RouteInv
             PROVE  SendTruth /\ NoFrameToReplaced /\ LostOnlyMidReplacement
  OBVIOUS
<1>1. TypeOK /\ \A p \in Senders : CallFacts(p)
  BY DEF RouteInv
<1>2. SendTruth
  <2> SUFFICES ASSUME NEW p \in Senders
               PROVE  LET got == {w \in Servers : <<p, w>> \in received}
                      IN  IF call[p] = "true" THEN \E w \in Servers : got = {w}
                          ELSE got = {}
    BY DEF SendTruth
  <2>1. FrameTruth(p)
    BY <1>1 DEF CallFacts
  <2> QED
    BY <2>1 DEF FrameTruth
<1>3. NoFrameToReplaced
  BY <1>1 DEF NoFrameToReplaced, CallFacts, NewEnough, TypeOK
<1>4. LostOnlyMidReplacement
  BY <1>1 DEF LostOnlyMidReplacement, CallFacts, LossExplained, Senders
<1> QED
  BY <1>2, <1>3, <1>4

\* Whatever goroutines send while the server's socket is replaced, SendToServer
\* and ForwardToServer return true exactly when one server has the frame.
THEOREM SendsReportTheTruth == Spec => []SendTruth
BY RouteInvariant, PropertiesOfCalls, PTL

\* No sender reaches a server that had been replaced when its call began.
THEOREM ReplacedGetNothing == Spec => []NoFrameToReplaced
BY RouteInvariant, PropertiesOfCalls, PTL

\* What SendToServer's retry makes good although AddServer closes the old server
\* before it rebinds the room: a frame is lost only to a fault, to a second
\* snapshot taken between the two, or to a second replacement.
THEOREM RetryBridgesReplacement == Spec => []LostOnlyMidReplacement
BY RouteInvariant, PropertiesOfCalls, PTL

\* routeCurrentServerMessage never routes a replaced server's frame to a client
\* that has had one of its successor.
THEOREM ClientsSeeServersInOrder == Spec => ClientsSeeNewer
<1>1. RouteAssumption /\ RouteInv /\ [Next]_vars => [routed' >= routed]_routed
  <2> SUFFICES ASSUME RouteInv, Next, ~UNCHANGED routed PROVE routed' >= routed
    BY DEF vars, pumpVars
  <2>1. PICK w \in Servers : RouteFrame(w)
    BY DEF Next, AddServer, CloseOld, Rebind, CloseRoom, ReadFrame, ReadFails,
           RemoveServerConn, CloseRemoved, SendToServer, Snapshot, ForwardToServer,
           Acquire, WriteOk, WriteFails, Retry, pumpVars
  <2>2. routed' = w /\ registered = w
    BY <2>1 DEF RouteFrame, Current
  <2> QED
    BY <2>2 DEF RouteInv, TypeOK, RegisteredOpen, Servers, NoServer
<1> QED
  BY <1>1, RouteInvariant, RouteAssumption, PTL DEF Spec, ClientsSeeNewer
================================================================================
