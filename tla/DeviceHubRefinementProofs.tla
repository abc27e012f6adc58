----------------------- MODULE DeviceHubRefinementProofs -----------------------
(******************************************************************************)
(* The device hub implements SessionLifecycle, for every value of the         *)
(* constants: each operation of the hub is a step of the lifecycle or none.   *)
(* By the same argument the session whose drop exceeds the cap is never the   *)
(* one evicted, so that no session in use is dropped in silence.              *)
(******************************************************************************)
EXTENDS DeviceHubRefinement, DeviceHubProofs

\* Only sessions in the stale set are compared by their stale-at times.
SeniorInv == staleBefore \subseteq staleSessions \X staleSessions

\* A callback carries a generation that its side has had: the next window's
\* generation has never fired.
GenInv ==
    \A s \in SessionIDs, side \in Sides, g \in Nat :
        <<s, side, g>> \in fired => g <= graceGen[s][side]

\* What the simulation of a step rests on.
HubInv == TypeInv /\ SessionInv /\ CapInv /\ SeniorInv /\ GenInv

--------------------------------------------------------------------------------
(* What marking a session stale does when the cap is known to have held.      *)

\* There is room.
MarkFits(s, side) ==
    /\ ~OverCap(staleSessions \cup {s})
    /\ graceGen' = [graceGen EXCEPT ![s][side] = @ + 1]
    /\ stale' = [stale EXCEPT ![s] = @ \cup {side}]
    /\ staleSessions' = staleSessions \cup {s}
    /\ staleBefore' = SeniorityWith(s)
    /\ UNCHANGED <<sessions, teardown>>

\* The session longest in grace, another than s, makes room.
MarkEvicts(s, side, silent, oldest) ==
    /\ OverCap(staleSessions \cup {s})
    /\ s \notin staleSessions
    /\ \A t \in staleSessions \ {oldest} : <<oldest, t>> \in staleBefore
    /\ graceGen' = [graceGen EXCEPT ![s][side] = @ + 1]
    /\ stale' = [x \in SessionIDs |-> IF x = oldest THEN {}
                                      ELSE IF x = s THEN stale[x] \cup {side}
                                      ELSE stale[x]]
    /\ staleSessions' = (staleSessions \cup {s}) \ {oldest}
    /\ staleBefore' = {p \in SeniorityWith(s) : p[1] # oldest /\ p[2] # oldest}
    /\ sessions' = sessions \ {oldest}
    /\ teardown' = teardown \cup (({oldest} \cap sessions) \ silent)

\* A session that drops while the cap is exceeded was not in grace before, and
\* is younger than every session that was.
LEMMA MarkCases ==
    ASSUME CapInv, SeniorInv, NEW s, NEW side, NEW silent, MarkSideStale(s, side, silent)
    PROVE  \/ MarkFits(s, side)
           \/ \E oldest \in staleSessions \ {s} : MarkEvicts(s, side, silent, oldest)
<1> DEFINE tracked == staleSessions \cup {s}
           evicts(oldest) ==
               /\ \A t \in tracked \ {oldest} : <<oldest, t>> \in SeniorityWith(s)
               /\ stale' = [x \in SessionIDs |-> IF x = oldest THEN {}
                                                 ELSE IF x = s THEN stale[x] \cup {side}
                                                 ELSE stale[x]]
               /\ staleSessions' = tracked \ {oldest}
               /\ staleBefore' = {p \in SeniorityWith(s) : p[1] # oldest /\ p[2] # oldest}
               /\ sessions' = sessions \ {oldest}
               /\ teardown' = teardown \cup (({oldest} \cap sessions) \ silent)
<1>1. graceGen' = [graceGen EXCEPT ![s][side] = @ + 1]
    BY DEF MarkSideStale
<1>2. MarkFits(s, side) \/ (OverCap(tracked) /\ \E oldest \in tracked : evicts(oldest))
    BY DEF MarkSideStale, MarkFits
<1>3. ASSUME OverCap(tracked), NEW oldest \in tracked, evicts(oldest)
      PROVE  oldest \in staleSessions \ {s} /\ MarkEvicts(s, side, silent, oldest)
  <2>1. s \notin staleSessions
    <3>1. CASE s \in staleSessions
      <4>1. tracked = staleSessions
          BY <3>1
      <4>2. Cardinality(tracked) <= MaxStaleSessions /\ Cardinality(tracked) \in Nat
          BY <4>1, FS_CardinalityType DEF CapInv
      <4> QED
          BY <1>3, <4>2, HubAssumption DEF OverCap
    <3> QED
        BY <3>1
  <2>2. staleSessions # {}
    <3>1. CASE staleSessions = {}
      <4>1. tracked = {} \cup {s}
          BY <3>1
      <4>2. Cardinality(tracked) = 1
          BY <4>1, FS_EmptySet, FS_AddElement
      <4> QED
          BY <1>3, <4>2, HubAssumption DEF OverCap
    <3> QED
        BY <3>1
  <2>3. SeniorityWith(s) = staleBefore \cup (staleSessions \X {s})
      BY <2>1 DEF SeniorityWith
  <2>4. oldest # s
    <3>1. CASE oldest = s
      <4>1. PICK t \in staleSessions : t # s
          BY <2>1, <2>2
      <4>2. <<s, t>> \in staleBefore
          BY <1>3, <2>3, <3>1, <4>1
      <4> QED
          BY <2>1, <4>2 DEF SeniorInv
    <3> QED
        BY <3>1
  <2>5. \A t \in staleSessions \ {oldest} : <<oldest, t>> \in staleBefore
      BY <1>3, <2>1, <2>3
  <2> QED
      BY <1>1, <1>3, <2>1, <2>4, <2>5 DEF MarkEvicts
<1> QED
    BY <1>2, <1>3

\* MarkSideStale compares only sessions that it tracks, and starts a window
\* whose generation has not fired.
LEMMA MarkOrder ==
    ASSUME TypeInv, CapInv, SeniorInv, GenInv, fired' = fired,
           NEW s \in SessionIDs, NEW side \in Sides, NEW silent,
           MarkSideStale(s, side, silent)
    PROVE  SeniorInv' /\ GenInv'
<1>1. SeniorInv'
  <2>1. /\ SeniorityWith(s) \subseteq (staleSessions \cup {s}) \X (staleSessions \cup {s})
        /\ \A p \in SeniorityWith(s) : p = <<p[1], p[2]>>
      BY DEF SeniorityWith, SeniorInv
  <2>2. CASE MarkFits(s, side)
      BY <2>1, <2>2 DEF MarkFits, SeniorInv
  <2>3. ASSUME NEW oldest \in staleSessions \ {s}, MarkEvicts(s, side, silent, oldest)
        PROVE  SeniorInv'
      BY <2>1, <2>3 DEF MarkEvicts, SeniorInv
  <2> QED
      BY <2>2, <2>3, MarkCases
<1>2. graceGen' = [graceGen EXCEPT ![s][side] = @ + 1]
    BY DEF MarkSideStale
<1>3. \A t \in SessionIDs, e \in Sides :
          graceGen'[t][e] \in {graceGen[t][e], graceGen[t][e] + 1}
    BY <1>2 DEF TypeInv, TypeOK
<1>4. \A t \in SessionIDs, e \in Sides : graceGen[t][e] \in Nat
    BY DEF TypeInv, TypeOK
<1>5. GenInv'
    BY <1>3, <1>4 DEF GenInv
<1> QED
    BY <1>1, <1>5

\* No session is stale and no callback has fired.
LEMMA OrderInit == Init => SeniorInv /\ GenInv
BY DEF Init, SeniorInv, GenInv

\* The steps that neither mark a side stale nor fire a timer.
LEMMA OrderFrame ==
    ASSUME SeniorInv, GenInv, graceGen' = graceGen, fired' \subseteq fired,
           \/ UNCHANGED <<staleSessions, staleBefore>>
           \/ \E S : Untrack(S)
    PROVE  SeniorInv' /\ GenInv'
<1>1. SeniorInv'
    BY DEF SeniorInv, Untrack
<1>2. GenInv'
    BY DEF GenInv
<1> QED
    BY <1>1, <1>2

\* Seniority is among stale sessions; generations only grow.
LEMMA OrderStep ==
    TypeInv /\ CapInv /\ SeniorInv /\ GenInv /\ [Next]_vars => SeniorInv' /\ GenInv'
<1> SUFFICES ASSUME TypeInv, CapInv, SeniorInv, GenInv, [Next]_vars
             PROVE  SeniorInv' /\ GenInv'
    OBVIOUS
<1>1. ASSUME NEW w \in Servers, RemoveServerConn(w)
      PROVE  SeniorInv' /\ GenInv'
  <2> DEFINE d == server[w].device
  <2>1. fired' = fired
      BY <1>1 DEF RemoveServerConn
  <2>2. ASSUME NEW s \in SessionsOf(d), MarkSideStale(s, "server", {})
        PROVE  SeniorInv' /\ GenInv'
    <3>1. s \in SessionIDs /\ "server" \in Sides
        BY DEF SessionsOf, TypeInv, TypeOK, Sides
    <3> QED
        BY <2>1, <2>2, <3>1, MarkOrder
  <2>3. CASE UNCHANGED <<graceGen, staleSessions, staleBefore>>
      BY <2>1, <2>3, OrderFrame
  <2> QED
      BY <1>1, <2>2, <2>3 DEF RemoveServerConn
<1>2. ASSUME NEW s \in SessionIDs, NEW c \in Clients, MarkClientStale(s, c)
      PROVE  SeniorInv' /\ GenInv'
    BY <1>2, MarkOrder DEF MarkClientStale, Sides
<1>3. ASSUME NEW s \in SessionIDs, NEW side \in Sides, TimerFires(s, side)
      PROVE  SeniorInv' /\ GenInv'
  <2>1. /\ fired' = fired \cup {<<s, side, graceGen[s][side]>>}
        /\ graceGen' = graceGen
        /\ UNCHANGED <<staleSessions, staleBefore>>
      BY <1>3 DEF TimerFires, sessionVars
  <2>2. graceGen[s][side] \in Nat
      BY DEF TypeInv, TypeOK
  <2> QED
      BY <2>1, <2>2 DEF SeniorInv, GenInv
<1>4. CASE /\ graceGen' = graceGen
           /\ fired' \subseteq fired
           /\ UNCHANGED <<staleSessions, staleBefore>> \/ \E S : Untrack(S)
    BY <1>4, OrderFrame
<1>5. \/ graceGen' = graceGen /\ fired' \subseteq fired
      \/ \E w \in Servers : RemoveServerConn(w)
      \/ \E s \in SessionIDs, c \in Clients : MarkClientStale(s, c)
      \/ \E s \in SessionIDs, side \in Sides : TimerFires(s, side)
    BY DEF Next, vars, sessionVars, graceVars, AddServer, RemoveServer, CreateSession,
           CreateGuestSession, NewSession, SetSessionClient, RemoveSession, ExpireGrace,
           Teardown, CleanupStaleSessions, RegisterGuestDevice, UnregisterGuestDevice,
           CreateRoom, RemoveRoom
<1>6. \/ UNCHANGED <<staleSessions, staleBefore>> \/ \E S : Untrack(S)
      \/ \E w \in Servers : RemoveServerConn(w)
      \/ \E s \in SessionIDs, c \in Clients : MarkClientStale(s, c)
  <2>1. ASSUME NEW w \in Servers, NEW d \in Devices, NEW u \in Users, AddServer(w, d, u)
        PROVE  \E S : Untrack(S)
      BY <2>1 DEF AddServer
  <2>2. ASSUME NEW d \in Devices, RemoveServer(d) PROVE \E S : Untrack(S)
      BY <2>2 DEF RemoveServer, RemoveCleared
  <2>3. ASSUME NEW s \in SessionIDs, NEW c \in Clients, SetSessionClient(s, c)
        PROVE  \E S : Untrack(S)
      BY <2>3 DEF SetSessionClient
  <2>4. ASSUME NEW s \in SessionIDs, RemoveSession(s) PROVE \E S : Untrack(S)
      BY <2>4 DEF RemoveSession, RemoveCleared
  <2>5. ASSUME NEW cb \in fired, ExpireGrace(cb[1], cb[2], cb[3])
        PROVE  UNCHANGED <<staleSessions, staleBefore>> \/ \E S : Untrack(S)
      BY <2>5 DEF ExpireGrace
  <2>6. ASSUME \/ \E s \in SessionIDs, side \in Sides : TimerFires(s, side)
               \/ \E u \in Users, d \in Devices, s \in SessionIDs : CreateSession(u, d, s)
               \/ \E g \in ShortIDs, s \in SessionIDs : CreateGuestSession(g, s)
               \/ \E s \in SessionIDs : Teardown(s)
               \/ CleanupStaleSessions
               \/ \E g \in ShortIDs, u \in Users, d \in Devices : RegisterGuestDevice(g, u, d)
               \/ \E g \in ShortIDs : UnregisterGuestDevice(g)
               \/ \E d \in Devices, u \in Users, r \in RoomIDs : CreateRoom(d, u, r)
               \/ \E r \in RoomIDs : RemoveRoom(r)
               \/ UNCHANGED vars
        PROVE  UNCHANGED <<staleSessions, staleBefore>>
      BY <2>6 DEF TimerFires, CreateSession, CreateGuestSession, NewSession, Teardown,
                  CleanupStaleSessions, RegisterGuestDevice, UnregisterGuestDevice,
                  CreateRoom, RemoveRoom, vars, graceVars
  <2> QED
      BY <2>1, <2>2, <2>3, <2>4, <2>5, <2>6 DEF Next
<1> QED
    BY <1>1, <1>2, <1>3, <1>4, <1>5, <1>6

\* What the simulation rests on holds in every reachable state.
LEMMA HubInvariants == Spec => []HubInv
<1>1. Init => HubInv
    BY TypeInvInit, SessionInvInit, CapInvInit, OrderInit DEF HubInv
<1>2. HubInv /\ [Next]_vars => HubInv'
    BY TypeInvStep, SessionInvStep, CapInvStep, OrderStep DEF HubInv
<1> QED
    BY <1>1, <1>2, PTL DEF Spec

--------------------------------------------------------------------------------
(* Nothing in use is dropped in silence.                                      *)

\* A session that a drop takes out of the map is another's victim, and announced.
LEMMA MarkNotSilent ==
    ASSUME CapInv, SeniorInv, NEW s \in sessions, NEW side, NEW silent \in SUBSET {s},
           MarkSideStale(s, side, silent)
    PROVE  sessions \ sessions' \subseteq teardown'
<1>1. CASE MarkFits(s, side)
    BY <1>1 DEF MarkFits
<1>2. ASSUME NEW oldest \in staleSessions \ {s}, MarkEvicts(s, side, silent, oldest)
      PROVE  sessions \ sessions' \subseteq teardown'
    BY <1>2 DEF MarkEvicts
<1> QED
    BY <1>1, <1>2, MarkCases

\* The operations that take sessions out of the map, but RemoveSession.
DropStep ==
    \/ \E d \in Devices : RemoveServer(d)
    \/ \E w \in Servers : RemoveServerConn(w)
    \/ \E s \in SessionIDs, c \in Clients : MarkClientStale(s, c)
    \/ \E cb \in fired : ExpireGrace(cb[1], cb[2], cb[3])
    \/ CleanupStaleSessions

\* They announce it, unless nobody had joined the session.
LEMMA DropsAnnounced ==
    ASSUME HubInv, DropStep, NEW s \in sessions \ sessions',
           clientConn[s] # NONE \/ stale[s] # {}
    PROVE  s \in teardown'
<1>1. ASSUME NEW d \in Devices, RemoveServer(d) PROVE s \in teardown'
    BY <1>1 DEF RemoveServer, RemoveCleared
<1>2. ASSUME NEW w \in Servers, RemoveServerConn(w) PROVE s \in teardown'
    <2>1. ASSUME NEW t \in SessionsOf(server[w].device), MarkSideStale(t, "server", {})
          PROVE  s \in teardown'
        BY <2>1, MarkNotSilent DEF HubInv, SessionsOf
    <2> QED
        BY <1>2, <2>1 DEF RemoveServerConn
<1>3. ASSUME NEW t \in SessionIDs, NEW c \in Clients, MarkClientStale(t, c)
      PROVE  s \in teardown'
    BY <1>3, MarkNotSilent DEF HubInv, MarkClientStale
<1>4. ASSUME NEW cb \in fired, ExpireGrace(cb[1], cb[2], cb[3]) PROVE s \in teardown'
    BY <1>4 DEF ExpireGrace
<1>5. CASE CleanupStaleSessions
    BY <1>5 DEF CleanupStaleSessions, Abandoned
<1> QED
    BY <1>1, <1>2, <1>3, <1>4, <1>5 DEF DropStep

\* The hub tells the peers of every session it takes out of the map, unless
\* nobody had joined it or RemoveSession, which announces nothing, took it: the
\* victim of the cap is never the session whose drop exceeds it, which
\* MarkClientStale leaves unannounced.
THEOREM NothingDroppedSilently == Spec => NoSilentDrop
<1> DEFINE announced == \A s \in sessions \ sessions' :
                           (clientConn[s] # NONE \/ stale[s] # {}) /\ ~RemoveSession(s)
                              => s \in teardown'
<1>1. HubInv /\ [Next]_vars => [announced]_vars
    <2> SUFFICES ASSUME HubInv, [Next]_vars PROVE announced
        OBVIOUS
    <2>1. \/ sessions \subseteq sessions'
          \/ DropStep
          \/ \E s \in SessionIDs : RemoveSession(s)
        BY DEF Next, vars, sessionVars, AddServer, CreateSession, CreateGuestSession,
               NewSession, SetSessionClient, TimerFires, Teardown, RegisterGuestDevice,
               UnregisterGuestDevice, CreateRoom, RemoveRoom, DropStep
    <2>2. ASSUME NEW s \in SessionIDs, RemoveSession(s) PROVE announced
        <3>1. sessions \ sessions' \subseteq {s}
            BY <2>2 DEF RemoveSession, RemoveCleared
        <3> QED
            BY <2>2, <3>1
    <2>3. CASE sessions \subseteq sessions'
        BY <2>3
    <2>4. CASE DropStep
        BY <2>4, DropsAnnounced
    <2> HIDE DEF announced
    <2> QED
        BY <2>1, <2>2, <2>3, <2>4
<1> QED
    BY <1>1, HubInvariants, PTL DEF Spec, NoSilentDrop

--------------------------------------------------------------------------------
(* The simulation.                                                            *)

\* The instance counts as the hub does.
LEMMA SameCardinality == ASSUME NEW S PROVE Lifecycle!Cardinality(S) = Cardinality(S)
BY DEF Cardinality, Lifecycle!Cardinality

\* The lifecycle's view of a state of the hub.
LEMMA View ==
    ASSUME HubInv
    PROVE  /\ \A s \in SessionIDs : Phase[s] = "open" <=> s \in sessions
           /\ \A s \in SessionIDs : Phase[s] = "new" <=> session[s] = NoSession
           /\ Lifecycle!InGrace = staleSessions
           /\ \A s \in SessionIDs : s \notin sessions => s \notin staleSessions
<1>1. \A s \in sessions : session[s] # NoSession
    BY Unmade DEF HubInv, TypeInv, Created
<1>2. \A s \in SessionIDs : Phase[s] = "open" <=> s \in sessions
    BY DEF Phase
<1>3. \A s \in SessionIDs : Phase[s] = "new" <=> session[s] = NoSession
    BY <1>1 DEF Phase
<1>4. staleSessions = {s \in sessions : stale[s] # {}} /\ sessions \subseteq SessionIDs
    BY DEF HubInv, SessionInv, StaleSetExact, TypeInv, TypeOK
<1>5. Lifecycle!InGrace = staleSessions
    BY <1>2, <1>4 DEF Lifecycle!InGrace
<1> QED
    BY <1>2, <1>3, <1>4, <1>5

\* The windows that have lapsed, side by side.
LEMMA DueSides ==
    ASSUME TypeInv
    PROVE  /\ Due \subseteq SessionIDs \X Sides
           /\ \A s \in SessionIDs, side \in Sides :
                 <<s, side>> \in Due <=> /\ s \in sessions /\ side \in stale[s]
                                         /\ <<s, side, graceGen[s][side]>> \in fired
BY DEF Due, TypeInv, TypeOK

\* The lapsed windows of the next state, without the records they are made from.
LEMMA DueSidesNext ==
    ASSUME TypeInv'
    PROVE  /\ Due' \subseteq SessionIDs \X Sides
           /\ \A s \in SessionIDs, side \in Sides :
                 <<s, side>> \in Due' <=> /\ s \in sessions' /\ side \in stale'[s]
                                          /\ <<s, side, graceGen'[s][side]>> \in fired'
BY DEF Due, TypeInv, TypeOK

\* Sets of windows are equal when they agree side by side.
LEMMA WindowSets ==
    ASSUME NEW X \in SUBSET (SessionIDs \X Sides), NEW Y \in SUBSET (SessionIDs \X Sides),
           \A s \in SessionIDs, side \in Sides : <<s, side>> \in X <=> <<s, side>> \in Y
    PROVE  X = Y
<1>1. ASSUME NEW p \in SessionIDs \X Sides
      PROVE  p \in X <=> p \in Y
  <2>1. p = <<p[1], p[2]>> /\ p[1] \in SessionIDs /\ p[2] \in Sides
      OBVIOUS
  <2> QED
      BY <2>1
<1> QED
    BY <1>1

\* The sessions of S have nothing due once they have left.
LEMMA DueWithout ==
    ASSUME TypeInv, TypeInv', NEW S, sessions' = sessions \ S, graceGen' = graceGen,
           \A s \in SessionIDs \ S : stale'[s] = stale[s],
           \A s \in SessionIDs \ S, side \in Sides, g \in Nat :
               <<s, side, g>> \in fired' <=> <<s, side, g>> \in fired
    PROVE  Due' = {p \in Due : p[1] \notin S}
<1>1. {p \in Due : p[1] \notin S} \subseteq SessionIDs \X Sides
    BY DueSides
<1>2. ASSUME NEW s \in SessionIDs, NEW side \in Sides
      PROVE  <<s, side>> \in Due' <=> <<s, side>> \in {p \in Due : p[1] \notin S}
  <2>1. graceGen[s][side] \in Nat
      BY DEF TypeInv, TypeOK
  <2>2. CASE s \in S
      BY <2>2, DueSidesNext
  <2>3. CASE s \notin S
      BY <2>1, <2>3, DueSides, DueSidesNext
  <2> QED
      BY <2>2, <2>3
<1> QED
    BY <1>1, <1>2, DueSidesNext, WindowSets

\* The phase of the sessions that leave becomes "ended", of the others it stays.
LEMMA PhaseWithout ==
    ASSUME HubInv, NEW S \in SUBSET sessions, sessions' = sessions \ S, session' = session
    PROVE  Phase' = [s \in SessionIDs |-> IF s \in S THEN "ended" ELSE Phase[s]]
<1>1. \A s \in S : session[s] # NoSession
    BY Unmade DEF HubInv, TypeInv, Created
<1> QED
    BY <1>1 DEF Phase

\* A side drops: MarkSideStale is Drop or DropAndEvict.
LEMMA SimulateMark ==
    ASSUME HubInv, TypeInv', session' = session, fired' = fired,
           NEW s \in sessions, NEW side \in Sides, side \notin stale[s], NEW silent,
           MarkSideStale(s, side, silent)
    PROVE  Lifecycle!LifeStep
<1>1. /\ s \in SessionIDs /\ Phase[s] = "open" /\ Lifecycle!InGrace = staleSessions
      /\ stale \in [SessionIDs -> SUBSET Sides]
      /\ graceGen \in [SessionIDs -> [Sides -> Nat]]
    BY View DEF HubInv, TypeInv, TypeOK
<1>2. DeviceOf' = DeviceOf
    BY DEF DeviceOf
<1>3. SeniorityWith(s) = Lifecycle!SeniorOnceAway(s)
    BY <1>1 DEF SeniorityWith, Lifecycle!SeniorOnceAway
<1>4. <<s, side, graceGen[s][side] + 1>> \notin fired
  <2>1. graceGen[s][side] \in Nat
      BY <1>1
  <2> QED
      BY <1>1, <2>1 DEF HubInv, GenInv
<1>5. CASE MarkFits(s, side)
  <2>1. Phase' = Phase
      BY <1>5 DEF Phase, MarkFits
  <2>2. Due' = Due
    <3>1. ASSUME NEW t \in SessionIDs, NEW e \in Sides
          PROVE  <<t, e>> \in Due' <=> <<t, e>> \in Due
      <4>1. CASE t = s /\ e = side
        <5>1. graceGen'[t][e] = graceGen[s][side] + 1
            BY <1>1, <1>5, <4>1 DEF MarkFits
        <5>2. <<t, e>> \notin Due' /\ <<t, e>> \notin Due
            BY <1>4, <4>1, <5>1, DueSides, DueSidesNext DEF HubInv
        <5> QED
            BY <5>2
      <4>2. CASE ~(t = s /\ e = side)
        <5>1. graceGen'[t][e] = graceGen[t][e] /\ (e \in stale'[t] <=> e \in stale[t])
            BY <1>1, <1>5, <4>2 DEF MarkFits
        <5>2. sessions' = sessions
            BY <1>5 DEF MarkFits
        <5> QED
            BY <5>1, <5>2, DueSides, DueSidesNext DEF HubInv
      <4> QED
          BY <4>1, <4>2
    <3> QED
        BY <3>1, DueSides, DueSidesNext, WindowSets DEF HubInv
  <2>3. Lifecycle!Cardinality(Lifecycle!InGrace \cup {s}) <= MaxStaleSessions
    <3>1. Cardinality(staleSessions \cup {s}) \in Nat
        BY FS_AddElement, FS_CardinalityType DEF HubInv, CapInv
    <3>2. Cardinality(staleSessions \cup {s}) <= MaxStaleSessions
        BY <1>5, <3>1, HubAssumption DEF MarkFits, OverCap
    <3> QED
        BY <1>1, <3>2, SameCardinality
  <2>4. Lifecycle!Drop(s, side)
      BY <1>1, <1>2, <1>3, <1>5, <2>1, <2>2, <2>3 DEF MarkFits, Lifecycle!Drop
  <2> QED
      BY <1>1, <2>4 DEF Lifecycle!LifeStep
<1>6. ASSUME NEW oldest \in staleSessions \ {s}, MarkEvicts(s, side, silent, oldest)
      PROVE  Lifecycle!LifeStep
  <2>1. oldest \in SessionIDs /\ oldest \in sessions
      BY View DEF HubInv, SessionInv, StaleSetExact, TypeInv, TypeOK
  <2>2. Phase' = [Phase EXCEPT ![oldest] = "ended"]
    <3>1. Phase' = [x \in SessionIDs |-> IF x \in {oldest} THEN "ended" ELSE Phase[x]]
        BY <1>6, <2>1, PhaseWithout DEF MarkEvicts
    <3> QED
        BY <2>1, <3>1 DEF Phase
  <2>3. stale' = [stale EXCEPT ![oldest] = {}, ![s] = @ \cup {side}]
      BY <1>1, <1>6, <2>1 DEF MarkEvicts
  <2>4. Due' = {p \in Due : p[1] # oldest}
    <3>1. {p \in Due : p[1] # oldest} \subseteq SessionIDs \X Sides
        BY DueSides DEF HubInv
    <3>2. ASSUME NEW t \in SessionIDs, NEW e \in Sides
          PROVE  <<t, e>> \in Due' <=> <<t, e>> \in {p \in Due : p[1] # oldest}
      <4>1. CASE t = s /\ e = side
        <5>1. graceGen'[t][e] = graceGen[s][side] + 1
            BY <1>1, <1>6, <4>1 DEF MarkEvicts
        <5>2. <<t, e>> \notin Due' /\ <<t, e>> \notin Due
            BY <1>4, <4>1, <5>1, DueSides, DueSidesNext DEF HubInv
        <5> QED
            BY <5>2
      <4>2. CASE t = oldest
          BY <1>6, <4>2, DueSidesNext DEF MarkEvicts
      <4>3. CASE t # oldest /\ ~(t = s /\ e = side)
        <5>1. graceGen'[t][e] = graceGen[t][e] /\ (e \in stale'[t] <=> e \in stale[t])
            BY <1>1, <1>6, <4>3 DEF MarkEvicts
        <5>2. t \in sessions' <=> t \in sessions
            BY <1>6, <4>3 DEF MarkEvicts
        <5> QED
            BY <4>3, <5>1, <5>2, DueSides, DueSidesNext DEF HubInv
      <4> QED
          BY <4>1, <4>2, <4>3
    <3> QED
        BY <3>1, <3>2, DueSidesNext, WindowSets
  <2>5. staleBefore' = {p \in Lifecycle!SeniorOnceAway(s) : p[1] # oldest /\ p[2] # oldest}
      BY <1>3, <1>6 DEF MarkEvicts
  <2>6. Lifecycle!Cardinality(Lifecycle!InGrace \cup {s}) > MaxStaleSessions
      BY <1>1, <1>6, SameCardinality DEF MarkEvicts, OverCap
  <2>7. Lifecycle!DropAndEvict(s, side, oldest)
      BY <1>1, <1>2, <1>6, <2>2, <2>3, <2>4, <2>5, <2>6
      DEF MarkEvicts, Lifecycle!DropAndEvict
  <2> QED
      BY <1>1, <2>1, <2>7 DEF Lifecycle!LifeStep
<1> QED
    BY <1>5, <1>6, MarkCases DEF HubInv

\* A side that is back leaves grace; one that was not in grace changes nothing.
LEMMA SimulateResume ==
    ASSUME HubInv, TypeInv', NEW s \in sessions, NEW side \in Sides,
           sessions' = sessions, session' = session, graceGen' = graceGen, fired' = fired,
           stale' = [stale EXCEPT ![s] = @ \ {side}],
           Untrack(FreshWithout({s}, side))
    PROVE  [Lifecycle!LifeStep]_(Lifecycle!lifecycleVars)
<1>1. /\ s \in SessionIDs /\ Phase[s] = "open"
      /\ stale \in [SessionIDs -> SUBSET Sides]
    BY View DEF HubInv, TypeInv, TypeOK
<1>2. Phase' = Phase /\ DeviceOf' = DeviceOf
    BY DEF Phase, DeviceOf
<1>3. s \in staleSessions <=> stale[s] # {}
    BY DEF HubInv, SessionInv, StaleSetExact
<1>4. Due' = Due \ {<<s, side>>}
  <2>1. ASSUME NEW t \in SessionIDs, NEW e \in Sides
        PROVE  <<t, e>> \in Due' <=> <<t, e>> \in Due \ {<<s, side>>}
    <3>1. e \in stale'[t] <=> e \in stale[t] /\ <<t, e>> # <<s, side>>
        BY <1>1
    <3> QED
        BY <3>1, DueSides, DueSidesNext DEF HubInv
  <2> QED
      BY <2>1, DueSides, DueSidesNext, WindowSets DEF HubInv
<1>5. CASE side \in stale[s]
  <2>1. FreshWithout({s}, side) = IF stale[s] = {side} THEN {s} ELSE {}
      BY <1>5 DEF FreshWithout
  <2>2. Lifecycle!Forget(IF stale[s] = {side} THEN {s} ELSE {})
      BY <2>1 DEF Untrack, Lifecycle!Forget
  <2>3. Lifecycle!Resume(s, side)
      BY <1>1, <1>2, <1>4, <1>5, <2>2 DEF Lifecycle!Resume
  <2> QED
      BY <1>1, <2>3 DEF Lifecycle!LifeStep
<1>6. CASE side \notin stale[s]
  <2>1. stale' = stale
      BY <1>1, <1>6
  <2>2. Due' = Due
      BY <1>4, <1>6, DueSides, <1>1 DEF HubInv
  <2>3. \A t \in FreshWithout({s}, side) : t \notin staleSessions
      BY <1>3, <1>6 DEF FreshWithout
  <2>4. staleBefore' = staleBefore
      BY <2>3 DEF HubInv, SeniorInv, Untrack
  <2> QED
      BY <1>2, <2>1, <2>2, <2>4 DEF Lifecycle!lifecycleVars
<1> QED
    BY <1>5, <1>6

\* Sessions that leave with their grace cleared are closed.
LEMMA SimulateClose ==
    ASSUME HubInv, TypeInv', NEW S \in SUBSET sessions, sessions' = sessions \ S,
           session' = session, graceGen' = graceGen, fired' = fired,
           stale' = [s \in SessionIDs |-> IF s \in S THEN {} ELSE stale[s]],
           staleBefore' = {p \in staleBefore : p[1] \notin S /\ p[2] \notin S}
    PROVE  Lifecycle!LifeStep
<1>1. S \in SUBSET SessionIDs /\ \A s \in S : Phase[s] = "open"
    BY View DEF HubInv, TypeInv, TypeOK
<1>2. Phase' = [s \in SessionIDs |-> IF s \in S THEN "ended" ELSE Phase[s]]
    BY PhaseWithout
<1>3. Due' = {p \in Due : p[1] \notin S}
    BY DueWithout DEF HubInv
<1>4. DeviceOf' = DeviceOf
    BY DEF DeviceOf
<1>5. Lifecycle!Close(S)
    BY <1>1, <1>2, <1>3, <1>4 DEF Lifecycle!Close, Lifecycle!Forget
<1> QED
    BY <1>1, <1>5 DEF Lifecycle!LifeStep

\* A new session opens.
LEMMA SimulateOpen ==
    ASSUME HubInv, TypeInv', NEW s \in SessionIDs, NEW d \in Devices, NEW u, NEW owner, NEW w,
           NewSession(s, u, owner, d, w)
    PROVE  Lifecycle!LifeStep
<1> DEFINE r == [user |-> u, owner |-> owner, device |-> d]
<1>1. /\ session[s] = NoSession
      /\ session' = [session EXCEPT ![s] = r]
      /\ sessions' = sessions \cup {s}
      /\ stale' = stale /\ graceGen' = graceGen /\ fired' = fired
      /\ staleBefore' = staleBefore
      /\ SessionsOf(d) = {}
    BY DEF NewSession, DeviceBusy, graceVars
<1>2. /\ Phase[s] = "new" /\ s \notin sessions /\ stale[s] = {}
      /\ DOMAIN session = SessionIDs
    BY <1>1, View, Unmade DEF HubInv, TypeInv, TypeOK, Created, SessionInv, UnusedNotStale
<1>3. r.device = d
    OBVIOUS
<1> HIDE DEF r
<1>4. Phase' = [Phase EXCEPT ![s] = "open"]
    BY <1>1, <1>2 DEF Phase
<1>5. DeviceOf' = [DeviceOf EXCEPT ![s] = d]
    BY <1>1, <1>2, <1>3 DEF DeviceOf
<1>6. \A t \in SessionIDs : Phase[t] = "open" => DeviceOf[t] # d
    BY <1>1, View DEF DeviceOf, SessionsOf
<1>7. Due' = Due
  <2>1. ASSUME NEW t \in SessionIDs, NEW e \in Sides
        PROVE  <<t, e>> \in Due' <=> <<t, e>> \in Due
      BY <1>1, <1>2, DueSides, DueSidesNext DEF HubInv
  <2> QED
      BY <2>1, DueSides, DueSidesNext, WindowSets DEF HubInv
<1>8. Lifecycle!Open(s, d)
    BY <1>1, <1>2, <1>4, <1>5, <1>6, <1>7 DEF Lifecycle!Open
<1> QED
    BY <1>8 DEF Lifecycle!LifeStep

\* A timer that fires lets a window lapse.
LEMMA SimulateTimer ==
    ASSUME HubInv, TypeInv', NEW s \in SessionIDs, NEW side \in Sides, TimerFires(s, side)
    PROVE  [Lifecycle!LifeStep]_(Lifecycle!lifecycleVars)
<1>1. /\ fired' = fired \cup {<<s, side, graceGen[s][side]>>}
      /\ UNCHANGED <<sessions, session, stale, graceGen, staleBefore>>
    BY DEF TimerFires, sessionVars
<1>2. Phase' = Phase /\ DeviceOf' = DeviceOf
    BY <1>1 DEF Phase, DeviceOf
<1>3. CASE s \in sessions /\ side \in stale[s]
  <2>1. Due' = Due \cup {<<s, side>>}
    <3>1. ASSUME NEW t \in SessionIDs, NEW e \in Sides
          PROVE  <<t, e>> \in Due' <=> <<t, e>> \in Due \cup {<<s, side>>}
        BY <1>1, <1>3, DueSides, DueSidesNext DEF HubInv
    <3> QED
        BY <3>1, DueSides, DueSidesNext, WindowSets DEF HubInv
  <2>2. Lifecycle!Lapse(s, side)
      BY <1>1, <1>2, <1>3, <2>1, View DEF Lifecycle!Lapse
  <2> QED
      BY <2>2 DEF Lifecycle!LifeStep
<1>4. CASE ~(s \in sessions /\ side \in stale[s])
  <2>1. Due' = Due
    <3>1. ASSUME NEW t \in SessionIDs, NEW e \in Sides
          PROVE  <<t, e>> \in Due' <=> <<t, e>> \in Due
        BY <1>1, <1>4, DueSides, DueSidesNext DEF HubInv
    <3> QED
        BY <3>1, DueSides, DueSidesNext, WindowSets DEF HubInv
  <2> QED
      BY <1>1, <1>2, <2>1 DEF Lifecycle!lifecycleVars
<1> QED
    BY <1>3, <1>4

\* A callback ends a session whose current window has lapsed; a late one does
\* nothing.
LEMMA SimulateExpire ==
    ASSUME HubInv, TypeInv', NEW s \in SessionIDs, NEW side \in Sides, NEW g \in Nat,
           ExpireGrace(s, side, g)
    PROVE  [Lifecycle!LifeStep]_(Lifecycle!lifecycleVars)
<1>1. /\ <<s, side, g>> \in fired /\ fired' = fired \ {<<s, side, g>>}
      /\ UNCHANGED <<session, stale, graceGen>>
    BY DEF ExpireGrace
<1>2. DeviceOf' = DeviceOf
    BY <1>1 DEF DeviceOf
<1>3. CASE Expired(s, side, g)
  <2>1. sessions' = sessions \ {s} /\ Untrack({s})
      BY <1>3 DEF ExpireGrace
  <2>2. s \in sessions /\ <<s, side>> \in Due /\ side \in stale[s]
      BY <1>1, <1>3, DueSides DEF Expired, HubInv
  <2>3. Due' = {p \in Due : p[1] \notin {s}}
      BY <1>1, <2>1, DueWithout DEF HubInv
  <2>4. Phase' = [Phase EXCEPT ![s] = "ended"]
    <3>1. Phase' = [t \in SessionIDs |-> IF t \in {s} THEN "ended" ELSE Phase[t]]
        BY <1>1, <2>1, <2>2, PhaseWithout
    <3> QED
        BY <3>1 DEF Phase
  <2>5. Lifecycle!Expire(s)
      BY <1>1, <1>2, <2>1, <2>2, <2>3, <2>4 DEF Untrack, Lifecycle!Expire, Lifecycle!Forget
  <2> QED
      BY <2>5 DEF Lifecycle!LifeStep
<1>4. CASE ~Expired(s, side, g)
  <2>1. UNCHANGED <<sessions, staleBefore>>
      BY <1>4 DEF ExpireGrace
  <2>2. Due' = Due
    <3>1. ASSUME NEW t \in SessionIDs, NEW e \in Sides
          PROVE  <<t, e>> \in Due' <=> <<t, e>> \in Due
        BY <1>1, <1>4, <2>1, DueSides, DueSidesNext DEF HubInv, Expired
    <3> QED
        BY <3>1, DueSides, DueSidesNext, WindowSets DEF HubInv
  <2>3. Phase' = Phase
      BY <1>1, <2>1 DEF Phase
  <2> QED
      BY <1>1, <1>2, <2>1, <2>2, <2>3 DEF Lifecycle!lifecycleVars
<1> QED
    BY <1>3, <1>4

\* A step that touches no session is none of the lifecycle.
LEMMA SimulateNone ==
    ASSUME UNCHANGED <<sessions, session, stale, graceGen, fired, staleBefore>>
    PROVE  UNCHANGED Lifecycle!lifecycleVars
BY DEF Lifecycle!lifecycleVars, Phase, DeviceOf, Due

\* A server that registers resumes its device's session or displaces another.
LEMMA SimulateAddServer ==
    ASSUME HubInv, TypeInv', NEW w \in Servers, NEW d \in Devices, NEW u \in Users,
           AddServer(w, d, u)
    PROVE  [Lifecycle!LifeStep]_(Lifecycle!lifecycleVars)
<1> DEFINE resumed == {s \in SessionsOf(d) : "server" \in stale[s]}
<1>1. /\ stale' = [s \in SessionIDs |->
                     IF s \in resumed THEN stale[s] \ {"server"} ELSE stale[s]]
      /\ Untrack(FreshWithout(resumed, "server"))
      /\ sessions' = sessions /\ session' = session
      /\ graceGen' = graceGen /\ fired' = fired
    BY DEF AddServer
<1>2. stale \in [SessionIDs -> SUBSET Sides]
    BY DEF HubInv, TypeInv, TypeOK
<1>3. CASE resumed = {}
  <2>1. stale' = stale
      BY <1>1, <1>2, <1>3
  <2>2. FreshWithout(resumed, "server") = {}
      BY <1>3 DEF FreshWithout
  <2>3. staleBefore' = staleBefore
      BY <1>1, <2>2 DEF Untrack
  <2> QED
      BY <1>1, <2>1, <2>3, SimulateNone
<1>4. ASSUME NEW s \in resumed
      PROVE  [Lifecycle!LifeStep]_(Lifecycle!lifecycleVars)
  <2>1. s \in sessions /\ "server" \in Sides
      BY DEF SessionsOf, Sides
  <2>2. resumed = {s}
      BY DEF HubInv, SessionInv, OneSessionPerDevice, SessionsOf
  <2>3. stale' = [stale EXCEPT ![s] = @ \ {"server"}]
      BY <1>1, <1>2, <2>2
  <2>4. Untrack(FreshWithout({s}, "server"))
      BY <1>1, <2>2
  <2> HIDE DEF resumed
  <2> QED
      BY <1>1, <2>1, <2>3, <2>4, SimulateResume
<1> QED
    BY <1>3, <1>4

\* Removals and the sweep end sessions.
LEMMA SimulateRemovals ==
    ASSUME HubInv, TypeInv',
           \/ \E d \in Devices : RemoveServer(d)
           \/ \E s \in SessionIDs : RemoveSession(s)
           \/ CleanupStaleSessions
    PROVE  Lifecycle!LifeStep
<1>1. ASSUME NEW d \in Devices, RemoveServer(d) PROVE Lifecycle!LifeStep
  <2>1. SessionsOf(d) \in SUBSET sessions
      BY DEF SessionsOf
  <2>2. /\ RemoveCleared(SessionsOf(d)) /\ session' = session
        /\ graceGen' = graceGen /\ fired' = fired
      BY <1>1 DEF RemoveServer
  <2> QED
      BY <2>1, <2>2, SimulateClose DEF RemoveCleared, Untrack
<1>2. ASSUME NEW s \in SessionIDs, RemoveSession(s) PROVE Lifecycle!LifeStep
  <2>1. /\ RemoveCleared({s}) /\ {s} \in SUBSET sessions /\ session' = session
        /\ graceGen' = graceGen /\ fired' = fired
      BY <1>2 DEF RemoveSession
  <2> QED
      BY <2>1, SimulateClose DEF RemoveCleared, Untrack
<1>3. CASE CleanupStaleSessions
  <2>1. PICK aged \in SUBSET {s \in sessions : Abandoned(s)} : sessions' = sessions \ aged
      BY <1>3 DEF CleanupStaleSessions
  <2>2. /\ session' = session /\ graceGen' = graceGen /\ fired' = fired
        /\ stale' = stale /\ staleBefore' = staleBefore
      BY <1>3 DEF CleanupStaleSessions, graceVars
  <2>3. \A s \in aged : stale[s] = {} /\ s \notin staleSessions
      BY DEF Abandoned, HubInv, SessionInv, StaleSetExact
  <2>4. stale' = [s \in SessionIDs |-> IF s \in aged THEN {} ELSE stale[s]]
      BY <2>2, <2>3 DEF HubInv, TypeInv, TypeOK
  <2>5. staleBefore' = {p \in staleBefore : p[1] \notin aged /\ p[2] \notin aged}
      BY <2>2, <2>3 DEF HubInv, SeniorInv
  <2> QED
      BY <2>1, <2>2, <2>4, <2>5, SimulateClose
<1> QED
    BY <1>1, <1>2, <1>3

\* A drop opens a window and may evict the session longest in grace.
LEMMA SimulateDrops ==
    ASSUME HubInv, TypeInv',
           \/ \E w \in Servers : RemoveServerConn(w)
           \/ \E s \in SessionIDs, c \in Clients : MarkClientStale(s, c)
    PROVE  [Lifecycle!LifeStep]_(Lifecycle!lifecycleVars)
<1>1. ASSUME NEW w \in Servers, RemoveServerConn(w)
      PROVE  [Lifecycle!LifeStep]_(Lifecycle!lifecycleVars)
  <2> DEFINE d == server[w].device
  <2>1. session' = session /\ fired' = fired /\ onlineServers[d] = w
      BY <1>1 DEF RemoveServerConn
  <2>2. CASE UNCHANGED <<sessions, stale, graceGen, staleBefore>>
      BY <2>1, <2>2, SimulateNone
  <2>3. ASSUME NEW s \in SessionsOf(d), MarkSideStale(s, "server", {})
        PROVE  Lifecycle!LifeStep
    <3>1. s \in sessions /\ session[s].device = d
        BY DEF SessionsOf
    <3>2. "server" \notin stale[s]
        BY <2>1, <3>1, HubAssumption DEF HubInv, SessionInv, GraceMatchesPresence, HubAssumption
    <3> QED
        BY <2>1, <2>3, <3>1, <3>2, SimulateMark DEF Sides
  <2> QED
      BY <1>1, <2>2, <2>3 DEF RemoveServerConn
<1>2. ASSUME NEW s \in SessionIDs, NEW c \in Clients, MarkClientStale(s, c)
      PROVE  Lifecycle!LifeStep
  <2>1. /\ s \in sessions /\ clientConn[s] = c
        /\ session' = session /\ fired' = fired
        /\ MarkSideStale(s, "client", {s})
      BY <1>2 DEF MarkClientStale
  <2>2. "client" \notin stale[s]
      BY <2>1, HubAssumption DEF HubInv, SessionInv, GraceMatchesPresence, HubAssumption
  <2> QED
      BY <2>1, <2>2, SimulateMark DEF Sides
<1> QED
    BY <1>1, <1>2

\* Every step of the hub is one of the lifecycle, or none.
LEMMA SimulateStep ==
    ASSUME HubInv, TypeInv', [Next]_vars
    PROVE  [Lifecycle!LifeStep]_(Lifecycle!lifecycleVars)
<1>1. ASSUME NEW u \in Users, NEW d \in Devices, NEW s \in SessionIDs, CreateSession(u, d, s)
      PROVE  Lifecycle!LifeStep
    BY <1>1, SimulateOpen DEF CreateSession
<1>2. ASSUME NEW g \in ShortIDs, NEW s \in SessionIDs, CreateGuestSession(g, s)
      PROVE  Lifecycle!LifeStep
  <2>1. guestDevices[g].device \in Devices
      BY <1>2 DEF CreateGuestSession, HubInv, TypeInv, TypeOK, GuestRecord
  <2> QED
      BY <1>2, <2>1, SimulateOpen DEF CreateGuestSession
<1>3. ASSUME NEW s \in SessionIDs, NEW c \in Clients, SetSessionClient(s, c)
      PROVE  [Lifecycle!LifeStep]_(Lifecycle!lifecycleVars)
  <2>1. /\ s \in sessions /\ "client" \in Sides
        /\ stale' = [stale EXCEPT ![s] = @ \ {"client"}]
        /\ Untrack(FreshWithout({s}, "client"))
        /\ sessions' = sessions /\ session' = session
        /\ graceGen' = graceGen /\ fired' = fired
      BY <1>3 DEF SetSessionClient, Sides
  <2> QED
      BY <2>1, SimulateResume
<1>4. ASSUME NEW cb \in fired, ExpireGrace(cb[1], cb[2], cb[3])
      PROVE  [Lifecycle!LifeStep]_(Lifecycle!lifecycleVars)
  <2>1. cb[1] \in SessionIDs /\ cb[2] \in Sides /\ cb[3] \in Nat
      BY DEF HubInv, TypeInv, TypeOK
  <2> QED
      BY <1>4, <2>1, SimulateExpire
<1>5. CASE \/ \E s \in SessionIDs : Teardown(s)
           \/ \E g \in ShortIDs, u \in Users, d \in Devices : RegisterGuestDevice(g, u, d)
           \/ \E g \in ShortIDs : UnregisterGuestDevice(g)
           \/ \E d \in Devices, u \in Users, r \in RoomIDs : CreateRoom(d, u, r)
           \/ \E r \in RoomIDs : RemoveRoom(r)
           \/ UNCHANGED vars
  <2>1. UNCHANGED <<sessions, session, stale, graceGen, fired, staleBefore>>
      BY <1>5 DEF Teardown, RegisterGuestDevice, UnregisterGuestDevice, CreateRoom,
                  RemoveRoom, vars, sessionVars, graceVars
  <2> QED
      BY <2>1, SimulateNone
<1> QED
    BY <1>1, <1>2, <1>3, <1>4, <1>5, SimulateAddServer, SimulateRemovals, SimulateDrops,
       SimulateTimer DEF Next

\* An empty hub is the beginning of the lifecycle.
LEMMA SimulateInit == Init => Lifecycle!Start
BY DEF Init, Lifecycle!Start, Phase, DeviceOf, Due, NoSession

\* DeviceHub, with its maps, timers, generations and late callbacks, implements
\* the promised life of sessions: a device serves one session at a time, a
\* resumed side cannot be timed out by a timer of its past, and the cap evicts
\* the session longest in grace.
THEOREM HubImplementsLifecycle == Spec => ImplementsLifecycle
<1>1. HubInv /\ HubInv' /\ [Next]_vars => [Lifecycle!LifeStep]_(Lifecycle!lifecycleVars)
    BY SimulateStep DEF HubInv
<1> QED
    BY <1>1, SimulateInit, HubInvariants, PTL DEF Spec, ImplementsLifecycle, Lifecycle!Life
================================================================================
