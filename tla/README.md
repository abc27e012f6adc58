# RelaySignalingServer in TLA+

The repository is a signaling relay written in Go: Windows hosts ("servers")
keep a websocket open, clients and guests reach them through sessions or rooms,
and the relay passes offers, answers and room events between them. All of its
state but accounts and devices is in memory, shared by one goroutine or more for
each websocket, by timers and by a sweep every 60 seconds. This directory holds
TLA+ models of that state, TLC configurations that check them on small
instances, and proofs of every safety property they check, for every instance.

Paths below are relative to `src/`.

## Inventory

| Component | State | Operations | Talks to |
|---|---|---|---|
| Device hub, `internal/relay/device_hub.go`, `session_grace.go` | Maps under `h.mu`: online servers, sessions, stale sessions, guest devices, rooms, room of each device; a generation counter; in each session its two connections, two stale flags, two timer generations | `AddServer`, `RemoveServer`, `RemoveServerConn`, `CreateSession`, `CreateGuestSession`, `SetSessionClient`, `MarkClientStale`, `RemoveSession`, grace timers and their callbacks, `CleanupStaleSessions`, `RegisterGuestDevice`, `UnregisterGuestDevice`, `CreateRoom`, `RemoveRoom`, `CleanupRoomAdmissions` | Called by every handler, by timers and by the sweep; calls `Room` under its lock, sends to connections after it |
| Client connection, `internal/relay/connection.go` | Send channel, `gracefulClosing`, `closed`, `done`, all under `c.mu`; one writer goroutine | `Send`, `SendAndClose`, `Close`, `WritePump` | Called by the hub, the rooms and the handlers; writes to the socket |
| Room, `internal/relay/room.go`, `internal/room/handler.go` | Under `r.mu`: admissions with deadlines, connected clients, server and its generation, `closed` | `ReserveClient`, `AttachClient`, `RemoveClient`, `HasValidAdmission`, `PruneExpiredAdmissions`, `RebindServer`, `markClosed`, `CloseAllClients`, sends and broadcasts | Created and closed by the hub; clients by its handler's HTTP and websocket requests |
| Legacy hub, `internal/relay/hub.go`, `handler.go` | Under its own `h.mu`: rooms with one server seat and one client seat | `Join`, `NotifyRoomReady`, `Forward`, `Leave`, `CleanupStaleRooms` | The `/ws` handler; connections |
| Server connection, `OnlineServer` in `device_hub.go`; `Room.SendToServer`; `ws_handler.go` | Write mutex, `done`, generation | `SendMessage`, `Close`, `SendToServer` with a retry on a newer generation, `routeCurrentServerMessage` | Rooms and sessions send to it; its read pump routes to them |
| Session, guest and device handlers, `ws_handler.go`, `internal/guest`, `internal/session`, `internal/device` | None of their own: each is a sequence of hub operations and sends with unlocked gaps | Register a host, request a session, join it, disconnect, delete a device | The hub and the device table |
| Rate limiter, `internal/ratelimit` | Timestamps of each address under a mutex | `Allow`, `Cleanup` | Middleware |
| Telemetry, `internal/telemetry` | Ring of reports and counters under a mutex | `Report`, `Snapshot` | HTTP |
| Accounts, `internal/auth` | Users and refresh tokens in PostgreSQL | Register, login, rotate, log out | SQL |
| Device table, TURN, health, diagnostics, `main.go`, configuration | PostgreSQL rows or nothing | Reads, formatting, wiring | - |

What is hard here, and what makes each part correct:

- **Session grace.** When a side of a session drops, the session stays for a
  grace window and the side may come back. The window's timer can fire while
  its side is resuming, since `time.AfterFunc` runs the callback in a goroutine
  that still has to obtain `h.mu`; generations tell a late callback that its
  window is over. Correct: a window is never cut short, always ends, and while
  it lasts the session keeps its device busy and follows the device's server.
- **The cap on sessions in grace.** A hub-wide limit evicts the session longest
  in grace, which can be the very one that is just dropping. Correct: exact
  bookkeeping through every path by which a session resumes or leaves, and
  nobody's session vanishes without its peer being told.
- **Replacement of servers.** A host that reconnects displaces its older socket,
  whose read pump ends later. Correct: sessions and rooms are always routed to
  the registered server, and the older pump changes nothing.
- **Closing a connection while others send.** Final frames, full buffers, a
  failed socket and `Close` race. Correct: order and completeness of what was
  accepted, a truthful answer to who sent the final frame, and no goroutine
  that waits for ever.
- **Admission to rooms.** Check and use are separated by the websocket upgrade;
  clients reconnect while their older pump still runs; rooms close in two steps.
  Correct: the limit holds, every bound connection has a reader, no connection
  lingers without a client, slots are freed.

`PROJECT.json` lists these as hazards, each at its line with the properties that
cover it, or why none does yet.

## Modules

| Module | Models | Notes |
|---|---|---|
| `DeviceHub` | The device hub | One action for each critical section of `h.mu`. `TimerFires` and `ExpireGrace` are the two steps of a grace timer; `Teardown` is what `teardownSession` does after the unlock |
| `SessionLifecycle` | What the hub promises of the life of a session | Abstract: no maps, connections, generations or callbacks; a timer is cancelled when its side comes back |
| `DeviceHubRefinement` | - | The refinement mapping from `DeviceHub` to `SessionLifecycle` |
| `Signaling` | The handlers over the whole of `DeviceHub`: `/ws/server`, `/ws/client`, `/ws/guest`, `/sessions/create`, `/sessions/guest`, `/guest/register`, `DELETE /devices/:id`, and the hub's timers and sweep | A handler is the sequence of its stretches between locks, database and socket |
| `Connection` | One client connection | One action for each section under `c.mu` and each step of `WritePump`; the goroutines that call it are constants |
| `Room` | One room's admissions, roles and notices to its host, with the handlers that drive them | Handlers are several actions each |
| `LegacyHub` | The `/ws` hub and its handler | Messages sent after the unlock wait in `outbox` |
| `ServerRoute` | The server of one device: `AddServer` in the steps senders can see, `SendToServer`, `ForwardToServer`, `SendMessage`, the read pump | Takes one `DeviceHub` action apart; an `OnlineServer` is named by its generation |
| `RateLimiter` | `Allow` and `Cleanup` of the sliding-window limiter | Recorded times are ages |
| `Telemetry` | `normalize`, `record`, `snapshot` | Pure operators and one critical section |
| `TelemetryIngest` | Concurrent requests through the limiter into the aggregator | Composes the two modules above |
| `MCDeviceHub`, `MCSignaling`, `MCConnection`, `MCRoom`, `MCLegacyHub`, `MCServerRoute`, `MCTelemetryIngest` | Instances for TLC | Symmetry sets, for runs without liveness; the reports that arrive |
| `DeviceHubProofs`, `DeviceHubRefinementProofs`, `SignalingProofs`, `ConnectionProofs`, `RoomProofs`, `ServerRouteProofs`, `LegacyHubProofs`, `TelemetryIngestProofs` | - | Theorems about the module each is named after; see "Proofs" |

How the state corresponds to the code:

- Objects that Go allocates are constants (`Servers` for `*OnlineServer`,
  `Conns` for `*Connection`, `RoomIDs`, `SessionIDs`), used at most once. An
  object that has not been made yet has the value `NoServer`, `NoSession` and so
  on. Session and client ids are random and taken never to repeat.
- In `DeviceHub` a session's fields are functions over `SessionIDs` and the map
  is the set `sessions`: a session that has left the map keeps its fields,
  because goroutines still hold the object. `h.staleSessions` is the set
  `staleSessions` with the order of its times, `staleBefore`; two readings of
  the clock under `h.mu` are taken to be distinct. Were two times equal, either
  session would be a correct victim of the cap.
- A timer that runs is in `armed`; a callback that waits for `h.mu` is in `fired`
  with the generation it was given. Stopping a timer removes it from `armed`
  and leaves `fired` alone, as `time.Timer.Stop` does.
- `DeviceHubRefinement` maps a session of the map to phase "open", `stale` to the
  sides that are away, and a callback that waits with its side's current
  generation to a window that has lapsed. A callback with an older generation
  maps to nothing: the abstract timer was cancelled.
- In `Signaling`, `hosts`, `requests` and `clients` say how far each handler has
  come and what it has read: `HandleServerWS` holds the device it has checked and
  the sessions `AddServer` told it to announce, a guest request the server object
  of the registration it looked up, `HandleClientWS` the server `SetSessionClient`
  returned. `told` and `byes` record who was sent `session_request` or `room_ready`
  and `peer_disconnected` of which session. A message goes out unless the server
  is closed; whether it is lost on the way is the subject of `ServerRoute`.
- A client knows a session's id only from the answer to its request, so
  `client_joining`, which no joining client can precede, adds nothing. `/ws/client`
  and `/ws/guest` take the same steps until their read pumps end, so the endpoint a
  socket came to is left open till then. `/ws/client` compares the session's user
  with its caller, so `ClientEnds` needs a user's session; `/ws/guest` compares
  nothing, so `GuestEnds` is open to every session.
- `deviceRow` is the owner column of the device table; a deletion is the two steps
  `DeleteRow` and `DisconnectDeleted`, and `late` remembers the servers that
  registered a device after its deletion, their ownership check having passed
  before.
- In `Connection` the variable `closed` stands for `c.closed`, the closed `done`
  channel and the closed socket, which change together under `c.mu`. `accepted`
  and `writeFailed` are history variables; no action reads them.
- In `Room` time is the set `expired` of admissions whose deadline has passed or
  is zero. Join requests draw ids that are never repeated, so the branch of
  `ReserveClient` for a known id is not reached. `heard` is the last notice about
  a client that the host was sent, `overlapped` the clients that attached while
  the handler of an earlier connection of theirs was under way. The room's server
  is in `DeviceHub`, its clients here; the two halves share only `closed`.
- In `ServerRoute` the history variables `since`, `first`, `missed`, `faulted` and
  `routed` (`first` and `missed` for a theorem alone) record what the properties compare with; no guard reads them. A write
  that fails has delivered nothing, which is what gorilla's whole-frame writes on
  a failed connection amount to for the peer.
- In `RateLimiter` an attempt's age counts up to `Window` and no further, as all
  older attempts are alike: time passes without bound. `grants` is the history of
  what was granted. `Recent` is the code's loop, written as a recursive function.
- In `Telemetry` a report is the words of its enums, which `normalize` folds to
  their whitelists; `Canonical` stands for lower-casing and trimming. The session
  id, the counters and the measurements, which `normalize` shortens, clamps or
  drops, are left out: nothing is counted by them.
- Calls that the code refuses change nothing and have no action, except where
  the refusal has a cost or ends a handler: `AttachRefused` closes the socket,
  `HostRefused`, `GuestRefused`, `ClientRefused` and `TurnAway` end a request.

`DeviceHub` lets any goroutine call any exported operation at any moment, so
its behaviours include every one of the handlers and some that they do not
cause, for instance a client drop of a guest session. What is shown of it
therefore holds whatever the handlers do; that the handlers of `Signaling` do
nothing else to the hub is a theorem (`HandlersDriveHub`).

Each property is accompanied by a definition marked `Mutation:` in the module it
is about: the code with one plausible mistake, which nothing uses. Substituting
it for the definition below it must break the property, so the property
depends on that piece of the code.

## Runs

| Run | Question | Instance | Properties |
|---|---|---|---|
| `DeviceHubDevice` | Does a session survive drops and races with its own timers, and do session, rooms and registrations follow their device's server? | One device, two server sockets, two client sockets, two accounts, one session, two rooms, one registration, cap 1 | `TypeOK`, `RoomRoute`, `GuestRegistrations`, `GraceAlwaysPending`, `GraceMatchesPresence`, `AuthSessionRoute`, `ImplementsLifecycle`, `TornDownFrozen`, `GraceEnds` |
| `DeviceHubCap` | Is the cap exact and fair, and does nobody vanish unannounced? | Three devices, three sessions, three server sockets, one client socket, cap 2 | `StaleSetExact`, `StaleBounded`, `OneSessionPerDevice`, `ImplementsLifecycle`, `NoSilentDrop` |
| `DeviceHubGuestRoute` (violation) | Are guest sessions routed to the registered server too? | One device, two server sockets, one registration | `SessionRoute` |
| `Signaling` | Do host, peers and owner learn what they must, and is the device free again in the end? | One device, two server sockets, two client sockets, one session of a user or a guest, one registration, a deletion | `HostKnowsSession`, `PeersTold`, `DeletedNotResumable`, `DeviceFreed` |
| `SignalingNilServer` (violation) | Does a handler ever follow a nil server? | The same | `NoNilServer` |
| `Connection` | What do senders, finishers and closers get? | Three senders, two final frames, two closers, buffer of two | `FinalFrameTruth`, `WireInOrder`, `GracefulCloseFlushes`, `FinisherReturns`, `WriterStops` |
| `Room` | Do admissions and notices hold up under reconnects, expiry and closing? | Three clients of the owner or a guest, two connections, two slots | `AtMostMaxClients`, `ClientsExact`, `NoOrphanConns`, `HostHearsClients`, `SlotFreed` |
| `ServerRoute` | What becomes of messages while the server is replaced? | Three registrations, one room message, one session message | `SendTruth`, `NoFrameToReplaced`, `ClientsSeeNewer`, `ReplacementNotStalled` |
| `ServerRouteGap` (violation) | Is the room rebound before the old server is closed? | The same | `ReboundBeforeClosed` |
| `LegacyHub` | Do seats follow their connections? | Three connections, two rooms | `NoDeadSeat`, `MessagesStayInRoom` |
| `LegacyHubReplace` (violation) | Does an open connection keep its seat? | Two connections, one room | `OpenConnSeated` |
| `TelemetryIngest` | Do limiter, ring and counters agree with what happened? | Two requests at a time from two addresses, two reports a window, a ring of two, five reports | `WindowBound`, `SnapshotIsLatest`, `BreakdownsAgree`, `IdleForgotten` |

Why the bounds are enough:

- There are no state constraints, and the only bounds in guards are `MaxServers` of
  `ServerRoute` and `MaxReports` of `TelemetryIngest`. Behaviours of the others are
  finite because sockets, sessions, clients and rooms are used once and each counter
  (`serverGen`, `graceGen`) grows only with one of them. Runs that can use up
  their objects set `CHECK_DEADLOCK FALSE`: in them the system really may stop.
- Two server sockets and two client sockets let each side drop, have its timer
  fire, resume, and drop again with the first callback still waiting: the shape
  of every race between a window and its callback. A second account tries to take
  over the device; a second room checks what is left behind by the first.
- Three sessions against a cap of two make an eviction choose between two older
  sessions, or fall on the session that has just dropped. Three server
  sockets for three devices bound the number of drops on the server side; the
  client socket adds the second side of one of them. With one device used three
  times, its sessions follow one another. There is no guest registration: that
  `CreateGuestSession` too refuses a busy device is left to the theorem
  `DeviceServesOneSession`. Devices and server sockets are numbers, and
  `NumberedSpec` of `MCDeviceHub` lets them be used in that order only, which
  leaves out no behaviour but for the names.
- In `Signaling` two server sockets give a replacement, or a drop and a return, or
  a server that passed its check before the deletion; two client sockets give a
  client that takes over from another, or one that joins too late. Sessions of
  one device exclude each other and no property relates two devices, so a second
  session adds length to the behaviours and no new interleaving within one.
- A buffer of two with three senders and two final frames fills before, and
  after, a final frame, and holds a frame both before and behind it.
- Three clients for two slots give a client refused and a slot taken again after
  an expiry; two connections give a reconnect that replaces a live connection, or
  two clients connected, while the room closes. The owner's account and one other
  give every order of roles, since several clients may be of one account.
- Three registrations give a send that loses its server twice, so that its one
  retry is not enough. A room message and a session message contend for one
  `writeMu`; a second message of either kind adds no new order between them and
  the replacement, and puts the run beyond its time.
- Three legacy connections in two rooms give a pair with one replaced, or two
  half-filled rooms.
- Five reports wrap a ring of two twice and leave it between slots. The reports
  that arrive are one whose every word is listed, one of them in odd spelling, and
  one whose every word is off its list.

Symmetry is declared only in runs without liveness properties.

### Fairness

- `DeviceHub`: a due timer fires, a callback obtains `h.mu`, a teardown goroutine
  runs. The Go runtime runs a timer that is due, schedules every runnable
  goroutine and `sync.Mutex` does not starve; no critical section of `h.mu`
  blocks for ever, its waits on sockets being bounded by write deadlines.
  Nothing is assumed of clients or hosts: they need not come back.
- `Signaling`: a client's handler that has found its session goes on to join or
  fails to upgrade, announces, and once its read pump has ended runs its deferred
  function; timers and the sweep run. A socket may stay open for ever and no
  request need be made. The sweep is fair to each session by itself, since a
  session that stays abandoned grows older than its limit by some tick.
- `Connection`: the writer takes steps (a write ends within its 10 s deadline)
  and a pending `SendAndClose` takes its `done` case if that stays ready.
  Nothing is assumed of other callers.
- `ServerRoute`: the goroutine in `AddServer` runs on. Writes need not end, so that
  the run shows what a writer stuck in a dead socket can hold up.
- `Room`: deadlines pass, the 60 s sweep prunes open rooms, `RemoveRoom` goes on
  to `CloseAllClients`. Neither sockets nor handlers are assumed to make progress.
- `TelemetryIngest`: time passes and the ticker calls `Cleanup`.

## What the runs show

The passing runs find no violation. `DeviceHubDevice` and `DeviceHubCap` also show
that the hub implements `SessionLifecycle`: generations and late callbacks amount
to timers that can be cancelled, a session ends by expiry only after a window
that its side never came back from, and the cap takes the session longest in
grace.

Some properties name their own exceptions, each a behaviour the code has:

- `DeletedNotResumable` does not cover a server whose ownership check had passed
  before the deletion and which registers the device after it: such a device does
  come online again.
- `HostHearsClients` does not cover a client whose connections overlapped: the
  `client_left` of the older one may follow the `room_ready` of the newer.
- `NoSilentDrop` does not cover `RemoveSession`, which announces nothing.
- `PeersTold` does not cover a session that a socket of `/ws/guest` has begun to
  end, be it a guest's or a user's: `guestReadPump` says farewell to the server
  while the session is still in the map, then removes it without a teardown, so
  that a client which has taken over meanwhile is not told.
- `DeviceFreed` counts a guest socket whose handler has panicked (finding 4) as
  attending its session still: that session is not freed.

Four runs exhibit places where the code does not do what its own text says; each
is a finding in `PROJECT.json`.

1. `DeviceHubGuestRoute`: a guest registration keeps the server object it was
   made under. If the host's socket is replaced without a drop, sessions made
   through the registration are bound to the closed object, although the device
   is online. `AuthSessionRoute` holds because authenticated sessions are bound
   to the registered server. The doc of `AddServer` promises the rebinding of rooms
   and sessions; of registrations it says nothing.
2. `ServerRouteGap`: that doc says that rooms are rebound before the old connection
   is closed; the code closes it first. A room message whose write fails in
   between finds the room still routed to the closed server, and is lost. The
   theorem `RetryBridgesReplacement` shows that this gap, a second replacement and
   network faults are the only ways to lose a message to an open room.
3. `LegacyHubReplace`: `Hub.Leave` vacates the seat of its role without comparing
   the connection, so the read pump of a replaced connection unseats its
   replacement.
4. `SignalingNilServer`: the session request of `/sessions/create`, and the farewell
   of a guest's read pump, follow the session's server connection as it is after
   the lock, and panic if the server has dropped in between. After the first the
   session occupies its device until its grace or the sweep ends it; after the
   second, where the panic skips `RemoveSession`, for good if the server returns.

Two remarks, for which there is no run. The comments of the code disagree about a
user's room: `DetermineRole` is said to assign host "to first joiner in guest room,
or to account owner in user room" (`room.go:249`), while `determineRoleLocked` does,
and says, that the "first client to join any room = host (regardless of account)"
(`room.go:262`). So a guest can be host of a user's room, and after it has left
another guest can; no two are at one time (theorem `AtMostOneForeignHost`). And a
connection's `done` is closed only after `SendAndClose` has its answer.

## Proofs

Every invariant, action property and refinement that a passing run checks is also
a theorem, for all values of the constants: any number of devices, accounts,
sockets, sessions, rooms, clients, requests and reports, any cap, limit, buffer
or ring. What stays with TLC alone is at the end of this section.

The assumptions are those the modules name, and TLC evaluates each in a run:
positive capacities (a cap, a buffer, limits of clients and attempts, a window, a
ring), absent values that are none of the objects they stand in for,
`"guest"` no account's id, and callers of different operations told apart (one that
makes several calls is several callers).

### The device hub: `DeviceHubProofs`

`TypeOK`; `StaleSetExact`, `StaleBounded`, `OneSessionPerDevice` (the bookkeeping of
the cap and the exclusive use of a device); `GraceMatchesPresence` and
`GraceAlwaysPending` (what grace means, and that no session is left in it without a
timer or callback of its own generation); `TeardownIsFinal` and the action property
`TornDownFrozen` (the unlocked reads of `teardownSession` see what the removed
session had). The inductive invariant is `TypeInv /\ SessionInv /\ CapInv`:

- `TypeInv` is `TypeOK` with `Created`: whatever a map refers to has been made.
  `TypeOK` alone is not inductive, since `AddServer` could otherwise close a
  displaced server that never existed.
- `SessionInv` holds the four session invariants with three facts they need:
  an unused id has no stale side (`UnusedNotStale`, or a new session would start
  in grace), a guest registration belongs to an online device (`GuestsOnline`,
  or a guest session could start without a server and outside grace), and a
  session awaiting teardown was used and is out of the map (`TeardownUsed`).
- `CapInv` is the cap with the finiteness of the stale set, which the library's
  facts about cardinality require.

`RemoveServerConn` and `MarkClientStale` share the analysis of `MarkSideStale`
(`MarkEffect`, `MarkKeeps`, `MarkPending`): the step that may evict another session,
or the one it marks.

Then `AuthSessionRoute`, `RoomRoute` and `GuestRegistrations`: sessions, rooms and
registrations follow the registered server of their device, and a room never keeps
a generation its server has lost. They and `GenBound`, that no server's generation
exceeds `serverGen`, are a second invariant, `RouteInv`, inductive relative to the
first. Without `GenBound` a room could already hold a later generation than the
one `AddServer` gives out, and `RebindServer` would rightly ignore the rebinding.
`ServerFixed` says that an operation never changes the device, user or generation
of a server it has made; `RouteKept` and `RoomKept` settle every step that leaves
a session or a room alone, and one lemma per operation settles the rest.

### The refinement: `DeviceHubRefinementProofs`

- `HubImplementsLifecycle`: `DeviceHub` implements `SessionLifecycle`. Each operation
  is one step of the lifecycle or none (`SimulateStep`, from one lemma per kind of
  operation). Beside the hub's invariant it rests on `SeniorInv` (only stale
  sessions are compared by age, so that the victim of the cap is the abstract one)
  and `GenInv` (a callback carries a generation its side has had: the next window
  cannot be lapsed from the start by a callback of the past).
- `NothingDroppedSilently`: `NoSilentDrop`. When a drop exceeds the cap, the victim
  has been in grace longer, so it is never the session that has just dropped,
  the one `MarkSideStale` would leave unannounced; that again is `SeniorInv`.

### The handlers: `SignalingProofs`

- `HandlersDriveHub`: the specification of the handlers implements `DeviceHub`'s, so
  every theorem above holds of the composition. Each step of a handler is one step
  of the hub or none, which needs to know that a handler past its lookup holds a
  device, a session or a short id of the right kind (`HandlersKnow`); that in turn
  needs the hub's `TypeInv`.
- `DeletedStaysAway`: `DeletedNotResumable`. Its inductive invariant adds `LateInv`:
  every server in `late` is past its ownership check, so that the device its handler
  holds no longer changes. Then `AwayStays`
  shows that of all operations of the hub only `AddServer` brings back a device
  that is away, and `DeletedJoin` that the server which does is one the property
  exempts. `RemoveServer` makes the device away in the first place, sessions in
  grace included.
- `HostsKnowTheirSessions`: `HostKnowsSession`, with `OnlineOpen` (a registered server
  is open, or what it is sent would be lost) and `HostsFresh` (a socket that has
  not registered has nothing to announce). That a replacement or a resume
  moves a session only to a server which `AddServer` has told to announce it is
  read off the hub's `AuthSessionRoute`.
- `PeersHearOfTheEnd`: `PeersTold`. A session that a client has joined keeps a client,
  connected or in grace, until it leaves the map (`JoinedMet`), so the teardown has
  someone to tell; handlers speak only for sessions they belong to (`ClientsBelong`);
  nobody is told of one that could still be live, unless a socket of `/ws/guest` has
  begun to end it (`ByesFinal`), and what such a socket has begun stays begun
  (`PumpEndedStays`).

### Connections: `ConnectionProofs`

`WireInOrder`, `FinalFrameTruth` and `GracefulCloseFlushes`. At the centre is `Pipeline`:
what is on the wire, the frame in the writer's hands and the channel, in this
order, are what was accepted. It holds until the writer turns to its end, since
frames in the channel are dropped then. `FinalIsLast` (nothing is accepted
after a final frame) and `WriterCloses` (once a graceful close has begun only the
writer closes, as its last act) make the answer of `SendAndClose` true: its frame is
on the wire exactly if the writer holds out, or has handed over, a `true`
(`ResultTrue`, `FinalOnWire`).

### Rooms: `RoomProofs`

- `MembersCorrect`: `TypeOK`, `ClientsExact`, `NoOrphanConns` and `ConnAdmitted` together
  are inductive; none is without the others. `ConnAdmitted`, that a bound
  connection has an admission, is what the prune must not break: it spares
  connected clients whose deadline has passed. `ClientsAreExact` and
  `NoConnLingers` are its parts.
- `ClientLimit` (`AtMostMaxClients`) and `AtMostOneForeignHost` (`OneForeignHost`, which
  no run checks: of the clients admitted at one time at most one is a host on
  another account): a step prunes, or prunes and then joins one client, or ends
  all admissions (`AdmissionSteps`).
- `HostIsTold`: `HostHearsClients`. The invariant `Told` is about a client whose
  connections never overlapped: it has one handler under way at most, and the
  last notice about it is one of that handler's.

### Messages to servers: `ServerRouteProofs`

`SendTruth`, `NoFrameToReplaced`, the action property `ClientsSeeNewer`, and
`LostOnlyMidReplacement` (`RetryBridgesReplacement`), what is left of the retry given
the gap of `ServerRouteGap`. `Registration` says where room and session are routed in each of
the three steps of `AddServer`; `RegisteredOpen` that closing and generations agree;
`CallFacts` what each call knows. Of a call in progress, the route it holds, and
the one its room would give it next, are no older than the oldest server that was
live when it began, or closed (`RouteOfCall`): `SendMessage` on a closed server
fails, so no frame reaches one. A first attempt that failed without a fault
met a closed server, so the second snapshot, taken outside an `AddServer`, is of a
newer one. The steps of the hub and of pumps only go forward and touch no call
(`ForwardKeepsCalls`).

### The legacy hub: `LegacyHubProofs`

`NoDeadSeat` and `MessagesStayInRoom`. The invariant adds that whoever has joined
has a room and a role (`JoinedKnow`) and that messages under way are from and to
such connections (`MailJoined`).

### Limiter and telemetry: `TelemetryIngestProofs`

- `NoMoreThanMaxAttempts`: `WindowBound`. It needs what the filter does to an attempt
  that is appended (`RecentAppend`), that it keeps recent attempts (`RecentStays`)
  and that growing older makes nothing recent (`RecentOlder`). These are facts
  about a recursive function on sequences of every length. The library's induction
  theorems cannot be used, so each is shown by a least counterexample: a set of
  numbers has a least element (`LeastNat`, from the library's theorem on
  well-founded relations), so of the sequences that refute the fact one is the
  extension of a sequence that does not (`FirstAppend`). That the recursion
  defines anything at all is shown in the same way (`KeptExists`).
- `RingShowsLatest`: `SnapshotIsLatest`. `RingInv` says which report each slot holds,
  by its side of `ringNext` (`Slot`), and that a ring that is not full has
  `ringNext = 0`.
- `EveryReportCounted`: `BreakdownsAgree`. The reports recorded have words of the
  whitelists because `FoldEnum` returns one whatever arrives (`ReportWords`).

### Only model-checked

- Liveness: `GraceEnds`, `DeviceFreed`, `FinisherReturns`, `WriterStops`, `SlotFreed`,
  `ReplacementNotStalled`, `IdleForgotten`. Fairness and ENABLED are beyond the prover.
  `SessionLifecycle` promises safety only, so its refinement is proved as a whole.
- The four runs that expect a violation.

## Not modelled

- Contents of messages, except which of them is a final frame, is a notice about
  which session or client, and is sent to whom. `peer_disconnected` names no session:
  what a server with a newer session makes of a late one is not in the code.
- Relaying of frames between two peers of a session beyond `ServerRoute`, and which
  client of a room a frame is addressed to.
- Accounts: rotation of refresh tokens is a sequence of database statements whose
  isolation is PostgreSQL's. Password hashing, JWT, TURN credentials, JSON,
  logging, `Stats`, health checks, diagnostics: values without control. The handlers
  of `Signaling` begin after the JWT middleware.
- Real time: deadlines and windows end at any moment after they begin, but in the
  limiter, where time is counted in ticks.
- Failure of the process: nothing of the hub is persisted, so a restart is
  `Init`.
- `room.state`, `UpdateGuestPassword`, `SetPassword`: they gate no transition of the
  models. `SetPassword` writes `room.PasswordHash` while `Join` reads it without a
  lock, a data race that no order of steps of a model would express.
- `UnregisterGuestDevice` is an operation of `DeviceHub`, but no handler calls it.
- Waiting on a lock: a critical section is one step. What a client that does not
  read can hold up while `CloseAllClients` flushes under `h.mu` is in the plan.

## Plan

Done, in this order: `DeviceHub` and its proofs, `Connection`, `Room`,
`LegacyHub`, `ServerRoute`; then `SessionLifecycle` with its refinement, `Signaling` and
its proofs, roles and notices in `Room`, `RateLimiter`, `Telemetry` and `TelemetryIngest`.

Then the proofs: the refinement and `NoSilentDrop`, `HostKnowsSession` and `PeersTold`,
`Room`, `LegacyHub`, `Connection`, `ServerRoute`, `TelemetryIngest`. No safety property of
the runs is left without a theorem.

Proofs to come: theorems that go with the models below, and safety cores of the
liveness properties where one can be named, such as `GraceAlwaysPending` for
`GraceEnds`: an invariant by which the step that helps is always possible.

Models to come:

1. `HubLocking`: the waits under `h.mu` on the writers of connections
   (`CloseAllClients` flushes final frames).
2. `MessageDelivery` (a message reaches at most one server, registered during the
   call), implemented by `ServerRoute`; `FrameStream` (a prefix of the accepted
   frames is delivered, then the stream ends), implemented by `Connection`.
3. Refresh-token rotation over an external database.
