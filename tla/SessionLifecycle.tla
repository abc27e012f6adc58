---------------------------- MODULE SessionLifecycle ----------------------------
(******************************************************************************)
(* What the grace machinery of internal/relay/session_grace.go promises about *)
(* the life of sessions, without maps, connections, generations or callbacks: *)
(* a device serves one session at a time; a side that drops is away until it  *)
(* comes back or its own window lapses; a window that has lapsed ends the     *)
(* session unless the side comes back first; at most Cap sessions are in      *)
(* grace, and the one that goes is the one longest in grace.                  *)
(*                                                                            *)
(* Here a timer is cancelled at the moment the side comes back.  The code     *)
(* cannot do that, its callback may already run, and uses generations.        *)
(******************************************************************************)
EXTENDS Naturals, FiniteSets

CONSTANTS
    SessionIDs,
    Devices,
    Sides,
    Cap,        \* how many sessions may be in grace at once, at least 1
    NONE        \* no device

VARIABLES
    phase,      \* "new", "open" or "ended"
    device,     \* the device a session occupies while open
    away,       \* the sides in grace; of an ended session, those it ended for
    due,        \* <<s, side>>: the current window of that side has lapsed
    senior      \* <<s, t>>: both are in grace, s for longer than t

lifecycleVars == <<phase, device, away, due, senior>>

InGrace == {s \in SessionIDs : phase[s] = "open" /\ away[s] # {}}

Start ==
    /\ phase = [s \in SessionIDs |-> "new"]
    /\ device = [s \in SessionIDs |-> NONE]
    /\ away = [s \in SessionIDs |-> {}]
    /\ due = {}
    /\ senior = {}

\* A session opens on a device that serves no other.
Open(s, d) ==
    /\ phase[s] = "new"
    /\ \A t \in SessionIDs : phase[t] = "open" => device[t] # d
    /\ phase' = [phase EXCEPT ![s] = "open"]
    /\ device' = [device EXCEPT ![s] = d]
    /\ UNCHANGED <<away, due, senior>>

\* A session in grace with a side that went away first keeps its seniority.
SeniorOnceAway(s) ==
    IF s \in InGrace THEN senior ELSE senior \cup (InGrace \X {s})

\* A side drops and starts a window; there is room for one more in grace.
Drop(s, side) ==
    /\ phase[s] = "open"
    /\ side \notin away[s]
    /\ Cardinality(InGrace \cup {s}) <= Cap
    /\ away' = [away EXCEPT ![s] = @ \cup {side}]
    /\ senior' = SeniorOnceAway(s)
    /\ UNCHANGED <<phase, device, due>>

\* A side drops and the session longest in grace makes room.
DropAndEvict(s, side, eldest) ==
    /\ phase[s] = "open"
    /\ side \notin away[s]
    /\ Cardinality(InGrace \cup {s}) > Cap
    /\ eldest \in InGrace \ {s}
    /\ \A t \in InGrace \ {eldest} : <<eldest, t>> \in senior
    /\ phase' = [phase EXCEPT ![eldest] = "ended"]
    /\ away' = [away EXCEPT ![eldest] = {}, ![s] = @ \cup {side}]
    /\ due' = {p \in due : p[1] # eldest}
    /\ senior' = {p \in SeniorOnceAway(s) : p[1] # eldest /\ p[2] # eldest}
    /\ UNCHANGED device

\* The sessions no longer in grace leave the order.
Forget(S) == senior' = {p \in senior : p[1] \notin S /\ p[2] \notin S}

\* A side comes back: its window, lapsed or not, is void.
Resume(s, side) ==
    /\ phase[s] = "open"
    /\ side \in away[s]
    /\ away' = [away EXCEPT ![s] = @ \ {side}]
    /\ due' = due \ {<<s, side>>}
    /\ Forget(IF away[s] = {side} THEN {s} ELSE {})
    /\ UNCHANGED <<phase, device>>

\* The window of a side that is still away lapses.
Lapse(s, side) ==
    /\ phase[s] = "open"
    /\ side \in away[s]
    /\ due' = due \cup {<<s, side>>}
    /\ UNCHANGED <<phase, device, away, senior>>

\* A session ends because a side that is still away had its whole window.
Expire(s) ==
    /\ \E side \in away[s] : <<s, side>> \in due
    /\ phase' = [phase EXCEPT ![s] = "ended"]
    /\ due' = {p \in due : p[1] # s}
    /\ Forget({s})
    /\ UNCHANGED <<device, away>>

\* Sessions end on request: their device is deleted, their guest leaves, or
\* nobody ever joined them.
Close(S) ==
    /\ \A s \in S : phase[s] = "open"
    /\ phase' = [s \in SessionIDs |-> IF s \in S THEN "ended" ELSE phase[s]]
    /\ away' = [s \in SessionIDs |-> IF s \in S THEN {} ELSE away[s]]
    /\ due' = {p \in due : p[1] \notin S}
    /\ Forget(S)
    /\ UNCHANGED device

LifeStep ==
    \/ \E s \in SessionIDs, d \in Devices : Open(s, d)
    \/ \E s \in SessionIDs, side \in Sides :
          \/ Drop(s, side)
          \/ \E eldest \in SessionIDs : DropAndEvict(s, side, eldest)
          \/ Resume(s, side)
          \/ Lapse(s, side)
    \/ \E s \in SessionIDs : Expire(s)
    \/ \E S \in SUBSET SessionIDs : Close(S)

Life == Start /\ [][LifeStep]_lifecycleVars
================================================================================
