-------------------------- MODULE DeviceHubRefinement --------------------------
(* The device hub implements the promised life of sessions.                    *)
EXTENDS DeviceHub

\* The states of the hub as states of the lifecycle: a window has lapsed when
\* a callback with the side's current generation is waiting for h.mu.
Phase ==
    [s \in SessionIDs |-> IF s \in sessions THEN "open"
                          ELSE IF session[s] = NoSession THEN "new"
                          ELSE "ended"]

DeviceOf == [s \in SessionIDs |-> session[s].device]

Due ==
    {p \in sessions \X Sides : /\ p[2] \in stale[p[1]]
                               /\ <<p[1], p[2], graceGen[p[1]][p[2]]>> \in fired}

Lifecycle == INSTANCE SessionLifecycle WITH
    phase <- Phase, device <- DeviceOf, away <- stale, due <- Due,
    senior <- staleBefore, Cap <- MaxStaleSessions

\* Every step of the hub is a step of the lifecycle or none: a callback that
\* runs late, after its side has come back or dropped again, is as good as
\* cancelled; a session leaves by expiry only when a window of its own has run
\* out, and the cap takes the session longest in grace, where a session keeps
\* its place when its other side drops too.
ImplementsLifecycle == Lifecycle!Life
================================================================================
