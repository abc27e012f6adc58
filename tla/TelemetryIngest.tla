---------------------------- MODULE TelemetryIngest ----------------------------
(******************************************************************************)
(* POST /telemetry/connection as cmd/server/main.go wires it: the handlers of *)
(* concurrent requests pass the rate limiter, decode and normalize their      *)
(* report outside any lock, and record it in the aggregator; the ticker's     *)
(* cleanup and the passing of time come in between.                           *)
(*                                                                            *)
(* A body beyond the limit of 1KB is refused before the limiter sees it and   *)
(* changes nothing.                                                           *)
(******************************************************************************)
EXTENDS RateLimiter, Telemetry

CONSTANTS
    Handlers,   \* concurrent requests
    Inputs,     \* reports as they arrive
    NIL,        \* no report
    MaxReports  \* bound: reports recorded in a behaviour

ASSUME IngestAssumption == NIL \notin Inputs

VARIABLE inflight   \* handler -> the report it has yet to record, or NIL

ingestVars == <<limiterVars, telemetryVars, inflight>>

IngestInit ==
    /\ LimiterInit
    /\ TelemetryInit
    /\ inflight = [h \in Handlers |-> NIL]

\* The middleware lets the request through to its handler.
Admit(h, ip, r) ==
    /\ inflight[h] = NIL
    /\ Grant(ip)
    /\ inflight' = [inflight EXCEPT ![h] = r]
    /\ UNCHANGED telemetryVars

\* 429.
TurnAway(ip) == Refuse(ip) /\ UNCHANGED <<telemetryVars, inflight>>

\* Bind fails, on malformed JSON or on a longer body than announced: 204.
Malformed(h) ==
    /\ inflight[h] # NIL
    /\ inflight' = [inflight EXCEPT ![h] = NIL]
    /\ UNCHANGED <<limiterVars, telemetryVars>>

\* Report.
Report(h) ==
    /\ inflight[h] # NIL
    /\ total < MaxReports
    /\ Record(Normalize(inflight[h]))
    /\ inflight' = [inflight EXCEPT ![h] = NIL]
    /\ UNCHANGED limiterVars

IngestTick == Tick /\ UNCHANGED <<telemetryVars, inflight>>

IngestCleanup == Cleanup /\ UNCHANGED <<telemetryVars, inflight>>

IngestNext ==
    \/ \E h \in Handlers, ip \in Addresses, r \in Inputs : Admit(h, ip, r)
    \/ \E ip \in Addresses : TurnAway(ip)
    \/ \E h \in Handlers : Malformed(h) \/ Report(h)
    \/ IngestTick
    \/ IngestCleanup

\* Time passes, and the 60 s ticker calls Cleanup.
IngestFairness == WF_ingestVars(IngestTick) /\ WF_ingestVars(IngestCleanup)

IngestSpec == IngestInit /\ [][IngestNext]_ingestVars /\ IngestFairness
================================================================================
