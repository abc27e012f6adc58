------------------------------ MODULE RateLimiter ------------------------------
(******************************************************************************)
(* The sliding-window limiter of internal/ratelimit/limiter.go.  Each call of *)
(* Allow and Cleanup is one critical section.                                 *)
(*                                                                            *)
(* A recorded time is represented by its age, up to Window: an attempt is     *)
(* recent (t.After(now - window)) while its age is below Window, and all      *)
(* greater ages are alike.  So time passes without bound in a finite model.   *)
(******************************************************************************)
EXTENDS Naturals, Sequences

CONSTANTS
    Addresses,      \* what RealIP returns
    MaxAttempts,    \* l.max
    Window          \* l.window, in ticks

ASSUME LimiterAssumption ==
    MaxAttempts \in Nat \ {0} /\ Window \in Nat \ {0}

VARIABLES
    attempts,   \* address -> ages of the recorded attempts; <<>> if no key
    grants      \* history: address -> ages of all grants of the last window

limiterVars == <<attempts, grants>>

LimiterTypeOK ==
    /\ attempts \in [Addresses -> Seq(0 .. Window)]
    /\ grants \in [Addresses -> Seq(0 .. Window - 1)]

LimiterInit ==
    /\ attempts = [ip \in Addresses |-> <<>>]
    /\ grants = [ip \in Addresses |-> <<>>]

Older(ages) ==
    [i \in DOMAIN ages |-> IF ages[i] < Window THEN ages[i] + 1 ELSE Window]

\* The filter both operations begin with: its loop over the recorded attempts.
Recent(ages) ==
    LET kept[n \in 0 .. Len(ages)] ==
            IF n = 0 THEN <<>>
            ELSE IF ages[n] < Window THEN Append(kept[n - 1], ages[n])
            ELSE kept[n - 1]
    IN  kept[Len(ages)]

\* Time passes by one tick.
Tick ==
    /\ attempts' = [ip \in Addresses |-> Older(attempts[ip])]
    /\ grants' = [ip \in Addresses |-> Recent(Older(grants[ip]))]

\* Allow returns false; what it filtered is stored.
Refuse(ip) ==
    /\ Len(Recent(attempts[ip])) >= MaxAttempts
    /\ attempts' = [attempts EXCEPT ![ip] = Recent(@)]
    /\ UNCHANGED grants

\* Allow returns true and records the attempt.
Grant(ip) ==
    /\ Len(Recent(attempts[ip])) < MaxAttempts
    /\ attempts' = [attempts EXCEPT ![ip] = Append(Recent(@), 0)]
    /\ grants' = [grants EXCEPT ![ip] = Append(@, 0)]

\* Mutation: an address is deleted with its last recent attempts.
CleanupAll ==
    /\ attempts' = [ip \in Addresses |-> <<>>]
    /\ UNCHANGED grants

\* Mutation: only addresses at their limit are looked at.
CleanupOfFull ==
    /\ attempts' = [ip \in Addresses |->
                      IF Len(attempts[ip]) < MaxAttempts THEN attempts[ip]
                      ELSE Recent(attempts[ip])]
    /\ UNCHANGED grants

\* Of every address the recent attempts are kept; one without any is deleted.
Cleanup ==
    /\ attempts' = [ip \in Addresses |-> Recent(attempts[ip])]
    /\ UNCHANGED grants

--------------------------------------------------------------------------------
\* No address is granted more than MaxAttempts requests in any window, whatever
\* refusals and cleanups come in between; and it is refused only then: what the
\* limiter counts is exactly what it granted, no refused attempt, none that has
\* left the window, none forgotten by a cleanup.
WindowBound ==
    \A ip \in Addresses :
        /\ Len(grants[ip]) <= MaxAttempts
        /\ Recent(attempts[ip]) = grants[ip]

Fresh(ip) == \E i \in DOMAIN attempts[ip] : attempts[ip][i] = 0

\* The map does not grow with the addresses that ever called: one that is granted
\* nothing more is forgotten.
IdleForgotten ==
    \A ip \in Addresses :
        attempts[ip] # <<>> /\ ~Fresh(ip) ~> attempts[ip] = <<>> \/ Fresh(ip)
================================================================================
