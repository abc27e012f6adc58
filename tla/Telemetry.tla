------------------------------- MODULE Telemetry -------------------------------
(******************************************************************************)
(* The telemetry aggregator: normalize (internal/telemetry/snapshot.go),      *)
(* record and snapshot (internal/telemetry/aggregate.go).                     *)
(*                                                                            *)
(* Words stand for strings and Canonical for lower-casing and trimming them.  *)
(* Of a report only its enums are modelled: nothing is counted by, or depends *)
(* on, its session id, its counters and its measurements.                     *)
(******************************************************************************)
EXTENDS Naturals, Sequences, FiniteSets

CONSTANTS
    RingCapacity,   \* ringCapacity
    Canonical       \* raw word -> ToLower(TrimSpace(word))

ASSUME TelemetryAssumption == RingCapacity \in Nat \ {0}

VARIABLES
    total,      \* a.total
    counts,     \* the eight counter maps: field -> value -> count
    ring,       \* a.ring
    ringNext,   \* a.ringNext
    recorded    \* history: every report recorded, in order

telemetryVars == <<total, counts, ring, ringNext, recorded>>

\* The whitelists of the fields that are enums.
CandidateTypes == {"host", "srflx", "prflx", "relay", "unknown"}
Whitelist == [
    source                |-> {"android", "host", "unknown"},
    event                 |-> {"snapshot", "path_transition", "ws_safe_mode_enter",
                               "ws_safe_mode_exit", "unknown"},
    pc_role               |-> {"main", "video", "unknown"},
    local_candidate_type  |-> CandidateTypes,
    remote_candidate_type |-> CandidateTypes,
    address_family        |-> {"ipv4", "ipv6", "unknown"},
    protocol              |-> {"udp", "tcp", "unknown"},
    relay_protocol        |-> {"udp", "tcp", "tls", "none", "unknown"},
    path_class            |-> {"direct", "relay", "unknown"},
    codec                 |-> {"h264", "h265", "av1", "unknown"}]

\* The fields that are counted by value.
Counted == DOMAIN Whitelist \ {"local_candidate_type", "remote_candidate_type"}

\* Mutation: a word off the list stays as it is.
FoldEnumKeeps(word, field) == Canonical[word]

FoldEnum(word, field) ==
    IF Canonical[word] \in Whitelist[field] THEN Canonical[word] ELSE "unknown"

\* report.normalize: afterwards every enum of the report is a listed word.
Normalize(r) == [f \in DOMAIN Whitelist |-> FoldEnum(r[f], f)]

--------------------------------------------------------------------------------
TelemetryInit ==
    /\ total = 0
    /\ counts = [f \in Counted |-> <<>>]
    /\ ring = <<>>
    /\ ringNext = 0
    /\ recorded = <<>>

\* The ring fills, then its oldest slot is overwritten.
Store(r) ==
    IF Len(ring) < RingCapacity
    THEN ring' = Append(ring, r) /\ UNCHANGED ringNext
    ELSE /\ ring' = [ring EXCEPT ![ringNext + 1] = r]
         /\ ringNext' = (ringNext + 1) % RingCapacity

\* m[v]++ on a Go map.
CountedOnce(m, v) ==
    [x \in DOMAIN m \cup {v} |->
        (IF x \in DOMAIN m THEN m[x] ELSE 0) + (IF x = v THEN 1 ELSE 0)]

\* aggregator.record: all counters and the ring under one lock.
Record(r) ==
    /\ total' = total + 1
    /\ counts' = [f \in Counted |-> CountedOnce(counts[f], r[f])]
    /\ Store(r)
    /\ recorded' = Append(recorded, r)

\* Mutation: the slots are reversed without finding the oldest first.
SnapshotOfSlots == [i \in DOMAIN ring |-> ring[Len(ring) + 1 - i]]

\* The ring in the order snapshot returns it: newest first.
Snapshot ==
    LET chron == IF Len(ring) < RingCapacity THEN ring
                 ELSE SubSeq(ring, ringNext + 1, Len(ring))
                        \o SubSeq(ring, 1, ringNext)
    IN  [i \in DOMAIN chron |-> chron[Len(chron) + 1 - i]]

--------------------------------------------------------------------------------
Least(a, b) == IF a < b THEN a ELSE b

\* The admin's snapshot shows exactly the latest reports, newest first, as many
\* as the ring holds, also when the ring has wrapped more than once.
SnapshotIsLatest ==
    Snapshot = [i \in 1 .. Least(total, RingCapacity) |-> recorded[total + 1 - i]]

\* Every report is counted once in each of the eight breakdowns, which agree with
\* one another, with the total and with the reports; and whatever words reports
\* arrive with, a breakdown never has more keys than its field's whitelist.
BreakdownsAgree ==
    /\ total = Len(recorded)
    /\ \A f \in Counted :
          /\ DOMAIN counts[f] = {recorded[i][f] : i \in 1 .. total}
          /\ DOMAIN counts[f] \subseteq Whitelist[f]
          /\ \A v \in DOMAIN counts[f] :
                counts[f][v] = Cardinality({i \in 1 .. total :
                                              recorded[i][f] = v})
================================================================================
