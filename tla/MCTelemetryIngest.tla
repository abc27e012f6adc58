--------------------------- MODULE MCTelemetryIngest ---------------------------
(* An instance of TelemetryIngest for TLC: a report with every field known, one *)
(* of them in odd spelling, and one with none known.                            *)
EXTENDS TelemetryIngest

Words == UNION {Whitelist[f] : f \in DOMAIN Whitelist}
            \cup {" Direct ", "direct", "pigeon", ""}

MCCanonical == [w \in Words |-> IF w = " Direct " THEN "direct" ELSE w]

Known ==
    [f \in DOMAIN Whitelist |->
        IF f = "path_class" THEN " Direct "
        ELSE CHOOSE w \in Whitelist[f] : w # "unknown"]

Unknown ==
    [f \in DOMAIN Whitelist |-> IF f = "codec" THEN "" ELSE "pigeon"]

MCInputs == {Known, Unknown}
================================================================================
