------------------------------ MODULE MCDeviceHub ------------------------------
(* Instances of DeviceHub for TLC.                                             *)
EXTENDS DeviceHubRefinement, TLC

\* Session ids are interchangeable.
Symmetry == Permutations(SessionIDs)

\* Server objects are made in the order of their numbers, and devices numbered in
\* the order they first come online.  The generations keep that order anyway, so
\* no behaviour is lost but for the names; symmetry would take much longer.
Numbered ==
    \A w \in Servers :
        server[w] # NoServer =>
            /\ \A v \in Servers : v < w => server[v] # NoServer
            /\ \A d \in Devices :
                  d < server[w].device => \E v \in Servers : v < w /\ server[v].device = d

NumberedSpec == Init /\ [][Next /\ Numbered']_vars
================================================================================
