--------------------------- MODULE MCPeerSignals ---------------------------
(* Two local services that speak p; the service on one host speaks p, the   *)
(* one on the other host q, which no local service does.                    *)
EXTENDS PeerSignals

CONSTANTS w1, w2, h1, h2, s1, s2

MCProtocolOf == [w \in Wsids |-> "p"]
MCProtocolAt == [s \in Services |-> IF s = s1 THEN "p" ELSE "q"]
MCServicesAt == [h \in Hosts |-> IF h = h1 THEN {s1} ELSE {s2}]
MCOwnHosts == [h \in Hosts |-> h]        \* every host of another user
MCOneUser == [h \in Hosts |-> "user"]    \* all hosts of one user
=============================================================================
