------------------------------ MODULE MCDaemon ------------------------------
(* An instance of Daemon for TLC: a host that runs all the time, and one   *)
(* that may stop and start again, whose Keyless runs do not have the key   *)
(* and whose address also sends beacons with the other one's endpoint.     *)
EXTENDS Daemon

CONSTANTS h1, h2, Keyless

RunsOf == [p \in Peer |-> IF p = h1 THEN 2 ELSE 1]

Endpoints == UNION {{p} \X (1 .. RunsOf[p]) : p \in Peer}

CarriesOf == [p \in Peer |-> IF p = h1 THEN {<<h2, 1>>} ELSE {}]

KeyHolders == Endpoints \ {<<h1, n>> : n \in Keyless}
=============================================================================
